------------------------- MODULE ChatDeliveryProofs -------------------------
(***************************************************************************)
(* ChatDelivery, for any clients, contacts, messages, transports, crashes  *)
(* and failing saves: the type invariant, SentIsHeld, CursorSkipsNothing,  *)
(* LostOnlyByMishap, RelayOrder, ShownOnce and HistoryGrows.               *)
(*                                                                         *)
(* The inductive invariant says of a history, in the file or in memory,    *)
(* how it agrees with the relay, with who wrote what and with the ratchet  *)
(* (HistOk), of a client how its two copies of a history are related       *)
(* (ConvOk) and what the operation it is in may rely on (JobOk).  The key  *)
(* to it is Handled: what a client has decrypted, except the one message   *)
(* it is about to store.                                                   *)
(*                                                                         *)
(* A step of one client is taken apart into its effect on the others       *)
(* (Frame, OthersOk), on its histories (OneConv, QuitOk) and on its own    *)
(* operation.  StepOk is what the action properties and the refinement of  *)
(* MessageChannel, at the end, need to know of it.                         *)
(***************************************************************************)
EXTENDS ChatDelivery, FiniteSetTheorems, SequenceTheorems, WellFoundedInduction, TLAPS

-----------------------------------------------------------------------------
(* What the statements on the message table preserve. *)

(* The facts about the table that every statement preserves. *)
QueueInv == /\ QueueTypeOK /\ IsFiniteSet(queue)
            /\ OneRowPerSubmission /\ IdsAreKeys
            /\ 0 < nextId

(* The empty table satisfies them. *)
LEMMA QueueInitInv == QueueInit => QueueInv
  BY FS_EmptySet DEF QueueInit, QueueInv, QueueTypeOK, OneRowPerSubmission, IdsAreKeys

(* Acceptance keeps every row and adds at most one, under an id above all  *)
(* earlier ones, after which the row is stored.                            *)
LEMMA SubmitInv ==
  ASSUME QueueInv,
         NEW s \in Client, NEW r \in Client, NEW m \in MsgId,
         NEW e \in ExpiresAt,
         Submit(s, r, m, e)
  PROVE  /\ QueueInv'
         /\ queue \subseteq queue'
         /\ \A q \in queue' \ queue : q = NewRow(s, r, m, e)
         /\ nextId <= nextId'
         /\ Stored(s, r, m)'
<1>1. CASE Stored(s, r, m)
  <2>1. queue' = queue /\ nextId' = nextId
    BY <1>1 DEF Submit, queueVars
  <2> QED
    BY <2>1, <1>1 DEF QueueInv, QueueTypeOK, OneRowPerSubmission, IdsAreKeys, Stored
<1>2. CASE ~Stored(s, r, m)
  <2> DEFINE new == NewRow(s, r, m, e)
  <2>1. queue' = queue \cup {new} /\ nextId' = nextId + 1
    BY <1>2 DEF Submit
  <2>2. /\ new \in Row
        /\ new.id = nextId /\ new.from = s /\ new.to = r /\ new.mid = m
    BY DEF NewRow, Row, QueueInv, QueueTypeOK
  <2>3. QueueTypeOK'
    BY <2>1, <2>2 DEF QueueInv, QueueTypeOK
  <2>4. IsFiniteSet(queue')
    BY <2>1, FS_AddElement DEF QueueInv
  <2>5. OneRowPerSubmission'
    BY <1>2, <2>1, <2>2 DEF QueueInv, OneRowPerSubmission, Stored
  <2>6. IdsAreKeys'
    <3> HIDE DEF new
    <3>1. /\ nextId \in Nat /\ nextId' = nextId + 1 /\ new.id = nextId
          /\ \A q \in queue : q.id \in Nat /\ 0 < q.id /\ q.id < nextId
          /\ \A p, q \in queue : p.id = q.id => p = q
      BY <2>1, <2>2 DEF QueueInv, QueueTypeOK, IdsAreKeys, Row
    <3>2. 0 < nextId
      BY DEF QueueInv
    <3> QED
      BY <2>1, <3>1, <3>2 DEF IdsAreKeys
  <2>7. Stored(s, r, m)'
    BY <2>1, <2>2 DEF Stored
  <2> QED
    BY <2>1, <2>3, <2>4, <2>5, <2>6, <2>7 DEF QueueInv, QueueTypeOK
<1> QED
  BY <1>1, <1>2

(* An acknowledgement changes at most the flag of the one row it names. *)
LEMMA MarkAckedInv ==
  ASSUME QueueInv, nextId' = nextId,
         NEW r \in Client, NEW i \in Nat,
         MarkAcked(r, i)
  PROVE  /\ QueueInv'
         /\ \A q \in queue' : \E p \in queue :
              q = IF p.id = i /\ p.to = r THEN [p EXCEPT !.acked = TRUE] ELSE p
         /\ \A p \in queue :
              (IF p.id = i /\ p.to = r THEN [p EXCEPT !.acked = TRUE] ELSE p) \in queue'
<1> DEFINE f(q) == IF q.id = i /\ q.to = r THEN [q EXCEPT !.acked = TRUE] ELSE q
<1>1. queue' = {f(q) : q \in queue}
  BY DEF MarkAcked
<1>2. \A q \in queue : q \in Row
  BY DEF QueueInv, QueueTypeOK
<1>3. \A q \in queue : /\ f(q) \in Row
                       /\ f(q).id = q.id /\ f(q).from = q.from
                       /\ f(q).to = q.to /\ f(q).mid = q.mid
  BY <1>2 DEF Row
<1>4. QueueTypeOK'
  BY <1>1, <1>3 DEF QueueInv, QueueTypeOK
<1>5. IsFiniteSet(queue')
  <2> DEFINE g == [q \in queue |-> f(q)]
  <2>1. g \in Surjection(queue, queue')
    BY <1>1 DEF Surjection
  <2> QED
    BY <2>1, FS_Surjection DEF QueueInv
<1>6. OneRowPerSubmission' /\ IdsAreKeys'
  <2> HIDE DEF f
  <2>1. \A q \in queue' : \E p \in queue : q = f(p)
    BY <1>1
  <2> QED
    BY <1>3, <2>1 DEF QueueInv, OneRowPerSubmission, IdsAreKeys
<1> QED
  BY <1>1, <1>4, <1>5, <1>6 DEF QueueInv

-----------------------------------------------------------------------------
(* The messages a client has decrypted and put somewhere. *)
Handled(c) == opened[c] \ InHand(c)

(* A history of conversation k: who wrote its own entries, and which of    *)
(* them the relay has.                                                     *)
OwnOk(k, h) ==
  \A m \in MsgId :
    /\ h.status[m] # "none" => letter[m] = k
    /\ h.status[m] \in {"sent", "read"} => Stored(k[1], k[2], m)

CursorOk(k, h) ==
  /\ h.cursor < nextId
  /\ \A q \in queue : q.to = k[1] /\ q.from = k[2] /\ q.id <= h.cursor => q.acked

InboxOk(k, h) ==
  \A m \in Received(h) : m \in Handled(k[1]) /\ letter[m] = <<k[2], k[1]>>

(* An entry that came from the relay: its row is there, the entries before *)
(* it have earlier rows, and the messages of earlier rows are handled.     *)
OrderOk(k, h) ==
  \A j \in DOMAIN h.inbox : h.inbox[j].via = "relay" =>
    /\ \E q \in queue : q.mid = h.inbox[j].mid
    /\ \A q \in queue : q.mid = h.inbox[j].mid =>
         /\ \A i \in DOMAIN h.inbox : i < j /\ h.inbox[i].via = "relay" =>
              \A p \in queue : p.mid = h.inbox[i].mid => p.id < q.id
         /\ \A p \in queue : p.from = k[2] /\ p.to = k[1] /\ p.id < q.id =>
              p.mid \in Handled(k[1])

HistOk(k, h) == OwnOk(k, h) /\ CursorOk(k, h) /\ InboxOk(k, h) /\ OrderOk(k, h)

(* g is a later state of the history h. *)
Ahead(h, g) ==
  /\ Received(h) \subseteq Received(g)
  /\ h.cursor <= g.cursor
  /\ \A m \in MsgId : Rank(h.status[m]) <= Rank(g.status[m])

(* The file and the memory of conversation k. *)
ConvOk(k) ==
  /\ HistOk(k, disk[k]) /\ HistOk(k, mem[k]) /\ Ahead(disk[k], mem[k])
  /\ Received(disk[k]) \subseteq shown
  /\ k[1] \in Terminal =>
       \A m \in shown : letter[m] = <<k[2], k[1]>> => m \in Received(disk[k])
  /\ k[1] \notin Terminal => mem[k].inbox = disk[k].inbox

(* The page is what the relay has, and leaves out no unacknowledged row    *)
(* before a row it has.                                                    *)
PageOk(c) ==
  /\ \A r \in job[c].page :
       /\ r.from = job[c].peer /\ r.to = c
       /\ \E q \in queue : q.id = r.id /\ q.from = r.from /\ q.to = c /\ q.mid = r.mid
  /\ \A q \in queue : q.from = job[c].peer /\ q.to = c /\ ~q.acked =>
       \A r \in job[c].page : q.id <= r.id => \E s \in job[c].page : s.id = q.id

JobOk(c) ==
  /\ job[c].pc # "idle" => Conv(c) \in Contacts
  /\ job[c].pc \in {"submit", "status", "retry"} => \A m \in job[c].todo : letter[m] = Conv(c)
  /\ job[c].pc \in {"submit", "retry"} => \A m \in job[c].todo : Hist(c).status[m] = "queued"
  /\ job[c].pc \notin {"page", "store", "ack"} => job[c].page = {}
  /\ PageOk(c)
  /\ job[c].pc \in {"store", "ack"} =>
       job[c].page # {} /\ Oldest(job[c].page).mid \in opened[c]
  /\ job[c].pc = "paste" =>
       \E m \in opened[c] : job[c].todo = {m} /\ letter[m] = <<job[c].peer, c>>

(* What was decrypted was written to this client, and is somewhere. *)
OpenedOk(c) ==
  /\ \A m \in opened[c] : letter[m] # NotWritten /\ letter[m][2] = c
  /\ Handled(c) \subseteq shown \cup cut \cup Unsaved(c)

ConvsOk(c) == \A k \in Contacts : k[1] = c => ConvOk(k)

SharedOk ==
  /\ \A m \in shown \cup cut :
       letter[m] # NotWritten /\ \A c \in Client : letter[m][2] = c => m \in Handled(c)
  /\ \A q \in queue : /\ letter[q.mid] = <<q.from, q.to>>
                      /\ \A c \in Client : q.acked /\ q.to = c => q.mid \in Handled(c)

ClientOk(c) == JobOk(c) /\ OpenedOk(c) /\ ConvsOk(c)

IInv == TypeOK /\ QueueInv /\ SharedOk /\ \A c \in Client : ClientOk(c)

-----------------------------------------------------------------------------
(* What a step of client c does to the rest of the system. *)
OthersStay(c) ==
  /\ \A d \in Client \ {c} : job'[d] = job[d] /\ opened'[d] = opened[d]
  /\ \A k \in Contacts : k[1] # c => mem'[k] = mem[k] /\ disk'[k] = disk[k]
  /\ \A m \in MsgId : letter[m] # NotWritten => letter'[m] = letter[m]

(* Rows are kept; only those of c are acknowledged, after it has handled   *)
(* them; a new row is one that c has written and was not there.            *)
RowsStay(c) ==
  /\ nextId <= nextId'
  /\ \A q \in queue : \E s \in queue' :
       /\ s.id = q.id /\ s.from = q.from /\ s.to = q.to /\ s.mid = q.mid
       /\ q.acked => s.acked
  /\ \A s \in queue' :
       \/ \E q \in queue :
            /\ s.id = q.id /\ s.from = q.from /\ s.to = q.to /\ s.mid = q.mid
            /\ s.acked = q.acked \/ (q.to = c /\ q.mid \in Handled(c)')
       \/ /\ s.id >= nextId /\ ~s.acked
          /\ letter'[s.mid] = <<s.from, s.to>>
          /\ \A q \in queue : q.mid # s.mid

(* What c shows or loses is its own. *)
NewsOk(c) ==
  /\ shown \subseteq shown' /\ cut \subseteq cut'
  /\ \A m \in (shown' \cup cut') \ (shown \cup cut) :
       letter[m] # NotWritten /\ letter[m][2] = c /\ m \in Handled(c)'
  /\ \A m \in shown' \ shown : letter[m] # NotWritten /\ letter[m][2] = c
  /\ Handled(c) \subseteq Handled(c)'

Frame(c) == OthersStay(c) /\ RowsStay(c) /\ NewsOk(c)

(* What a step may do to the files: they go on, or start again, and never  *)
(* receive a message that was shown before.                                *)
SavesOk ==
  \A k \in Contacts :
    /\ (Received(disk'[k]) \ Received(disk[k])) \cap shown = {}
    /\ disk'[k] = EmptyHistory \/ Ahead(disk[k], disk'[k])

(* What c has opened, and neither shown nor lost: it may show or lose some *)
(* of it, or open one more message.                                        *)
Owed(c) == InHand(c) \cup Unsaved(c)

ReaderOk(c) ==
  \/ \E S \in SUBSET Owed(c) : Owed(c)' = Owed(c) \ S /\ shown' = shown \cup S /\ cut' = cut
  \/ \E S \in SUBSET Owed(c) : Owed(c)' = Owed(c) \ S /\ cut' = cut \cup S /\ shown' = shown
  \/ \E m \in MsgId : /\ letter[m] # NotWritten /\ letter[m][2] = c /\ m \notin opened[c]
                      /\ Owed(c)' = Owed(c) \cup {m} /\ shown' = shown /\ cut' = cut

StepOk(c) == SavesOk /\ ReaderOk(c)

-----------------------------------------------------------------------------
LEMMA LeastNumber ==
  ASSUME NEW S \in SUBSET Nat, S # {}
  PROVE  \E x \in S : \A y \in S : x <= y
<1> DEFINE R == OpToRel(<, Nat)
<1>1. IsWellFoundedOn(R, Nat)
  BY NatLessThanWellFounded
<1>2. PICK x \in S : \A y \in S : ~(<<y, x>> \in R)
  BY <1>1, WFMin
<1>3. \A y \in S : ~(y < x)
  BY <1>2 DEF OpToRel
<1> QED
  BY <1>3

LEMMA OldestRow ==
  ASSUME NEW P \in SUBSET Row, P # {}
  PROVE  Oldest(P) \in P /\ \A r \in P : Oldest(P).id <= r.id
<1> DEFINE S == {r.id : r \in P}
<1>1. S \in SUBSET Nat /\ S # {}
  BY DEF Row
<1>2. PICK x \in S : \A y \in S : x <= y
  BY <1>1, LeastNumber
<1>3. PICK q \in P : q.id = x
  BY <1>2
<1>4. \A r \in P : q.id <= r.id
  BY <1>2, <1>3
<1> QED
  BY <1>4 DEF Oldest

(* Contacts and who is in them. *)
LEMMA ContactFacts ==
  ASSUME NEW k \in Contacts
  PROVE  k[1] \in Client /\ k[2] \in Client /\ k[1] # k[2] /\ k = <<k[1], k[2]>> /\ k # NotWritten
  BY ContactsAssumption, ChatAssumption

(* The histories and jobs by their fields. *)
LEMMA HistoryFields ==
  ASSUME NEW h \in History
  PROVE  /\ h.status \in [MsgId -> Status] /\ h.inbox \in Seq(Entry) /\ h.cursor \in Nat
         /\ DOMAIN h.inbox = 1 .. Len(h.inbox)
         /\ \A i \in DOMAIN h.inbox : h.inbox[i].mid \in MsgId
         /\ Received(h) \in SUBSET MsgId
<1>1. h.status \in [MsgId -> Status] /\ h.inbox \in Seq(Entry) /\ h.cursor \in Nat
  BY DEF History
<1>2. DOMAIN h.inbox = 1 .. Len(h.inbox) /\ \A i \in DOMAIN h.inbox : h.inbox[i] \in Entry
  BY <1>1, LenProperties, ElementOfSeq
<1>3. \A i \in DOMAIN h.inbox : h.inbox[i].mid \in MsgId
  BY <1>2 DEF Entry
<1> QED
  BY <1>1, <1>2, <1>3 DEF Received

LEMMA RankType ==
  ASSUME NEW s
  PROVE  Rank(s) \in 0 .. 3
  BY DEF Rank

LEMMA JobFields ==
  ASSUME NEW j \in Job
  PROVE  /\ j.pc \in Step /\ j.peer \in Client /\ j.todo \in SUBSET MsgId
         /\ j.page \in SUBSET Row /\ j.dirty \in BOOLEAN
  BY DEF Job

(* A message in hand is one. *)
LEMMA InHandType ==
  ASSUME TypeOK, NEW c \in Client, JobOk(c)
  PROVE  InHand(c) \in SUBSET MsgId /\ InHand(c) \subseteq opened[c]
<1>1. job[c] \in Job
  BY DEF TypeOK
<1>2. opened[c] \in SUBSET MsgId
  BY DEF TypeOK
<1> QED
  BY <1>1, <1>2, JobFields DEF InHand, JobOk
-----------------------------------------------------------------------------
(* The invariant in the words the lemmas below use. *)
LEMMA InvFacts ==
  ASSUME IInv, NEW c \in Client
  PROVE  /\ TypeOK /\ QueueInv /\ SharedOk /\ JobOk(c) /\ OpenedOk(c)
         /\ \A k \in Contacts : k[1] = c => ConvOk(k)
         /\ job[c] \in Job /\ opened[c] \in SUBSET MsgId
         /\ \A q \in queue : q \in Row /\ q.id \in Nat /\ q.id < nextId
  BY DEF IInv, ClientOk, ConvsOk, TypeOK, QueueInv, QueueTypeOK, IdsAreKeys, Row

(* What was true of a history stays true. *)
LEMMA HistStays ==
  ASSUME IInv, QueueInv', NEW c \in Client, Frame(c),
         NEW k \in Contacts, NEW h \in History, HistOk(k, h),
         Handled(k[1]) \subseteq Handled(k[1])'
  PROVE  HistOk(k, h)'
<1> USE HistoryFields, ContactFacts
<1>1. /\ \A q \in queue : q.id \in Nat /\ q.id < nextId
      /\ \A s \in queue' : s.id \in Nat
      /\ nextId \in Nat /\ nextId' \in Nat
  BY DEF IInv, QueueInv, QueueTypeOK, IdsAreKeys, Row
<1>2. \A m \in MsgId : letter[m] # NotWritten => letter'[m] = letter[m]
  BY DEF Frame, OthersStay
<1>3. OwnOk(k, h)'
  <2> SUFFICES ASSUME NEW m \in MsgId
               PROVE  /\ h.status[m] # "none" => letter'[m] = k
                      /\ h.status[m] \in {"sent", "read"} => Stored(k[1], k[2], m)'
    BY DEF OwnOk
  <2>1. h.status[m] # "none" => letter[m] = k
    BY DEF HistOk, OwnOk
  <2>2. h.status[m] \in {"sent", "read"} => Stored(k[1], k[2], m)
    BY DEF HistOk, OwnOk
  <2>3. Stored(k[1], k[2], m) => Stored(k[1], k[2], m)'
    BY DEF Stored, Frame, RowsStay
  <2> QED
    BY <2>1, <2>2, <2>3, <1>2
<1>4. CursorOk(k, h)'
  <2>1. h.cursor \in Nat /\ h.cursor < nextId /\ nextId <= nextId'
    BY DEF HistOk, CursorOk, Frame, RowsStay
  <2>2. ASSUME NEW s \in queue', s.to = k[1], s.from = k[2], s.id <= h.cursor PROVE s.acked
    <3>1. PICK q \in queue : /\ s.id = q.id /\ s.from = q.from /\ s.to = q.to /\ s.mid = q.mid
      BY <1>1, <2>1, <2>2 DEF Frame, RowsStay
    <3>2. q.acked
      BY <2>2, <3>1 DEF HistOk, CursorOk
    <3>3. PICK t \in queue' : t.id = q.id /\ t.acked
      BY <3>2 DEF Frame, RowsStay
    <3>4. t = s
      BY <3>1, <3>3 DEF QueueInv, IdsAreKeys
    <3> QED
      BY <3>3, <3>4
  <2> QED
    BY <1>1, <2>1, <2>2 DEF CursorOk
<1>5. \A m \in Received(h) : m \in Handled(k[1])' /\ letter'[m] = <<k[2], k[1]>>
  <2> SUFFICES ASSUME NEW m \in Received(h)
               PROVE  m \in Handled(k[1])' /\ letter'[m] = <<k[2], k[1]>>
    OBVIOUS
  <2>1. m \in MsgId /\ m \in Handled(k[1]) /\ letter[m] = <<k[2], k[1]>>
    BY DEF HistOk, InboxOk
  <2>2. letter[m] # NotWritten
    BY <2>1, ChatAssumption
  <2> QED
    BY <2>1, <2>2, <1>2
<1>6. InboxOk(k, h)'
  BY <1>5 DEF InboxOk
<1>7. ASSUME NEW j \in DOMAIN h.inbox, h.inbox[j].via = "relay"
      PROVE  /\ \E q \in queue' : q.mid = h.inbox[j].mid
             /\ \A q \in queue' : q.mid = h.inbox[j].mid =>
                  /\ \A i \in DOMAIN h.inbox : i < j /\ h.inbox[i].via = "relay" =>
                       \A p \in queue' : p.mid = h.inbox[i].mid => p.id < q.id
                  /\ \A p \in queue' : p.from = k[2] /\ p.to = k[1] /\ p.id < q.id =>
                       p.mid \in Handled(k[1])'
  <2>1. ASSUME NEW i \in DOMAIN h.inbox, h.inbox[i].via = "relay",
               NEW s \in queue', s.mid = h.inbox[i].mid
        PROVE  \E q \in queue : q.id = s.id /\ q.mid = s.mid
    <3>1. PICK q \in queue : q.mid = h.inbox[i].mid
      BY <2>1 DEF HistOk, OrderOk
    <3> QED
      BY <2>1, <3>1 DEF Frame, RowsStay
  <2>2. PICK q0 \in queue : q0.mid = h.inbox[j].mid
    BY <1>7 DEF HistOk, OrderOk
  <2>3. \E q \in queue' : q.mid = h.inbox[j].mid
    BY <2>2 DEF Frame, RowsStay
  <2>4. ASSUME NEW s \in queue', s.mid = h.inbox[j].mid
        PROVE  /\ \A i \in DOMAIN h.inbox : i < j /\ h.inbox[i].via = "relay" =>
                    \A p \in queue' : p.mid = h.inbox[i].mid => p.id < s.id
               /\ \A p \in queue' : p.from = k[2] /\ p.to = k[1] /\ p.id < s.id =>
                    p.mid \in Handled(k[1])'
    <3>1. PICK q \in queue : q.id = s.id /\ q.mid = s.mid
      BY <1>7, <2>1, <2>4
    <3>2. ASSUME NEW i \in DOMAIN h.inbox, i < j, h.inbox[i].via = "relay",
                 NEW p \in queue', p.mid = h.inbox[i].mid
          PROVE  p.id < s.id
      <4>1. PICK o \in queue : o.id = p.id /\ o.mid = p.mid
        BY <3>2, <2>1
      <4> QED
        BY <1>7, <2>4, <3>1, <3>2, <4>1 DEF HistOk, OrderOk
    <3>3. ASSUME NEW p \in queue', p.from = k[2], p.to = k[1], p.id < s.id
          PROVE  p.mid \in Handled(k[1])'
      <4>1. p.id \in Nat /\ s.id \in Nat /\ q.id < nextId
        BY <1>1
      <4>2. PICK o \in queue : o.id = p.id /\ o.mid = p.mid /\ o.from = p.from /\ o.to = p.to
        BY <1>1, <3>1, <3>3, <4>1 DEF Frame, RowsStay
      <4>3. o.mid \in Handled(k[1])
        BY <1>7, <2>4, <3>1, <3>3, <4>2 DEF HistOk, OrderOk
      <4> QED
        BY <4>2, <4>3
    <3> QED
      BY <3>2, <3>3
  <2> QED
    BY <2>3, <2>4
<1>8. OrderOk(k, h)'
  BY <1>7 DEF OrderOk
<1> QED
  BY <1>3, <1>4, <1>6, <1>8 DEF HistOk


(* A page that is open stays what it is, whoever moves. *)
LEMMA PageStays ==
  ASSUME IInv, QueueInv', NEW c \in Client, Frame(c),
         NEW d \in Client, job'[d].page = job[d].page, job'[d].peer = job[d].peer, PageOk(d)
  PROVE  PageOk(d)'
<1>1. /\ \A q \in queue : q.id \in Nat /\ q.id < nextId
      /\ \A s \in queue' : s.id \in Nat
      /\ nextId \in Nat /\ nextId' \in Nat
      /\ job[d] \in Job
  BY DEF IInv, TypeOK, QueueInv, QueueTypeOK, IdsAreKeys, Row
<1>2. ASSUME NEW r \in job[d].page
      PROVE  /\ r.from = job[d].peer /\ r.to = d
             /\ \E q \in queue' : q.id = r.id /\ q.from = r.from /\ q.to = d /\ q.mid = r.mid
  BY <1>2 DEF PageOk, Frame, RowsStay
<1>3. ASSUME NEW s \in queue', s.from = job[d].peer, s.to = d, ~s.acked,
             NEW r \in job[d].page, s.id <= r.id
      PROVE  \E t \in job[d].page : t.id = s.id
  <2>1. r.id \in Nat /\ r.id < nextId
    BY <1>1 DEF PageOk
  <2>2. PICK q \in queue : s.id = q.id /\ s.from = q.from /\ s.to = q.to /\ s.mid = q.mid
    BY <1>1, <1>3, <2>1 DEF Frame, RowsStay
  <2>3. ~q.acked
    <3>1. PICK t \in queue' : t.id = q.id /\ (q.acked => t.acked)
      BY DEF Frame, RowsStay
    <3>2. t = s
      BY <2>2, <3>1 DEF QueueInv, IdsAreKeys
    <3> QED
      BY <1>3, <3>1, <3>2
  <2> QED
    BY <1>3, <2>2, <2>3 DEF PageOk
<1> QED
  BY <1>2, <1>3 DEF PageOk

(* HistOk says the same of a history and of the variable that holds it. *)
LEMMA HistInMem ==
  ASSUME NEW k, NEW h, mem'[k] = h, HistOk(k, h)'
  PROVE  HistOk(k, mem[k])'
<1>1. OwnOk(k, h)' /\ CursorOk(k, h)' /\ InboxOk(k, h)' /\ OrderOk(k, h)'
  BY DEF HistOk
<1>2. OwnOk(k, mem[k])'
  BY <1>1 DEF OwnOk
<1>3. CursorOk(k, mem[k])'
  BY <1>1 DEF CursorOk
<1>4. InboxOk(k, mem[k])'
  BY <1>1 DEF InboxOk
<1>5. OrderOk(k, mem[k])'
  BY <1>1 DEF OrderOk
<1> QED
  BY <1>2, <1>3, <1>4, <1>5 DEF HistOk

LEMMA HistOnDisk ==
  ASSUME NEW k, NEW h, disk'[k] = h, HistOk(k, h)'
  PROVE  HistOk(k, disk[k])'
<1>1. OwnOk(k, h)' /\ CursorOk(k, h)' /\ InboxOk(k, h)' /\ OrderOk(k, h)'
  BY DEF HistOk
<1>2. OwnOk(k, disk[k])'
  BY <1>1 DEF OwnOk
<1>3. CursorOk(k, disk[k])'
  BY <1>1 DEF CursorOk
<1>4. InboxOk(k, disk[k])'
  BY <1>1 DEF InboxOk
<1>5. OrderOk(k, disk[k])'
  BY <1>1 DEF OrderOk
<1> QED
  BY <1>2, <1>3, <1>4, <1>5 DEF HistOk

LEMMA AheadNext ==
  ASSUME NEW k, NEW hm, NEW hd, mem'[k] = hm, disk'[k] = hd, Ahead(hd, hm)
  PROVE  Ahead(disk[k], mem[k])'
  BY DEF Ahead, Received

(* A conversation whose file becomes hd and whose memory hm. *)
LEMMA ConvBecomes ==
  ASSUME IInv, TypeOK', NEW c \in Client, Frame(c), NEW k \in Contacts,
         NEW hm \in History, NEW hd \in History, mem'[k] = hm, disk'[k] = hd,
         HistOk(k, hm)', HistOk(k, hd)', Ahead(hd, hm), Received(hd) \subseteq shown',
         k[1] \in Terminal =>
           /\ Received(disk[k]) \subseteq Received(hd)
           /\ \A m \in shown' \ shown : letter[m] = <<k[2], k[1]>> => m \in Received(hd),
         k[1] \notin Terminal => hm.inbox = hd.inbox
  PROVE  ConvOk(k)'
<1>1. HistOk(k, mem[k])' /\ HistOk(k, disk[k])'
  BY HistInMem, HistOnDisk
<1>2. ConvOk(k)
  BY ContactFacts DEF IInv, ClientOk, ConvsOk
<1>3. Ahead(disk[k], mem[k])'
  BY AheadNext
<1>4. ASSUME k[1] \in Terminal, NEW m \in shown', letter'[m] = <<k[2], k[1]>>
      PROVE  m \in Received(hd)
  <2>1. m \in MsgId
    BY DEF TypeOK
  <2>2. letter[m] # NotWritten
    BY DEF IInv, SharedOk, Frame, NewsOk
  <2> QED
    BY <1>2, <1>4, <2>1, <2>2 DEF ConvOk, Frame, OthersStay
<1> QED
  BY <1>1, <1>3, <1>4 DEF ConvOk, Received

(* A conversation that the step does not touch. *)
LEMMA ConvStays ==
  ASSUME IInv, TypeOK', QueueInv', NEW c \in Client, Frame(c), NEW k \in Contacts,
         mem'[k] = mem[k], disk'[k] = disk[k], Handled(k[1]) \subseteq Handled(k[1])',
         \A m \in shown' \ shown : letter[m] # <<k[2], k[1]>>
  PROVE  ConvOk(k)'
<1>1. ConvOk(k)
  BY ContactFacts DEF IInv, ClientOk, ConvsOk
<1>2. PICK hm \in History : hm = mem[k]
  BY DEF IInv, TypeOK
<1>3. PICK hd \in History : hd = disk[k]
  BY DEF IInv, TypeOK
<1>4. HistOk(k, hm) /\ HistOk(k, hd)
  BY <1>1, <1>2, <1>3 DEF ConvOk
<1>5. HistOk(k, hm)' /\ HistOk(k, hd)'
  BY <1>4, HistStays
<1>6. /\ Ahead(hd, hm) /\ Received(hd) \subseteq shown'
      /\ k[1] \notin Terminal => hm.inbox = hd.inbox
      /\ mem'[k] = hm /\ disk'[k] = hd /\ Received(disk[k]) = Received(hd)
  BY <1>1, <1>2, <1>3 DEF ConvOk, Frame, NewsOk
<1> QED
  BY <1>5, <1>6, ConvBecomes

(* What is in memory only. *)
LEMMA UnsavedNow ==
  ASSUME NEW c, NEW m \in Unsaved(c)
  PROVE  m \notin shown /\ \E k \in Contacts : k[1] = c /\ m \in Received(mem[k])
<1>1. PICK S \in {Received(mem[k]) : k \in {x \in Contacts : x[1] = c}} : m \in S
  BY DEF Unsaved
<1>2. PICK k \in {x \in Contacts : x[1] = c} : S = Received(mem[k])
  BY <1>1
<1>3. m \notin shown
  BY DEF Unsaved
<1> QED
  BY <1>1, <1>2, <1>3

LEMMA UnsavedIs ==
  ASSUME NEW c, NEW k \in Contacts, k[1] = c, NEW m \in Received(mem[k])
  PROVE  m \in shown \/ m \in Unsaved(c)
<1>1. m \in UNION {Received(mem[x]) : x \in {y \in Contacts : y[1] = c}}
  OBVIOUS
<1> QED
  BY <1>1 DEF Unsaved

LEMMA UnsavedNext ==
  ASSUME NEW c, NEW k \in Contacts, k[1] = c, NEW h, mem'[k] = h, NEW m \in Received(h)
  PROVE  m \in Unsaved(c)' \cup shown'
<1> DEFINE R(g) == {g.inbox[i].mid : i \in DOMAIN g.inbox}
<1>1. m \in R(mem'[k]) /\ k \in {x \in Contacts : x[1] = c}
  BY DEF Received
<1> HIDE DEF R
<1>2. m \in UNION {R(mem'[x]) : x \in {y \in Contacts : y[1] = c}}
  BY <1>1
<1> QED
  BY <1>2 DEF Unsaved, Received, R

LEMMA UnsavedWas ==
  ASSUME NEW c, NEW m \in Unsaved(c)'
  PROVE  m \notin shown' /\ \E k \in Contacts : k[1] = c /\ m \in Received(mem'[k])
<1> DEFINE R(g) == {g.inbox[i].mid : i \in DOMAIN g.inbox}
<1> HIDE DEF R
<1>1. m \in (UNION {R(mem'[k]) : k \in {x \in Contacts : x[1] = c}}) \ shown'
  BY DEF Unsaved, Received, R
<1>2. PICK k \in {x \in Contacts : x[1] = c} : m \in R(mem'[k])
  BY <1>1
<1>3. m \in Received(mem'[k])
  BY <1>2 DEF Received, R
<1> QED
  BY <1>1, <1>2, <1>3

(* What is in memory only is as before. *)
LEMMA UnsavedStays ==
  ASSUME NEW c \in Client, shown' = shown,
         \A k \in Contacts : k[1] = c =>
           \A m : m \notin shown => (m \in Received(mem'[k]) <=> m \in Received(mem[k]))
  PROVE  Unsaved(c)' = Unsaved(c)
<1>1. ASSUME NEW m \in Unsaved(c) PROVE m \in Unsaved(c)'
  <2>1. PICK k \in Contacts : m \notin shown /\ k[1] = c /\ m \in Received(mem[k])
    BY UnsavedNow
  <2>2. PICK h : h = mem'[k]
    OBVIOUS
  <2> QED
    BY <2>1, <2>2, UnsavedNext
<1>2. ASSUME NEW m \in Unsaved(c)' PROVE m \in Unsaved(c)
  <2>1. PICK k \in Contacts : m \notin shown' /\ k[1] = c /\ m \in Received(mem'[k])
    BY UnsavedWas
  <2>2. m \in Received(mem[k]) /\ m \notin shown
    BY <2>1
  <2> QED
    BY <2>1, <2>2, UnsavedIs
<1> QED
  BY <1>1, <1>2

LEMMA OwedStays ==
  ASSUME NEW c \in Client, shown' = shown, cut' = cut, InHand(c)' = InHand(c),
         \A k \in Contacts : k[1] = c =>
           \A m : m \notin shown => (m \in Received(mem'[k]) <=> m \in Received(mem[k]))
  PROVE  Owed(c)' = Owed(c) /\ ReaderOk(c)
<1>1. Unsaved(c)' = Unsaved(c)
  BY UnsavedStays
<1>2. Owed(c)' = Owed(c)
  BY <1>1 DEF Owed
<1>3. {} \in SUBSET Owed(c) /\ Owed(c) = Owed(c) \ {} /\ shown = shown \cup {}
  OBVIOUS
<1> QED
  BY <1>2, <1>3 DEF ReaderOk

LEMMA FilesStay ==
  ASSUME IInv, disk' = disk
  PROVE  SavesOk
<1>1. \A x \in Contacts : disk[x] \in History
  BY DEF IInv, TypeOK
<1>2. \A x \in Contacts : Ahead(disk[x], disk[x])
  BY <1>1, RankType, HistoryFields DEF Ahead
<1> QED
  BY <1>2 DEF SavesOk

(* The other clients are left as they are. *)
LEMMA OthersOk ==
  ASSUME IInv, TypeOK', QueueInv', NEW c \in Client, Frame(c)
  PROVE  \A d \in Client \ {c} : ClientOk(d)'
<1> SUFFICES ASSUME NEW d \in Client, d # c PROVE ClientOk(d)'
  OBVIOUS
<1>1. /\ job'[d] = job[d] /\ opened'[d] = opened[d]
      /\ \A k \in Contacts : k[1] = d => mem'[k] = mem[k] /\ disk'[k] = disk[k]
      /\ \A m \in MsgId : letter[m] # NotWritten => letter'[m] = letter[m]
  BY DEF Frame, OthersStay
<1>2. /\ TypeOK /\ SharedOk /\ JobOk(d) /\ OpenedOk(d) /\ job[d] \in Job
      /\ opened[d] \in SUBSET MsgId
      /\ \A k \in Contacts : k[1] = d => ConvOk(k)
  BY InvFacts
<1>3. InHand(d)' = InHand(d) /\ Handled(d)' = Handled(d)
  BY <1>1 DEF InHand, Handled
<1>4. JobOk(d)'
  <2>1. PageOk(d)'
    <3>1. job'[d].page = job[d].page /\ job'[d].peer = job[d].peer /\ PageOk(d)
      BY <1>1, <1>2 DEF JobOk
    <3> QED
      BY <3>1, PageStays
  <2>2. Conv(d)' = Conv(d)
    BY <1>1 DEF Conv
  <2>3. job[d].pc # "idle" => Conv(d) \in Contacts /\ Conv(d)[1] = d /\ Hist(d)' = Hist(d)
    BY <1>1, <1>2, <2>2 DEF JobOk, Hist, Conv
  <2>4. \A m \in MsgId : letter[m] = <<job[d].peer, d>> => letter'[m] = letter[m]
    BY <1>1, <1>2, JobFields, ChatAssumption
  <2>5. \A m \in MsgId : letter[m] = Conv(d) => letter'[m] = letter[m]
    BY <1>1, <1>2, JobFields, ChatAssumption DEF Conv
  <2>6. job[d].todo \in SUBSET MsgId /\ job[d].pc \in Step
    BY <1>2, JobFields
  <2> QED
    BY <1>1, <1>2, <2>1, <2>2, <2>3, <2>4, <2>5, <2>6 DEF JobOk, Step
<1>5. OpenedOk(d)'
  <2>1. \A m \in opened[d] : letter'[m] = letter[m]
    BY <1>1, <1>2 DEF OpenedOk
  <2>2. ASSUME NEW m \in Unsaved(d) PROVE m \in Unsaved(d)' \cup shown'
    <3>1. PICK k \in Contacts : k[1] = d /\ m \in Received(mem[k])
      BY UnsavedNow
    <3>2. mem'[k] = mem[k]
      BY <1>1, <3>1
    <3> QED
      BY <3>1, <3>2, UnsavedNext
  <2>3. shown \subseteq shown' /\ cut \subseteq cut'
    BY DEF Frame, NewsOk
  <2> QED
    BY <1>1, <1>2, <1>3, <2>1, <2>2, <2>3 DEF OpenedOk
<1>6. ASSUME NEW k \in Contacts, k[1] = d PROVE ConvOk(k)'
  <2>1. \A m \in shown' \ shown : letter[m] # <<k[2], k[1]>>
    BY <1>6 DEF Frame, NewsOk
  <2>2. mem'[k] = mem[k] /\ disk'[k] = disk[k] /\ Handled(k[1]) \subseteq Handled(k[1])'
    BY <1>1, <1>3, <1>6
  <2> QED
    BY <2>1, <2>2, ConvStays
<1> QED
  BY <1>4, <1>5, <1>6 DEF ClientOk, ConvsOk
-----------------------------------------------------------------------------
(* What the statements of the relay do to the rows. *)
LEMMA RowsSame ==
  ASSUME IInv, NEW c \in Client, UNCHANGED queueVars
  PROVE  QueueInv' /\ RowsStay(c)
<1>1. queue' = queue /\ nextId' = nextId /\ QueueInv /\ nextId \in Nat
  BY DEF queueVars, IInv, QueueInv, QueueTypeOK
<1>2. QueueInv'
  BY <1>1 DEF QueueInv, QueueTypeOK, OneRowPerSubmission, IdsAreKeys
<1> QED
  BY <1>1, <1>2 DEF RowsStay

LEMMA RowsSubmitted ==
  ASSUME IInv, NEW c \in Client, NEW p \in Client, NEW m \in MsgId,
         letter[m] = <<c, p>>, letter' = letter, Submit(c, p, m, NoExpiry)
  PROVE  QueueInv' /\ RowsStay(c) /\ Stored(c, p, m)'
<1>1. QueueInv /\ NoExpiry \in ExpiresAt
  BY DEF IInv, ExpiresAt
<1>2. /\ QueueInv' /\ queue \subseteq queue' /\ nextId <= nextId' /\ Stored(c, p, m)'
      /\ \A q \in queue' \ queue : q = NewRow(c, p, m, NoExpiry)
  BY <1>1, SubmitInv
<1>3. ASSUME NEW s \in queue', s \notin queue
      PROVE  /\ s.id >= nextId /\ ~s.acked
             /\ letter'[s.mid] = <<s.from, s.to>>
             /\ \A q \in queue : q.mid # s.mid
  <2>1. s = NewRow(c, p, m, NoExpiry)
    BY <1>2, <1>3
  <2>2. s.id = nextId /\ s.from = c /\ s.to = p /\ s.mid = m /\ ~s.acked
    BY <2>1 DEF NewRow
  <2>3. ~Stored(c, p, m)
    BY <1>3 DEF Submit, queueVars
  <2>4. ASSUME NEW q \in queue, q.mid = m PROVE FALSE
    <3>1. <<q.from, q.to>> = <<c, p>>
      BY <2>4 DEF IInv, SharedOk
    <3> QED
      BY <2>3, <2>4, <3>1 DEF Stored
  <2>5. nextId \in Nat
    BY DEF IInv, QueueInv, QueueTypeOK
  <2> QED
    BY <2>2, <2>4, <2>5
<1> QED
  BY <1>2, <1>3 DEF RowsStay

LEMMA RowsAcked ==
  ASSUME IInv, NEW c \in Client, NEW i \in Nat, MarkAcked(c, i), nextId' = nextId,
         \A q \in queue : q.id = i /\ q.to = c => q.mid \in Handled(c)'
  PROVE  QueueInv' /\ RowsStay(c)
<1> DEFINE f(q) == IF q.id = i /\ q.to = c THEN [q EXCEPT !.acked = TRUE] ELSE q
<1>1. QueueInv /\ nextId \in Nat /\ \A q \in queue : q \in Row
  BY DEF IInv, QueueInv, QueueTypeOK
<1>2. /\ QueueInv'
      /\ \A s \in queue' : \E q \in queue : s = f(q)
      /\ \A q \in queue : f(q) \in queue'
  BY <1>1, MarkAckedInv
<1>3. \A q \in queue : /\ f(q).id = q.id /\ f(q).from = q.from /\ f(q).to = q.to /\ f(q).mid = q.mid
                       /\ q.acked => f(q).acked
                       /\ f(q).acked = q.acked \/ (q.to = c /\ q.id = i)
  BY <1>1 DEF Row
<1> HIDE DEF f
<1>4. ASSUME NEW q \in queue
      PROVE  \E s \in queue' : /\ s.id = q.id /\ s.from = q.from /\ s.to = q.to /\ s.mid = q.mid
                               /\ q.acked => s.acked
  BY <1>2, <1>3
<1>5. ASSUME NEW s \in queue'
      PROVE  \E q \in queue :
               /\ s.id = q.id /\ s.from = q.from /\ s.to = q.to /\ s.mid = q.mid
               /\ s.acked = q.acked \/ (q.to = c /\ q.mid \in Handled(c)')
  BY <1>2, <1>3
<1> QED
  BY <1>1, <1>2, <1>4, <1>5 DEF RowsStay

-----------------------------------------------------------------------------
(* The facts about what is shown, lost and at the relay. *)
LEMMA SharedStays ==
  ASSUME IInv, TypeOK', NEW c \in Client, Frame(c)
  PROVE  SharedOk'
<1>1. /\ SharedOk
      /\ \A m \in MsgId : letter[m] # NotWritten => letter'[m] = letter[m]
      /\ shown \in SUBSET MsgId /\ cut \in SUBSET MsgId
      /\ shown' \in SUBSET MsgId /\ cut' \in SUBSET MsgId
      /\ \A q \in queue : q.mid \in MsgId /\ q.from \in Client /\ q.to \in Client
  BY DEF IInv, Frame, OthersStay, TypeOK, QueueTypeOK, Row
<1>2. \A d \in Client : Handled(d) \subseteq Handled(d)'
  BY DEF Frame, OthersStay, NewsOk, Handled, InHand
<1>3. ASSUME NEW m \in shown' \cup cut'
      PROVE  letter'[m] # NotWritten /\ \A d \in Client : letter'[m][2] = d => m \in Handled(d)'
  <2>1. CASE m \in shown \cup cut
    BY <2>1, <1>1, <1>2 DEF SharedOk
  <2>2. CASE m \notin shown \cup cut
    <3>1. letter[m] # NotWritten /\ letter[m][2] = c /\ m \in Handled(c)'
      BY <1>3, <2>2 DEF Frame, NewsOk
    <3> QED
      BY <3>1, <1>1
  <2> QED
    BY <2>1, <2>2
<1>4. ASSUME NEW s \in queue'
      PROVE  /\ letter'[s.mid] = <<s.from, s.to>>
             /\ \A d \in Client : s.acked /\ s.to = d => s.mid \in Handled(d)'
  <2>1. CASE \E q \in queue :
               /\ s.id = q.id /\ s.from = q.from /\ s.to = q.to /\ s.mid = q.mid
               /\ s.acked = q.acked \/ (q.to = c /\ q.mid \in Handled(c)')
    <3>1. PICK q \in queue :
               /\ s.id = q.id /\ s.from = q.from /\ s.to = q.to /\ s.mid = q.mid
               /\ s.acked = q.acked \/ (q.to = c /\ q.mid \in Handled(c)')
      BY <2>1
    <3>2. letter[q.mid] = <<q.from, q.to>>
      BY <1>1 DEF SharedOk
    <3>3. letter'[q.mid] = letter[q.mid]
      BY <1>1, <3>2, ChatAssumption
    <3>4. ASSUME NEW d \in Client, s.acked, s.to = d PROVE s.mid \in Handled(d)'
      BY <3>1, <3>4, <1>1, <1>2 DEF SharedOk
    <3> QED
      BY <3>1, <3>2, <3>3, <3>4
  <2>2. CASE ~s.acked /\ letter'[s.mid] = <<s.from, s.to>>
    BY <2>2
  <2> QED
    BY <2>1, <2>2 DEF Frame, RowsStay
<1> QED
  BY <1>3, <1>4 DEF SharedOk

(* A step of c is right when it leaves c right. *)
LEMMA Assemble ==
  ASSUME IInv, TypeOK', QueueInv', NEW c \in Client, Frame(c),
         JobOk(c)', OpenedOk(c)', ConvsOk(c)'
  PROVE  IInv'
<1>1. \A d \in Client : ClientOk(d)'
  BY OthersOk DEF ClientOk
<1> QED
  BY <1>1, SharedStays DEF IInv

(* A client that is idle. *)
LEMMA IdleOk ==
  ASSUME NEW c \in Client, job'[c] = Idle(c)
  PROVE  JobOk(c)' /\ InHand(c)' = {}
<1>1. job'[c].pc = "idle" /\ job'[c].todo = {} /\ job'[c].page = {}
  BY DEF Idle, NewJob
<1>2. PageOk(c)'
  BY <1>1 DEF PageOk
<1>3. InHand(c)' = {}
  BY <1>1 DEF InHand
<1> QED
  BY <1>1, <1>2, <1>3 DEF JobOk

LEMMA IdleType ==
  ASSUME NEW c \in Client
  PROVE  Idle(c) \in Job /\ Idle(c).pc = "idle"
  BY DEF Idle, NewJob, Job, Step

(* What c has handled stays somewhere. *)
LEMMA OpenedStays ==
  ASSUME IInv, TypeOK', NEW c \in Client, Frame(c),
         \A m \in opened'[c] : letter[m] # NotWritten /\ letter[m][2] = c,
         \A m \in Handled(c)' : m \in Handled(c) \/ m \in shown' \cup cut' \cup Unsaved(c)',
         \A k \in Contacts : k[1] = c =>
           \A m \in Received(mem[k]) : m \in shown' \cup cut' \cup Unsaved(c)'
  PROVE  OpenedOk(c)'
<1>1. \A m \in opened'[c] : letter'[m] # NotWritten /\ letter'[m][2] = c
  BY DEF TypeOK, Frame, OthersStay
<1>2. ASSUME NEW m \in Handled(c)' PROVE m \in shown' \cup cut' \cup Unsaved(c)'
  <2>1. CASE m \in Handled(c)
    <3>1. m \in shown \cup cut \cup Unsaved(c)
      BY <2>1 DEF IInv, ClientOk, OpenedOk
    <3>2. shown \subseteq shown' /\ cut \subseteq cut'
      BY DEF Frame, NewsOk
    <3>3. CASE m \in Unsaved(c)
      BY <3>3, UnsavedNow
    <3> QED
      BY <3>1, <3>2, <3>3
  <2> QED
    BY <2>1, <1>2
<1> QED
  BY <1>1, <1>2 DEF OpenedOk

(* A step of c that changes one conversation. *)
LEMMA OneConv ==
  ASSUME IInv, TypeOK', QueueInv', NEW c \in Client, Frame(c),
         NEW k0 \in Contacts, k0[1] = c, NEW hm \in History, NEW hd \in History,
         mem' = [mem EXCEPT ![k0] = hm], disk' = [disk EXCEPT ![k0] = hd],
         HistOk(k0, hm)', HistOk(k0, hd)', Ahead(hd, hm), shown' = shown \cup Received(hd),
         c \in Terminal => Received(disk[k0]) \subseteq Received(hd),
         c \notin Terminal => hm.inbox = hd.inbox,
         \A m \in Received(mem[k0]) : m \in Received(hm) \cup shown' \cup cut',
         opened'[c] = opened[c],
         \A m \in Handled(c)' : m \in Handled(c) \cup Received(hm) \cup shown' \cup cut'
  PROVE  ConvsOk(c)' /\ OpenedOk(c)'
<1>1. /\ mem'[k0] = hm /\ disk'[k0] = hd
      /\ \A k \in Contacts : k # k0 => mem'[k] = mem[k] /\ disk'[k] = disk[k]
      /\ mem \in [Contacts -> History]
  BY DEF IInv, TypeOK
<1>2. ConvOk(k0)'
  BY <1>1, ConvBecomes
<1>3. ASSUME NEW k \in Contacts, k[1] = c, k # k0 PROVE ConvOk(k)'
  <2>1. ASSUME NEW m \in shown' \ shown PROVE letter[m] # <<k[2], k[1]>>
    <3>1. letter'[m] = <<k0[2], k0[1]>>
      BY <2>1 DEF HistOk, InboxOk
    <3>2. letter'[m] = letter[m]
      BY <2>1 DEF Frame, NewsOk, OthersStay, TypeOK
    <3>3. k[2] # k0[2]
      BY <1>3, ContactFacts
    <3> QED
      BY <3>1, <3>2, <3>3
  <2>2. Handled(k[1]) \subseteq Handled(k[1])'
    BY <1>3 DEF Frame, NewsOk
  <2> QED
    BY <1>1, <1>3, <2>1, <2>2, ConvStays
<1>4. ConvsOk(c)'
  BY <1>2, <1>3 DEF ConvsOk
<1>5. \A m \in Received(hm) : m \in Unsaved(c)' \cup shown'
  BY <1>1, UnsavedNext
<1>6. ASSUME NEW k \in Contacts, k[1] = c, NEW m \in Received(mem[k])
      PROVE  m \in shown' \cup cut' \cup Unsaved(c)'
  <2>1. CASE k = k0
    BY <2>1, <1>5, <1>6
  <2>2. CASE k # k0
    BY <2>2, <1>1, <1>6, UnsavedNext
  <2> QED
    BY <2>1, <2>2
<1>7. \A m \in Handled(c)' : m \in Handled(c) \/ m \in shown' \cup cut' \cup Unsaved(c)'
  BY <1>5
<1>8. \A m \in opened'[c] : letter[m] # NotWritten /\ letter[m][2] = c
  BY DEF IInv, ClientOk, OpenedOk
<1>9. OpenedOk(c)'
  BY <1>6, <1>7, <1>8, OpenedStays
<1> QED
  BY <1>4, <1>9

-----------------------------------------------------------------------------
(* Steps that change no history. *)
LEMMA StandsOk ==
  ASSUME IInv, TypeOK', QueueInv', NEW c \in Client, RowsStay(c),
         UNCHANGED <<disk, mem, letter, shown, cut>>,
         \A d \in Client \ {c} : job'[d] = job[d] /\ opened'[d] = opened[d],
         Handled(c)' = Handled(c),
         \A m \in opened'[c] : letter[m] # NotWritten /\ letter[m][2] = c,
         JobOk(c)'
  PROVE  IInv'
<1>1. Frame(c)
  BY DEF Frame, OthersStay, NewsOk
<1>2. ASSUME NEW k \in Contacts, k[1] = c PROVE ConvOk(k)'
  BY <1>1, <1>2, ConvStays
<1>3. ConvsOk(c)'
  BY <1>2 DEF ConvsOk
<1>4. ASSUME NEW k \in Contacts, k[1] = c, NEW m \in Received(mem[k])
      PROVE  m \in shown' \cup cut' \cup Unsaved(c)'
  BY <1>4, UnsavedNext
<1>5. OpenedOk(c)'
  BY <1>1, <1>4, OpenedStays
<1> QED
  BY <1>1, <1>3, <1>5, Assemble

(* The program of c ends with the messages X in hand. *)
LEMMA QuitOk ==
  ASSUME IInv, QueueInv', NEW c \in Client, RowsStay(c), NEW X,
         Quit(c, X), UNCHANGED <<opened, letter, told>>, crashes' \in Nat,
         \A m \in X : m \in opened[c] /\ letter[m] # NotWritten /\ letter[m][2] = c,
         InHand(c) \subseteq X \cup shown, X \subseteq Owed(c)
  PROVE  IInv' /\ StepOk(c)
<1>1. /\ TypeOK /\ SharedOk /\ JobOk(c) /\ OpenedOk(c)
      /\ opened[c] \in SUBSET MsgId
      /\ \A k \in Contacts : k[1] = c => ConvOk(k)
  BY InvFacts
<1>2. /\ job' = [job EXCEPT ![c] = Idle(c)]
      /\ mem' = [k \in Contacts |-> IF k[1] = c THEN disk[k] ELSE mem[k]]
      /\ cut' = cut \cup X \cup Unsaved(c) /\ disk' = disk /\ shown' = shown
  BY DEF Quit, Goto
<1>3. /\ job'[c] = Idle(c) /\ JobOk(c)' /\ InHand(c)' = {} /\ Handled(c)' = opened[c]
      /\ \A d \in Client \ {c} : job'[d] = job[d]
  BY <1>1, <1>2, IdleOk DEF TypeOK, Handled
<1>4. ASSUME NEW m \in Unsaved(c)
      PROVE  m \in Handled(c) /\ letter[m] # NotWritten /\ letter[m][2] = c
  <2>1. PICK k \in Contacts : k[1] = c /\ m \in Received(mem[k])
    BY UnsavedNow
  <2> QED
    BY <2>1, <1>1, ChatAssumption, ContactFacts DEF ConvOk, HistOk, InboxOk
<1>5. TypeOK'
  <2>1. X \subseteq MsgId /\ Unsaved(c) \subseteq MsgId
    BY <1>1, <1>4 DEF Handled
  <2>2. job' \in [Client -> Job]
    BY <1>1, <1>2, IdleType DEF TypeOK
  <2>3. mem' \in [Contacts -> History]
    BY <1>1, <1>2 DEF TypeOK
  <2>4. cut' \in SUBSET MsgId
    BY <1>1, <1>2, <2>1 DEF TypeOK
  <2> QED
    BY <1>1, <1>2, <2>2, <2>3, <2>4 DEF TypeOK, QueueInv
<1>6. Frame(c)
  <2>1. OthersStay(c)
    BY <1>2, <1>3 DEF OthersStay
  <2>2. NewsOk(c)
    BY <1>2, <1>3, <1>4 DEF NewsOk, Handled
  <2> QED
    BY <2>1, <2>2 DEF Frame
<1>7. ASSUME NEW k \in Contacts, k[1] = c PROVE ConvOk(k)'
  <2>1. PICK hd \in History : hd = disk[k]
    BY <1>1 DEF TypeOK
  <2>2. HistOk(k, hd)
    BY <1>1, <1>7, <2>1 DEF ConvOk
  <2>3. HistOk(k, hd)'
    BY <1>6, <1>7, <2>2, HistStays DEF Frame, NewsOk
  <2>4. Ahead(hd, hd)
    BY <2>1, RankType, HistoryFields DEF Ahead
  <2>5. mem'[k] = hd /\ disk'[k] = hd /\ Received(disk[k]) = Received(hd)
    BY <1>2, <1>7, <2>1
  <2>6. Received(hd) \subseteq shown'
    BY <1>1, <1>2, <1>7, <2>1 DEF ConvOk
  <2> QED
    BY <1>2, <1>5, <1>6, <2>3, <2>4, <2>5, <2>6, ConvBecomes
<1>8. OpenedOk(c)'
  <2>1. \A m \in opened'[c] : letter[m] # NotWritten /\ letter[m][2] = c
    BY <1>1 DEF OpenedOk
  <2>2. \A m \in Handled(c)' : m \in Handled(c) \/ m \in shown' \cup cut' \cup Unsaved(c)'
    BY <1>2, <1>3 DEF Handled
  <2>3. ASSUME NEW k \in Contacts, k[1] = c, NEW m \in Received(mem[k])
        PROVE  m \in shown' \cup cut' \cup Unsaved(c)'
    <3>1. m \in Handled(c)
      BY <1>1, <2>3 DEF ConvOk, HistOk, InboxOk
    <3>2. m \in shown \/ m \in Unsaved(c)
      BY <2>3, UnsavedIs
    <3> QED
      BY <1>2, <3>2
  <2> QED
    BY <1>5, <1>6, <2>1, <2>2, <2>3, OpenedStays
<1>9. ReaderOk(c)
  <2>1. ASSUME NEW m \in InHand(c) PROVE m \notin shown
    <3>1. m \in opened[c] /\ letter[m][2] = c
      BY <1>1, InHandType DEF OpenedOk
    <3> QED
      BY <1>1, <3>1 DEF SharedOk, Handled
  <2>2. cut' = cut \cup Owed(c)
    BY <1>2, <2>1 DEF Owed
  <2>3. ASSUME NEW m \in Unsaved(c)' PROVE FALSE
    <3>1. PICK k \in Contacts : m \notin shown' /\ k[1] = c /\ m \in Received(mem'[k])
      BY UnsavedWas
    <3>2. m \in Received(disk[k])
      BY <1>2, <3>1
    <3> QED
      BY <1>1, <1>2, <3>1, <3>2 DEF ConvOk
  <2>4. Owed(c)' = {}
    BY <1>3, <2>3 DEF Owed
  <2>5. Owed(c) \in SUBSET Owed(c) /\ Owed(c)' = Owed(c) \ Owed(c)
    BY <2>4
  <2> QED
    BY <1>2, <2>2, <2>5 DEF ReaderOk
<1> QED
  BY <1>2, <1>3, <1>5, <1>6, <1>7, <1>8, <1>9, FilesStay, Assemble DEF ConvsOk, StepOk

(* The histories of a client: what was received was handled. *)
LEMMA ReceivedFacts ==
  ASSUME IInv, NEW c \in Client, NEW k \in Contacts, k[1] = c
  PROVE  /\ mem[k] \in History /\ disk[k] \in History
         /\ HistOk(k, mem[k]) /\ HistOk(k, disk[k]) /\ Ahead(disk[k], mem[k])
         /\ \A m \in Received(mem[k]) \cup Received(disk[k]) :
              m \in Handled(c) /\ letter[m] = <<k[2], c>> /\ letter[m] # NotWritten /\ letter[m][2] = c
         /\ Received(disk[k]) \subseteq shown /\ Received(disk[k]) \subseteq Received(mem[k])
         /\ c \notin Terminal => mem[k].inbox = disk[k].inbox /\ Received(mem[k]) = Received(disk[k])
<1>1. mem[k] \in History /\ disk[k] \in History
  BY DEF IInv, TypeOK
<1>2. ConvOk(k)
  BY DEF IInv, ClientOk, ConvsOk
<1>3. \A m \in Received(mem[k]) \cup Received(disk[k]) : m \in Handled(c) /\ letter[m] = <<k[2], c>>
  BY <1>2 DEF ConvOk, HistOk, InboxOk
<1>4. <<k[2], c>> # NotWritten /\ <<k[2], c>>[2] = c
  BY ChatAssumption, ContactFacts
<1> QED
  BY <1>1, <1>2, <1>3, <1>4 DEF ConvOk, Ahead, Received

(* The operation returns without a save, and without what it had in hand.  *)
LEMMA DropOk ==
  ASSUME IInv, QueueInv', NEW c \in Client, RowsStay(c), Conv(c) \in Contacts,
         NEW r, c \in Terminal => r = Hist(c), Return(c, r), cut' = cut \cup InHand(c),
         UNCHANGED <<opened, letter, told, crashes>>
  PROVE  IInv' /\ StepOk(c)
<1>0. PICK k \in Contacts : k = Conv(c)
  OBVIOUS
<1>1. TypeOK /\ job[c] \in Job /\ k[1] = c
  BY <1>0, InvFacts DEF Conv
<1>2. /\ job' = [job EXCEPT ![c] = Idle(c)] /\ disk' = disk /\ shown' = shown
      /\ mem' = [mem EXCEPT ![k] = IF c \in Terminal THEN mem[k] ELSE disk[k]]
  BY <1>0 DEF Return, Goto, Hist
<1>3. /\ job'[c] = Idle(c) /\ JobOk(c)' /\ InHand(c)' = {} /\ Handled(c)' = opened[c]
      /\ \A d \in Client \ {c} : job'[d] = job[d]
      /\ opened[c] = Handled(c) \cup InHand(c) /\ InHand(c) \subseteq MsgId
      /\ \A m \in InHand(c) : letter[m] # NotWritten /\ letter[m][2] = c
      /\ \A m \in InHand(c) : m \notin Handled(c)
  BY <1>1, <1>2, IdleOk, InvFacts, InHandType DEF TypeOK, Handled, OpenedOk
<1>4. /\ mem[k] \in History /\ disk[k] \in History
      /\ HistOk(k, mem[k]) /\ HistOk(k, disk[k]) /\ Ahead(disk[k], mem[k])
      /\ Received(disk[k]) \subseteq shown
      /\ c \notin Terminal => mem[k].inbox = disk[k].inbox /\ Received(mem[k]) = Received(disk[k])
  BY <1>1, ReceivedFacts
<1>5. PICK hm \in History : hm = IF c \in Terminal THEN mem[k] ELSE disk[k]
  BY <1>4
<1>6. PICK hd \in History : hd = disk[k]
  BY <1>4
<1>7. TypeOK'
  <2>1. job' \in [Client -> Job] /\ mem' \in [Contacts -> History]
    BY <1>1, <1>2, <1>4, IdleType DEF TypeOK
  <2> QED
    BY <1>1, <1>2, <1>3, <2>1 DEF TypeOK, QueueInv
<1>8. Frame(c)
  <2>1. \A x \in Contacts : x[1] # c => mem'[x] = mem[x]
    BY <1>1, <1>2 DEF TypeOK
  <2>2. NewsOk(c)
    BY <1>2, <1>3 DEF NewsOk
  <2> QED
    BY <1>2, <1>3, <2>1, <2>2 DEF Frame, OthersStay
<1>9. HistOk(k, hm) /\ HistOk(k, hd) /\ Ahead(hd, hd)
  BY <1>4, <1>5, <1>6, RankType, HistoryFields DEF Ahead
<1>10. HistOk(k, hm)' /\ HistOk(k, hd)'
  <2>1. Handled(k[1]) \subseteq Handled(k[1])'
    BY <1>1, <1>3
  <2> QED
    BY <1>8, <1>9, <2>1, HistStays
<1>11. Ahead(hd, hm) /\ shown' = shown \cup Received(hd)
  BY <1>2, <1>4, <1>5, <1>6, <1>9
<1>12. /\ c \in Terminal => Received(disk[k]) \subseteq Received(hd)
       /\ c \notin Terminal => hm.inbox = hd.inbox
       /\ \A m \in Received(mem[k]) : m \in Received(hm) \cup shown' \cup cut'
       /\ \A m \in Handled(c)' : m \in Handled(c) \cup Received(hm) \cup shown' \cup cut'
       /\ opened'[c] = opened[c]
  BY <1>3, <1>4, <1>5, <1>6
<1>13. mem' = [mem EXCEPT ![k] = hm] /\ disk' = [disk EXCEPT ![k] = hd]
  BY <1>1, <1>2, <1>5, <1>6 DEF TypeOK
<1>14. ConvsOk(c)' /\ OpenedOk(c)'
  BY <1>1, <1>7, <1>8, <1>10, <1>11, <1>12, <1>13, OneConv
<1>15. ReaderOk(c)
  <2>1. \A x \in Contacts : x[1] = c => Received(mem'[x]) = Received(mem[x])
    BY <1>1, <1>2, <1>4 DEF TypeOK
  <2>2. Unsaved(c)' = Unsaved(c)
    BY <1>2, <2>1, UnsavedStays
  <2>3. ASSUME NEW m \in Unsaved(c) PROVE m \notin InHand(c)
    <3>1. PICK x \in Contacts : x[1] = c /\ m \in Received(mem[x])
      BY <2>3, UnsavedNow
    <3> QED
      BY <1>3, <3>1, ReceivedFacts
  <2>4. InHand(c) \in SUBSET Owed(c) /\ Owed(c)' = Owed(c) \ InHand(c)
    BY <1>3, <2>2, <2>3 DEF Owed
  <2> QED
    BY <1>2, <2>4 DEF ReaderOk
<1> QED
  BY <1>2, <1>3, <1>7, <1>8, <1>14, <1>15, Assemble, FilesStay DEF StepOk

LEMMA ReturnOk ==
  ASSUME IInv, QueueInv', NEW c \in Client, RowsStay(c), Conv(c) \in Contacts, InHand(c) = {},
         Return(c, Hist(c)), UNCHANGED <<opened, letter, told, cut, crashes>>
  PROVE  IInv' /\ StepOk(c)
<1>1. PICK r : r = Hist(c)
  OBVIOUS
<1>2. Return(c, r) /\ cut' = cut \cup InHand(c)
  BY <1>1
<1> QED
  BY <1>1, <1>2, DropOk

(* A history changes in memory only, and receives nothing. *)
LEMMA RememberOk ==
  ASSUME IInv, TypeOK', QueueInv', NEW c \in Client, Frame(c), NEW k \in Contacts, k[1] = c,
         NEW h \in History, Remember(k, h), UNCHANGED <<opened, cut>>,
         HistOk(k, h)', h.inbox = mem[k].inbox, Ahead(disk[k], h),
         Handled(c)' = Handled(c), InHand(c)' = InHand(c), JobOk(c)'
  PROVE  IInv' /\ StepOk(c)
<1>1. /\ mem[k] \in History /\ disk[k] \in History /\ HistOk(k, disk[k])
      /\ Received(disk[k]) \subseteq shown
      /\ c \notin Terminal => mem[k].inbox = disk[k].inbox
  BY ReceivedFacts
<1>2. PICK hd \in History : hd = disk[k]
  BY <1>1
<1>3. HistOk(k, hd)'
  BY <1>1, <1>2, HistStays
<1>4. mem' = [mem EXCEPT ![k] = h] /\ disk' = [disk EXCEPT ![k] = hd] /\ shown' = shown \cup Received(hd)
  BY <1>1, <1>2 DEF Remember, IInv, TypeOK
<1>5. Received(mem[k]) = Received(h)
  BY DEF Received
<1>6. ConvsOk(c)' /\ OpenedOk(c)'
  BY <1>1, <1>2, <1>3, <1>4, <1>5, OneConv
<1>7. ReaderOk(c)
  <2>1. shown' = shown /\ cut' = cut
    BY DEF Remember
  <2>2. \A x \in Contacts : x[1] = c => Received(mem'[x]) = Received(mem[x])
    BY <1>4, <1>5 DEF IInv, TypeOK
  <2> QED
    BY <2>1, <2>2, OwedStays
<1> QED
  BY <1>6, <1>7, Assemble, FilesStay DEF StepOk, Remember

(* The three ends of a save. *)
Tried(c, k, h, j) ==
  \/ Saved(c, k, h, j) \/ SaveFails(c, k, h)
  \/ SaveEnds(c, h) /\ UNCHANGED <<letter, told>>

LEMMA TriedFrame ==
  ASSUME IInv, NEW c \in Client, RowsStay(c), NEW k \in Contacts, k[1] = c,
         NEW h \in History, NEW j \in Job, j.pc \notin {"store", "paste"},
         Tried(c, k, h, j), UNCHANGED opened,
         \A m \in MsgId : letter[m] # NotWritten => letter'[m] = letter[m],
         \A m \in Received(h) : m \in opened[c] /\ letter[m] = <<k[2], c>>
  PROVE  /\ Frame(c) /\ Handled(c)' = opened[c] /\ InHand(c)' = {}
         /\ job'[c] = Idle(c) \/ (job'[c] = j /\ mem'[k] = h)
         /\ job' \in [Client -> Job]
         /\ mem' \in [Contacts -> History] /\ disk' \in [Contacts -> History]
         /\ shown' \in SUBSET MsgId /\ cut' \in SUBSET MsgId /\ crashes' \in Nat
<1>1. /\ TypeOK /\ JobOk(c) /\ OpenedOk(c) /\ opened[c] \in SUBSET MsgId /\ Idle(c) \in Job
  BY InvFacts, IdleType
<1>2. /\ job \in [Client -> Job] /\ mem \in [Contacts -> History] /\ disk \in [Contacts -> History]
      /\ shown \in SUBSET MsgId /\ cut \in SUBSET MsgId /\ crashes \in Nat
  BY <1>1 DEF TypeOK
<1>3. <<k[2], c>> # NotWritten /\ <<k[2], c>>[2] = c
  BY ChatAssumption, ContactFacts
<1>4. ASSUME NEW m \in Received(h)
      PROVE  m \in opened[c] /\ m \in MsgId /\ letter[m] # NotWritten /\ letter[m][2] = c
  BY <1>1, <1>3
<1>5. ASSUME NEW m \in Unsaved(c)
      PROVE  m \in opened[c] /\ m \in MsgId /\ letter[m] # NotWritten /\ letter[m][2] = c
  <2>1. PICK x \in Contacts : x[1] = c /\ m \in Received(mem[x])
    BY UnsavedNow
  <2>2. m \in Handled(c) /\ letter[m] # NotWritten /\ letter[m][2] = c
    BY <2>1, ReceivedFacts
  <2> QED
    BY <1>1, <2>2 DEF Handled
<1>6. /\ \E i \in {j, Idle(c)} : job' = [job EXCEPT ![c] = i]
      /\ \A x \in Contacts : x[1] # c => mem'[x] = mem[x] /\ disk'[x] = disk[x]
      /\ mem' \in [Contacts -> History] /\ disk' \in [Contacts -> History]
      /\ shown \subseteq shown' /\ shown' \subseteq shown \cup Received(h)
      /\ cut \subseteq cut' /\ cut' \subseteq cut \cup Received(h) \cup Unsaved(c)
      /\ crashes' \in Nat
      /\ job'[c] = Idle(c) \/ (job'[c] = j /\ mem'[k] = h)
  <2>1. CASE Saved(c, k, h, j)
    BY <2>1, <1>2 DEF Saved, Save, Goto
  <2>2. CASE SaveFails(c, k, h)
    BY <2>2, <1>2 DEF SaveFails, Mishap, Goto
  <2>3. CASE SaveEnds(c, h)
    <3>1. /\ job' = [job EXCEPT ![c] = Idle(c)]
          /\ mem' = [x \in Contacts |-> IF x[1] = c THEN disk[x] ELSE mem[x]]
          /\ cut' = cut \cup (Received(h) \ shown) \cup Unsaved(c) /\ disk' = disk /\ shown' = shown
          /\ crashes' \in Nat
      BY <2>3, <1>2 DEF SaveEnds, Mishap, Quit, Goto
    <3> QED
      BY <3>1, <1>2
  <2> QED
    BY <2>1, <2>2, <2>3 DEF Tried
<1>7. job' \in [Client -> Job] /\ \A d \in Client \ {c} : job'[d] = job[d]
  BY <1>1, <1>2, <1>6
<1>8. job'[c].pc \notin {"store", "paste"}
  BY <1>6, IdleType
<1>9. Handled(c)' = opened[c] /\ InHand(c)' = {}
  BY <1>8 DEF Handled, InHand
<1>10. shown' \in SUBSET MsgId /\ cut' \in SUBSET MsgId
  BY <1>2, <1>4, <1>5, <1>6
<1>11. OthersStay(c)
  BY <1>6, <1>7 DEF OthersStay
<1>12. NewsOk(c)
  <2>1. ASSUME NEW m \in (shown' \cup cut') \ (shown \cup cut)
        PROVE  letter[m] # NotWritten /\ letter[m][2] = c /\ m \in Handled(c)'
    BY <1>4, <1>5, <1>6, <1>9
  <2>2. ASSUME NEW m \in shown' \ shown PROVE letter[m] # NotWritten /\ letter[m][2] = c
    BY <1>4, <1>6
  <2> QED
    BY <1>6, <1>9, <2>1, <2>2 DEF NewsOk, Handled
<1> QED
  BY <1>6, <1>7, <1>9, <1>10, <1>11, <1>12 DEF Frame

(* A history that is saved. *)
LEMMA SavedOk ==
  ASSUME IInv, NEW c \in Client, NEW k \in Contacts, k[1] = c, NEW h \in History,
         disk' = disk \/ disk' = [disk EXCEPT ![k] = h],
         \A m \in Received(h) : letter[m] = <<k[2], c>>,
         Received(h) \subseteq Received(mem[k]) \cup InHand(c),
         Ahead(disk[k], h) \/ h = EmptyHistory
  PROVE  SavesOk
<1>1. \A x \in Contacts : disk[x] \in History
  BY DEF IInv, TypeOK
<1>2. \A x \in Contacts : Ahead(disk[x], disk[x])
  BY <1>1, RankType, HistoryFields DEF Ahead
<1>3. ASSUME NEW m \in Received(h), m \in shown PROVE m \in Received(disk[k])
  <2>1. CASE m \in Received(mem[k])
    <3>1. ConvOk(k)
      BY InvFacts
    <3> QED
      BY <1>3, <2>1, <3>1, ReceivedFacts DEF ConvOk
  <2>2. CASE m \in InHand(c)
    <3>1. letter[m][2] = c
      BY <1>3
    <3>2. m \in Handled(c)
      BY <1>3, <3>1 DEF IInv, SharedOk
    <3> QED
      BY <2>2, <3>2 DEF Handled
  <2> QED
    BY <2>1, <2>2
<1>4. \A x \in Contacts : disk'[x] = disk[x] \/ (x = k /\ disk'[x] = h)
  BY DEF IInv, TypeOK
<1> QED
  BY <1>2, <1>3, <1>4 DEF SavesOk

LEMMA SavedOwed ==
  ASSUME IInv, NEW c \in Client, NEW k \in Contacts, k[1] = c, NEW h,
         Received(h) \subseteq Received(mem[k]) \cup InHand(c)
  PROVE  Received(h) \ shown \subseteq Owed(c)
<1> SUFFICES ASSUME NEW m \in Received(h), m \notin shown, m \in Received(mem[k])
             PROVE  m \in Unsaved(c)
  BY DEF Owed
<1> QED
  BY UnsavedIs

(* What is opened and not stored was written to c, and is not shown yet. *)
LEMMA OwedFacts ==
  ASSUME IInv, NEW c \in Client, NEW m \in Owed(c)
  PROVE  m \notin shown /\ m \in opened[c] /\ letter[m] # NotWritten /\ letter[m][2] = c
<1>1. TypeOK /\ SharedOk /\ JobOk(c) /\ OpenedOk(c)
  BY InvFacts
<1>2. CASE m \in InHand(c)
  <2>1. m \in opened[c] /\ letter[m] # NotWritten /\ letter[m][2] = c
    BY <1>1, <1>2, InHandType DEF OpenedOk
  <2> QED
    BY <1>1, <1>2, <2>1 DEF SharedOk, Handled
<1>3. CASE m \in Unsaved(c)
  <2>1. PICK k \in Contacts : m \notin shown /\ k[1] = c /\ m \in Received(mem[k])
    BY <1>3, UnsavedNow
  <2> QED
    BY <2>1, ReceivedFacts DEF Handled
<1> QED
  BY <1>2, <1>3 DEF Owed

(* A save shows what c has opened, loses it, or leaves it as it is. *)
LEMMA TriedReader ==
  ASSUME IInv, NEW c \in Client, NEW k \in Contacts, k[1] = c,
         NEW h \in History, NEW j \in Job, Tried(c, k, h, j), InHand(c)' = {},
         Received(h) \subseteq Received(mem[k]) \cup InHand(c),
         \A m \in Received(mem[k]) : m \in Received(h) \cup shown,
         InHand(c) \subseteq Received(h)
  PROVE  ReaderOk(c)
<1>1. /\ mem \in [Contacts -> History] /\ disk \in [Contacts -> History]
      /\ \A x \in Contacts : x[1] = c => Received(disk[x]) \subseteq shown
      /\ \A x \in Contacts : x[1] = c /\ c \notin Terminal => Received(mem[x]) = Received(disk[x])
  BY ReceivedFacts DEF IInv, TypeOK
<1>2. PICK S : S = Received(h) \ shown
  OBVIOUS
<1>3. S \in SUBSET Owed(c) /\ \A m \in InHand(c) : m \in S
  BY <1>2, SavedOwed, OwedFacts DEF Owed
<1>4. CASE Saved(c, k, h, j)
  <2>1. mem' = [mem EXCEPT ![k] = h] /\ shown' = shown \cup S /\ cut' = cut
    BY <1>2, <1>4 DEF Saved, Save
  <2>2. ASSUME NEW m \in Unsaved(c)' PROVE m \in Owed(c) /\ m \notin S
    <3>1. PICK x \in Contacts : m \notin shown' /\ x[1] = c /\ m \in Received(mem'[x])
      BY UnsavedWas
    <3>2. mem'[x] = mem[x] /\ m \notin shown /\ m \notin S
      BY <1>1, <1>2, <2>1, <3>1
    <3> QED
      BY <3>1, <3>2, UnsavedIs DEF Owed
  <2>3. ASSUME NEW m \in Owed(c), m \notin S PROVE m \in Unsaved(c)'
    <3>1. m \in Unsaved(c)
      BY <1>3, <2>3 DEF Owed
    <3>2. PICK x \in Contacts : m \notin shown /\ x[1] = c /\ m \in Received(mem[x])
      BY <3>1, UnsavedNow
    <3>3. mem'[x] = mem[x]
      BY <1>1, <1>2, <2>1, <2>3, <3>2
    <3>4. m \in Received(mem'[x]) /\ m \notin shown'
      BY <2>1, <2>3, <3>2, <3>3
    <3>5. PICK g : g = mem'[x]
      OBVIOUS
    <3> QED
      BY <3>2, <3>4, <3>5, UnsavedNext
  <2>4. Owed(c)' = Owed(c) \ S
    BY <2>2, <2>3 DEF Owed
  <2> QED
    BY <1>3, <2>1, <2>4 DEF ReaderOk
<1>5. CASE SaveFails(c, k, h) /\ c \in Terminal
  <2>1. mem' = [mem EXCEPT ![k] = h] /\ shown' = shown /\ cut' = cut
    BY <1>5 DEF SaveFails
  <2>2. ASSUME NEW m \in Unsaved(c)' PROVE m \in Owed(c)
    <3>1. PICK x \in Contacts : m \notin shown' /\ x[1] = c /\ m \in Received(mem'[x])
      BY UnsavedWas
    <3>2. CASE x = k
      BY <1>1, <1>2, <1>3, <2>1, <3>1, <3>2
    <3>3. CASE x # k
      <4>1. m \in Received(mem[x]) /\ m \notin shown
        BY <1>1, <2>1, <3>1, <3>3
      <4> QED
        BY <3>1, <4>1, UnsavedIs DEF Owed
    <3> QED
      BY <3>2, <3>3
  <2>3. ASSUME NEW m \in Owed(c) PROVE m \in Unsaved(c)'
    <3>1. m \notin shown
      BY OwedFacts
    <3>2. CASE m \in Received(h)
      <4>1. mem'[k] = h
        BY <1>1, <2>1
      <4> QED
        BY <2>1, <3>1, <3>2, <4>1, UnsavedNext
    <3>3. CASE m \notin Received(h)
      <4>1. m \in Unsaved(c)
        BY <3>3 DEF Owed
      <4>2. PICK x \in Contacts : x[1] = c /\ m \in Received(mem[x])
        BY <4>1, UnsavedNow
      <4>3. mem'[x] = mem[x]
        BY <1>1, <2>1, <3>1, <3>3, <4>2
      <4>4. PICK g : g = mem'[x]
        OBVIOUS
      <4> QED
        BY <2>1, <3>1, <4>2, <4>3, <4>4, UnsavedNext
    <3> QED
      BY <3>2, <3>3
  <2>4. Owed(c)' = Owed(c)
    BY <2>2, <2>3 DEF Owed
  <2>5. {} \in SUBSET Owed(c) /\ Owed(c) = Owed(c) \ {} /\ shown = shown \cup {}
    OBVIOUS
  <2> QED
    BY <2>1, <2>4, <2>5 DEF ReaderOk
<1>6. CASE SaveFails(c, k, h) /\ c \notin Terminal
  <2>1. mem' = [mem EXCEPT ![k] = disk[k]] /\ shown' = shown /\ cut' = cut \cup S
    BY <1>2, <1>6 DEF SaveFails
  <2>2. ASSUME NEW m \in Unsaved(c)' PROVE FALSE
    <3>1. PICK x \in Contacts : m \notin shown' /\ x[1] = c /\ m \in Received(mem'[x])
      BY UnsavedWas
    <3>2. Received(mem'[x]) \subseteq shown
      BY <1>1, <1>6, <2>1, <3>1
    <3> QED
      BY <2>1, <3>1, <3>2
  <2>3. ASSUME NEW m \in Unsaved(c) PROVE FALSE
    BY <1>1, <1>6, UnsavedNow
  <2>4. Owed(c)' = Owed(c) \ S
    BY <1>3, <2>2, <2>3 DEF Owed
  <2> QED
    BY <1>3, <2>1, <2>4 DEF ReaderOk
<1>7. CASE SaveEnds(c, h)
  <2>1. /\ mem' = [x \in Contacts |-> IF x[1] = c THEN disk[x] ELSE mem[x]] /\ shown' = shown
        /\ cut' = cut \cup S \cup Unsaved(c)
    BY <1>2, <1>7 DEF SaveEnds, Quit
  <2>2. ASSUME NEW m \in Unsaved(c)' PROVE FALSE
    <3>1. PICK x \in Contacts : m \notin shown' /\ x[1] = c /\ m \in Received(mem'[x])
      BY UnsavedWas
    <3> QED
      BY <1>1, <2>1, <3>1
  <2>3. cut' = cut \cup Owed(c)
    BY <1>3, <2>1 DEF Owed
  <2>4. Owed(c)' = Owed(c) \ Owed(c) /\ Owed(c) \in SUBSET Owed(c)
    BY <2>2 DEF Owed
  <2> QED
    BY <2>1, <2>3, <2>4 DEF ReaderOk
<1> QED
  BY <1>4, <1>5, <1>6, <1>7 DEF Tried

LEMMA TriedOk ==
  ASSUME IInv, TypeOK', QueueInv', NEW c \in Client, Frame(c), NEW k \in Contacts, k[1] = c,
         NEW h \in History, NEW j \in Job, Tried(c, k, h, j), UNCHANGED opened,
         HistOk(k, h)',
         \A m \in Received(h) : m \in opened[c] /\ letter[m] = <<k[2], c>>,
         \A m \in Received(mem[k]) : m \in Received(h) \cup shown,
         Ahead(disk[k], h) \/ (c \notin Terminal /\ h = EmptyHistory),
         Received(h) \subseteq Received(mem[k]) \cup InHand(c),
         InHand(c) \subseteq Received(h), Handled(c)' = opened[c], InHand(c)' = {}, JobOk(c)'
  PROVE  IInv' /\ StepOk(c)
<1>0. StepOk(c)
  <2>1. disk' = disk \/ disk' = [disk EXCEPT ![k] = h]
    BY DEF Tried, Saved, Save, SaveFails, SaveEnds, Quit
  <2>2. Ahead(disk[k], h) \/ h = EmptyHistory
    OBVIOUS
  <2> QED
    BY <2>1, <2>2, SavedOk, TriedReader DEF StepOk
<1>1. /\ mem[k] \in History /\ disk[k] \in History /\ HistOk(k, disk[k])
      /\ Received(disk[k]) \subseteq shown
      /\ c \notin Terminal => mem[k].inbox = disk[k].inbox /\ Received(mem[k]) = Received(disk[k])
      /\ mem \in [Contacts -> History] /\ disk \in [Contacts -> History]
  BY ReceivedFacts DEF IInv, TypeOK
<1>2. PICK hd \in History : hd = disk[k]
  BY <1>1
<1>3. HistOk(k, hd)' /\ Ahead(h, h) /\ Ahead(hd, hd)
  <2>1. HistOk(k, hd) /\ Handled(k[1]) \subseteq Handled(k[1])'
    BY <1>1, <1>2 DEF Frame, NewsOk
  <2>2. HistOk(k, hd)'
    BY <2>1, HistStays
  <2>3. Ahead(h, h) /\ Ahead(hd, hd)
    BY RankType, HistoryFields DEF Ahead
  <2> QED
    BY <2>2, <2>3
<1>4. \A m \in Handled(c)' : m \in Handled(c) \cup Received(h)
  BY DEF Handled
<1>5. CASE Saved(c, k, h, j)
  <2>1. mem' = [mem EXCEPT ![k] = h] /\ disk' = [disk EXCEPT ![k] = h] /\ shown' = shown \cup Received(h)
    BY <1>5 DEF Saved, Save
  <2>2. c \in Terminal => Received(disk[k]) \subseteq Received(h)
    BY DEF Ahead
  <2>3. ConvsOk(c)' /\ OpenedOk(c)'
    BY <1>3, <1>4, <2>1, <2>2, OneConv
  <2> QED
    BY <1>0, <2>3, Assemble
<1>6. CASE SaveFails(c, k, h) /\ c \in Terminal
  <2>1. mem' = [mem EXCEPT ![k] = h] /\ disk' = [disk EXCEPT ![k] = hd] /\ shown' = shown \cup Received(hd)
    BY <1>1, <1>2, <1>6 DEF SaveFails
  <2>2. Received(disk[k]) \subseteq Received(hd) /\ Ahead(hd, h)
    BY <1>2, <1>6
  <2>3. ConvsOk(c)' /\ OpenedOk(c)'
    BY <1>2, <1>3, <1>4, <1>6, <2>1, <2>2, OneConv DEF Frame, NewsOk
  <2> QED
    BY <1>0, <2>3, Assemble
<1>7. CASE SaveFails(c, k, h) /\ c \notin Terminal
  <2>1. /\ mem' = [mem EXCEPT ![k] = hd] /\ disk' = [disk EXCEPT ![k] = hd]
        /\ shown' = shown \cup Received(hd) /\ \A m \in Received(h) : m \in shown' \cup cut'
    BY <1>1, <1>2, <1>7 DEF SaveFails
  <2>2. /\ \A m \in Received(mem[k]) : m \in Received(hd)
        /\ \A m \in Handled(c)' : m \in Handled(c) \cup Received(hd) \cup shown' \cup cut'
    BY <1>1, <1>2, <1>4, <1>7, <2>1
  <2>3. ConvsOk(c)' /\ OpenedOk(c)'
    BY <1>2, <1>3, <1>7, <2>1, <2>2, OneConv
  <2> QED
    BY <1>0, <2>3, Assemble
<1>8. CASE SaveEnds(c, h) /\ UNCHANGED <<letter, told>>
  <2>1. PICK X : X = Received(h) \ shown
    OBVIOUS
  <2>2. <<k[2], c>> # NotWritten /\ <<k[2], c>>[2] = c
    BY ChatAssumption, ContactFacts
  <2>3. Quit(c, X) /\ letter' = letter /\ told' = told /\ crashes' \in Nat
    BY <1>8, <2>1 DEF SaveEnds, TypeOK
  <2>4. RowsStay(c)
    BY DEF Frame
  <2> QED
    <3>1. \A m \in X : m \in opened[c] /\ letter[m] # NotWritten /\ letter[m][2] = c
      BY <2>1, <2>2
    <3>2. InHand(c) \subseteq X \cup shown
      BY <2>1
    <3>4. X \subseteq Owed(c)
      BY <2>1, SavedOwed
    <3>3. IInv'
      BY <2>3, <2>4, <3>1, <3>2, <3>4, QuitOk
    <3> QED
      BY <1>0, <3>3
<1> QED
  BY <1>5, <1>6, <1>7, <1>8 DEF Tried

-----------------------------------------------------------------------------
(* What the operations do to a history. *)
LEMMA StatusSet ==
  ASSUME NEW k \in Contacts, NEW h \in History, HistOk(k, h)', NEW g \in History,
         g.inbox = h.inbox, g.cursor = h.cursor,
         \A m \in MsgId :
           \/ g.status[m] = h.status[m]
           \/ letter'[m] = k /\ (g.status[m] \in {"sent", "read"} =>
                                   \E q \in queue' : q.from = k[1] /\ q.to = k[2] /\ q.mid = m)
  PROVE  HistOk(k, g)'
<1>1. OwnOk(k, g)'
  BY DEF HistOk, OwnOk, Stored
<1>2. CursorOk(k, g)'
  BY DEF HistOk, CursorOk
<1>3. InboxOk(k, g)'
  BY DEF HistOk, InboxOk, Received
<1>4. OrderOk(k, g)'
  BY DEF HistOk, OrderOk
<1> QED
  BY <1>1, <1>2, <1>3, <1>4 DEF HistOk

LEMMA CursorSet ==
  ASSUME NEW k \in Contacts, NEW h \in History, HistOk(k, h)', NEW n \in Nat, h.cursor <= n,
         n < nextId', \A q \in queue' : q.to = k[1] /\ q.from = k[2] /\ q.id <= n => q.acked,
         NEW g, g = [h EXCEPT !.cursor = n]
  PROVE  /\ g \in History /\ HistOk(k, g)' /\ g.inbox = h.inbox
         /\ \A d \in History : Ahead(d, h) => Ahead(d, g)
<1>1. /\ g.inbox = h.inbox /\ g.cursor = n /\ g.status = h.status /\ g \in History
      /\ h.cursor \in Nat
  BY DEF History
<1>2. OwnOk(k, g)'
  BY <1>1 DEF HistOk, OwnOk
<1>3. CursorOk(k, g)'
  BY <1>1 DEF HistOk, CursorOk
<1>4. InboxOk(k, g)'
  BY <1>1 DEF HistOk, InboxOk, Received
<1>5. OrderOk(k, g)'
  BY <1>1 DEF HistOk, OrderOk
<1>6. ASSUME NEW d \in History, Ahead(d, h) PROVE Ahead(d, g)
  <2>1. d.cursor \in Nat /\ d.cursor <= g.cursor
    BY <1>1, <1>6, HistoryFields DEF Ahead
  <2> QED
    BY <1>1, <1>6, <2>1 DEF Ahead, Received
<1> QED
  BY <1>1, <1>2, <1>3, <1>4, <1>5, <1>6 DEF HistOk

(* An entry goes to the end. *)
LEMMA EntryAppended ==
  ASSUME NEW h \in History, NEW e \in Entry, NEW g, g = [h EXCEPT !.inbox = Append(@, e)]
  PROVE  /\ g \in History /\ g.status = h.status /\ g.cursor = h.cursor
         /\ Received(g) = Received(h) \cup {e.mid}
         /\ \A i \in DOMAIN g.inbox :
              \/ i \in DOMAIN h.inbox /\ g.inbox[i] = h.inbox[i]
              \/ g.inbox[i] = e /\ i \notin DOMAIN h.inbox /\ \A l \in DOMAIN h.inbox : l < i
         /\ \A d \in History : Ahead(d, h) => Ahead(d, g)
<1>1. h.inbox \in Seq(Entry) /\ DOMAIN h.inbox = 1 .. Len(h.inbox) /\ Len(h.inbox) \in Nat
  BY HistoryFields
<1>2. g.status = h.status /\ g.cursor = h.cursor /\ g.inbox = Append(h.inbox, e)
  BY DEF History
<1>3. /\ g.inbox \in Seq(Entry)
      /\ DOMAIN g.inbox = 1 .. Len(h.inbox) + 1
      /\ \A i \in 1 .. Len(h.inbox) : g.inbox[i] = h.inbox[i]
      /\ g.inbox[Len(h.inbox) + 1] = e
  BY <1>1, <1>2
<1>4. g \in History
  BY <1>3 DEF History
<1>5. ASSUME NEW i \in DOMAIN g.inbox
      PROVE  \/ i \in DOMAIN h.inbox /\ g.inbox[i] = h.inbox[i]
             \/ g.inbox[i] = e /\ i \notin DOMAIN h.inbox /\ \A l \in DOMAIN h.inbox : l < i
  BY <1>1, <1>3
<1>6. Received(g) = Received(h) \cup {e.mid}
  <2>1. Received(g) \subseteq Received(h) \cup {e.mid}
    BY <1>5 DEF Received
  <2>2. ASSUME NEW m \in Received(h) PROVE m \in Received(g)
    <3>1. PICK i \in DOMAIN h.inbox : m = h.inbox[i].mid
      BY DEF Received
    <3>2. i \in DOMAIN g.inbox /\ g.inbox[i] = h.inbox[i]
      BY <1>1, <1>3
    <3> QED
      BY <3>1, <3>2 DEF Received
  <2>3. e.mid \in Received(g)
    <3>1. Len(h.inbox) + 1 \in DOMAIN g.inbox
      BY <1>1, <1>3
    <3> QED
      BY <1>3, <3>1 DEF Received
  <2> QED
    BY <2>1, <2>2, <2>3
<1>7. \A d \in History : Ahead(d, h) => Ahead(d, g)
  BY <1>2, <1>6 DEF Ahead
<1> QED
  BY <1>2, <1>4, <1>5, <1>6, <1>7

LEMMA InboxAppended ==
  ASSUME NEW k \in Contacts, NEW h \in History, HistOk(k, h)', NEW e \in Entry,
         NEW g, g = [h EXCEPT !.inbox = Append(@, e)],
         e.mid \in Handled(k[1])', letter'[e.mid] = <<k[2], k[1]>>,
         e.via = "relay" =>
           /\ \E q \in queue' : q.mid = e.mid
           /\ \A q \in queue' : q.mid = e.mid =>
                /\ \A i \in DOMAIN h.inbox : h.inbox[i].via = "relay" =>
                     \A p \in queue' : p.mid = h.inbox[i].mid => p.id < q.id
                /\ \A p \in queue' : p.from = k[2] /\ p.to = k[1] /\ p.id < q.id =>
                     p.mid \in Handled(k[1])'
  PROVE  HistOk(k, g)'
<1>1. /\ g.status = h.status /\ g.cursor = h.cursor
      /\ Received(g) = Received(h) \cup {e.mid}
      /\ \A i \in DOMAIN g.inbox :
           \/ i \in DOMAIN h.inbox /\ g.inbox[i] = h.inbox[i]
           \/ g.inbox[i] = e /\ i \notin DOMAIN h.inbox /\ \A l \in DOMAIN h.inbox : l < i
  BY EntryAppended
<1>2. OwnOk(k, g)'
  BY <1>1 DEF HistOk, OwnOk
<1>3. CursorOk(k, g)'
  BY <1>1 DEF HistOk, CursorOk
<1>4. InboxOk(k, g)'
  <2>1. \A m \in Received(g) : m \in Handled(k[1])' /\ letter'[m] = <<k[2], k[1]>>
    BY <1>1 DEF HistOk, InboxOk
  <2> QED
    BY <2>1 DEF InboxOk
<1>5. ASSUME NEW j \in DOMAIN g.inbox, g.inbox[j].via = "relay"
      PROVE  /\ \E q \in queue' : q.mid = g.inbox[j].mid
             /\ \A q \in queue' : q.mid = g.inbox[j].mid =>
                  /\ \A i \in DOMAIN g.inbox : i < j /\ g.inbox[i].via = "relay" =>
                       \A p \in queue' : p.mid = g.inbox[i].mid => p.id < q.id
                  /\ \A p \in queue' : p.from = k[2] /\ p.to = k[1] /\ p.id < q.id =>
                       p.mid \in Handled(k[1])'
  <2>0. DOMAIN g.inbox \subseteq Nat
    BY EntryAppended, HistoryFields
  <2>1. CASE j \in DOMAIN h.inbox /\ g.inbox[j] = h.inbox[j]
    <3>1. \A i \in DOMAIN g.inbox : i < j => i \in DOMAIN h.inbox /\ g.inbox[i] = h.inbox[i]
      BY <1>1, <2>0, <2>1
    <3> QED
      BY <1>5, <2>1, <3>1 DEF HistOk, OrderOk
  <2>2. CASE g.inbox[j] = e /\ \A l \in DOMAIN h.inbox : l < j
    <3>1. \A i \in DOMAIN g.inbox : i < j => i \in DOMAIN h.inbox /\ g.inbox[i] = h.inbox[i]
      <4>1. DOMAIN g.inbox = 1 .. Len(h.inbox) + 1 /\ DOMAIN h.inbox = 1 .. Len(h.inbox)
        BY HistoryFields DEF History
      <4> QED
        BY <1>1, <2>2, <4>1
    <3> QED
      BY <1>5, <2>2, <3>1
  <2> QED
    BY <1>1, <2>1, <2>2
<1>6. OrderOk(k, g)'
  BY <1>5 DEF OrderOk
<1> QED
  BY <1>2, <1>3, <1>4, <1>6 DEF HistOk

-----------------------------------------------------------------------------
(* The operation of a client and its conversation. *)
LEMMA Running ==
  ASSUME IInv, NEW c \in Client, job[c].pc # "idle"
  PROVE  /\ Conv(c) \in Contacts /\ Conv(c)[1] = c /\ Conv(c)[2] = job[c].peer
         /\ Conv(c) = <<c, job[c].peer>> /\ Hist(c) = mem[Conv(c)]
         /\ job[c].peer \in Client /\ job[c] \in Job /\ job[c].todo \in SUBSET MsgId
  BY InvFacts, JobFields DEF JobOk, Conv, Hist

LEMMA LoadedFacts ==
  ASSUME IInv, NEW c \in Client, NEW k \in Contacts, k[1] = c, NEW h, h \in {Loaded(k), mem[k]}
  PROVE  /\ h \in History /\ HistOk(k, h) /\ h.inbox = mem[k].inbox /\ Received(h) = Received(mem[k])
         /\ Ahead(disk[k], h)
         /\ \A m \in Received(h) : m \in Handled(c) /\ m \in opened[c] /\ letter[m] = <<k[2], c>>
<1>1. /\ mem[k] \in History /\ disk[k] \in History
      /\ HistOk(k, mem[k]) /\ HistOk(k, disk[k]) /\ Ahead(disk[k], mem[k])
      /\ \A m \in Received(mem[k]) \cup Received(disk[k]) : m \in Handled(c) /\ letter[m] = <<k[2], c>>
      /\ c \notin Terminal => mem[k].inbox = disk[k].inbox /\ Received(mem[k]) = Received(disk[k])
  BY ReceivedFacts
<1>2. h = mem[k] \/ (c \notin Terminal /\ h = disk[k])
  BY DEF Loaded
<1>3. Ahead(disk[k], disk[k])
  BY <1>1, RankType, HistoryFields DEF Ahead
<1> QED
  BY <1>1, <1>2, <1>3 DEF Handled

(* A changed status is saved, and the operation goes on as j. *)
LEMMA StatusFields ==
  ASSUME NEW h \in History, NEW m \in MsgId, NEW s \in Status, NEW g, g = [h EXCEPT !.status[m] = s]
  PROVE  /\ g \in History /\ g.inbox = h.inbox /\ g.cursor = h.cursor /\ Received(g) = Received(h)
         /\ g.status[m] = s /\ \A n \in MsgId : n # m => g.status[n] = h.status[n]
  BY DEF History, Received

LEMMA StatusTried ==
  ASSUME IInv, QueueInv', NEW c \in Client, RowsStay(c), NEW k \in Contacts, k[1] = c,
         NEW h, h \in {Loaded(k), mem[k]},
         NEW m \in MsgId, NEW s \in Status \ {"none"}, letter'[m] = k,
         s \in {"sent", "read"} => Stored(k[1], k[2], m)', Rank(h.status[m]) <= Rank(s),
         NEW g \in History, g.inbox = h.inbox, g.cursor = h.cursor, Received(g) = Received(h),
         g.status[m] = s, \A n \in MsgId : n # m => g.status[n] = h.status[n],
         NEW j \in Job, j.pc \notin {"store", "paste"}, Tried(c, k, g, j),
         UNCHANGED <<opened, told>>,
         letter' \in [MsgId -> Contacts \cup {NotWritten}],
         \A n \in MsgId : letter[n] # NotWritten => letter'[n] = letter[n],
         InHand(c) = {},
         job'[c] = j /\ mem'[k] = g /\ HistOk(k, g)' => JobOk(c)'
  PROVE  IInv' /\ StepOk(c)
<1>1. /\ h \in History /\ HistOk(k, h) /\ h.inbox = mem[k].inbox /\ Received(h) = Received(mem[k])
      /\ Ahead(disk[k], h)
      /\ \A x \in Received(h) : x \in Handled(c) /\ x \in opened[c] /\ letter[x] = <<k[2], c>>
  BY LoadedFacts
<1>3. /\ Frame(c) /\ Handled(c)' = opened[c] /\ InHand(c)' = {}
      /\ job'[c] = Idle(c) \/ (job'[c] = j /\ mem'[k] = g)
      /\ job' \in [Client -> Job]
      /\ mem' \in [Contacts -> History] /\ disk' \in [Contacts -> History]
      /\ shown' \in SUBSET MsgId /\ cut' \in SUBSET MsgId /\ crashes' \in Nat
  BY <1>1, TriedFrame
<1>4. TypeOK'
  BY <1>3 DEF IInv, TypeOK, QueueInv
<1>5. HistOk(k, h)'
  BY <1>1, <1>3, HistStays DEF Frame, NewsOk
<1>6. HistOk(k, g)'
  <2>1. \A n \in MsgId :
           \/ g.status[n] = h.status[n]
           \/ letter'[n] = k /\ (g.status[n] \in {"sent", "read"} =>
                                   \E q \in queue' : q.from = k[1] /\ q.to = k[2] /\ q.mid = n)
    BY DEF Stored
  <2> QED
    BY <1>1, <1>5, <2>1, StatusSet
<1>7. Ahead(disk[k], g)
  BY <1>1, RankType DEF Ahead
<1>8. JobOk(c)'
  BY <1>3, <1>6, IdleOk
<1> QED
  BY <1>1, <1>3, <1>4, <1>6, <1>7, <1>8, TriedOk

LEMMA PollJobType ==
  ASSUME NEW k \in Contacts, NEW h
  PROVE  PollJob(k[2], h) \in Job /\ PollJob(k[2], h).pc = "status"
  BY ContactFacts DEF PollJob, NewJob, Job, Step, WithStatus

(* The messages a poll asks about are those that were sent. *)
LEMMA PollJobOk ==
  ASSUME NEW c \in Client, NEW k \in Contacts, k[1] = c, NEW h \in History, HistOk(k, h)',
         job'[c] = PollJob(k[2], h)
  PROVE  JobOk(c)' /\ InHand(c)' = {}
<1>1. /\ job'[c].pc = "status" /\ job'[c].peer = k[2] /\ job'[c].page = {}
      /\ job'[c].todo = WithStatus(h, "sent")
  BY DEF PollJob, NewJob
<1>2. Conv(c)' = k
  BY <1>1, ContactFacts DEF Conv
<1>3. \A m \in WithStatus(h, "sent") : letter'[m] = k
  BY DEF WithStatus, HistOk, OwnOk
<1>4. PageOk(c)'
  BY <1>1 DEF PageOk
<1>5. JobOk(c)'
  BY <1>1, <1>2, <1>3, <1>4 DEF JobOk
<1> QED
  BY <1>1, <1>5 DEF InHand

(* send_text, first part *)
LEMMA ComposeKeeps ==
  ASSUME IInv, NEW c \in Client, NEW p \in Client, NEW m \in MsgId, <<c, p>> \in Contacts,
         Compose(c, p, m)
  PROVE  IInv' /\ StepOk(c)
<1>1. PICK k \in Contacts : k = <<c, p>> /\ k[1] = c /\ k[2] = p
  OBVIOUS
<1>2. PICK h : h = Loaded(k)
  OBVIOUS
<1>3. PICK g : g = [h EXCEPT !.status[m] = "queued"]
  OBVIOUS
<1>4. PICK j : j = NewJob("submit", p, {m})
  OBVIOUS
<1>5. /\ job[c].pc = "idle" /\ letter[m] = NotWritten
      /\ letter' = [letter EXCEPT ![m] = k] /\ letter \in [MsgId -> Contacts \cup {NotWritten}]
      /\ UNCHANGED <<queueVars, opened, told>>
  BY <1>1 DEF Compose, IInv, TypeOK
<1>6. Tried(c, k, g, j)
  BY <1>1, <1>2, <1>3, <1>4 DEF Compose, Tried
<1>7. h \in History /\ HistOk(k, h)
  BY <1>1, <1>2, LoadedFacts
<1>8. h.status[m] = "none"
  BY <1>5, <1>7, ContactFacts DEF HistOk, OwnOk
<1>9. j \in Job /\ j.pc = "submit" /\ j.peer = p /\ j.todo = {m} /\ j.page = {}
  BY <1>4 DEF NewJob, Job, Step
<1>10. QueueInv' /\ RowsStay(c)
  BY <1>5, RowsSame
<1>11. InHand(c) = {} /\ letter'[m] = k
  BY <1>5 DEF InHand
<1>12. ASSUME job'[c] = j, mem'[k] = g PROVE JobOk(c)'
  <2>1. Conv(c)' = k
    BY <1>1, <1>9, <1>12 DEF Conv
  <2>2. Hist(c)'.status[m] = "queued"
    BY <1>3, <1>7, <1>12, <2>1, HistoryFields DEF Hist, History
  <2>3. PageOk(c)'
    BY <1>9, <1>12 DEF PageOk
  <2> QED
    BY <1>9, <1>11, <1>12, <2>1, <2>2, <2>3 DEF JobOk
<1>13. \A n \in MsgId : letter[n] # NotWritten => letter'[n] = letter[n]
  BY <1>5
<1>14. /\ g \in History /\ g.inbox = h.inbox /\ g.cursor = h.cursor /\ Received(g) = Received(h)
       /\ g.status[m] = "queued" /\ \A n \in MsgId : n # m => g.status[n] = h.status[n]
  BY <1>3, <1>7, StatusFields DEF Status
<1>15. Rank(h.status[m]) <= Rank("queued") /\ "queued" \in Status \ {"none"}
  BY <1>8 DEF Rank, Status
<1> QED
  BY <1>1, <1>2, <1>5, <1>6, <1>9, <1>10, <1>11, <1>12, <1>13, <1>14, <1>15, StatusTried

(* Copy and paste: the entry is saved as "copied". *)
LEMMA PasteSendKeeps ==
  ASSUME IInv, NEW c \in Client, NEW p \in Client, NEW m \in MsgId, <<c, p>> \in Contacts,
         PasteSend(c, p, m)
  PROVE  IInv' /\ StepOk(c)
<1>1. PICK k \in Contacts : k = <<c, p>> /\ k[1] = c /\ k[2] = p
  OBVIOUS
<1>2. PICK h : h = Loaded(k)
  OBVIOUS
<1>3. PICK g : g = [h EXCEPT !.status[m] = "copied"]
  OBVIOUS
<1>4. PICK j : j = Idle(c)
  OBVIOUS
<1>5. /\ job[c].pc = "idle" /\ letter[m] = NotWritten
      /\ letter' = [letter EXCEPT ![m] = k] /\ letter \in [MsgId -> Contacts \cup {NotWritten}]
      /\ UNCHANGED <<queueVars, opened, told>>
  BY <1>1 DEF PasteSend, IInv, TypeOK
<1>6. Tried(c, k, g, j)
  BY <1>1, <1>2, <1>3, <1>4 DEF PasteSend, Tried
<1>7. h \in History /\ HistOk(k, h)
  BY <1>1, <1>2, LoadedFacts
<1>8. h.status[m] = "none"
  BY <1>5, <1>7, ContactFacts DEF HistOk, OwnOk
<1>9. j \in Job /\ j.pc = "idle"
  BY <1>4, IdleType
<1>10. QueueInv' /\ RowsStay(c)
  BY <1>5, RowsSame
<1>11. InHand(c) = {} /\ letter'[m] = k
  BY <1>5 DEF InHand
<1>12. ASSUME job'[c] = j PROVE JobOk(c)'
  BY <1>4, <1>12, IdleOk
<1>13. \A n \in MsgId : letter[n] # NotWritten => letter'[n] = letter[n]
  BY <1>5
<1>14. /\ g \in History /\ g.inbox = h.inbox /\ g.cursor = h.cursor /\ Received(g) = Received(h)
       /\ g.status[m] = "copied" /\ \A n \in MsgId : n # m => g.status[n] = h.status[n]
  BY <1>3, <1>7, StatusFields DEF Status
<1>15. Rank(h.status[m]) <= Rank("copied") /\ "copied" \in Status \ {"none"}
  BY <1>8 DEF Rank, Status
<1> QED
  BY <1>1, <1>2, <1>5, <1>6, <1>9, <1>10, <1>11, <1>12, <1>13, <1>14, <1>15, StatusTried

(* send_text, second part: the relay has the message. *)
LEMMA SubmitOkKeeps ==
  ASSUME IInv, NEW c \in Client, SubmitOk(c)
  PROVE  IInv' /\ StepOk(c)
<1>1. /\ job[c].pc = "submit" /\ opened' = opened /\ letter' = letter /\ told' = told
      /\ letter \in [MsgId -> Contacts \cup {NotWritten}]
  BY DEF SubmitOk, IInv, TypeOK
<1>2. PICK k \in Contacts : k = Conv(c) /\ k[1] = c /\ k[2] = job[c].peer /\ Hist(c) = mem[k]
  BY <1>1, Running
<1>3. PICK h : h = mem[k]
  OBVIOUS
<1>4. h \in History
  BY <1>2, <1>3, LoadedFacts
<1>5. PICK m \in job[c].todo :
        /\ RelayAccepts(c, m)
        /\ LET g == [h EXCEPT !.status[m] = "sent"] IN
           \/ Saved(c, k, g, IF c \in Terminal THEN Idle(c) ELSE PollJob(k[2], g))
           \/ SaveFails(c, k, g)
  BY <1>2, <1>3 DEF SubmitOk
<1>6. m \in MsgId /\ letter[m] = k /\ h.status[m] = "queued"
  BY <1>1, <1>2, <1>3, Running, InvFacts DEF JobOk
<1>7. PICK g : g = [h EXCEPT !.status[m] = "sent"]
  OBVIOUS
<1>8. PICK j : j = IF c \in Terminal THEN Idle(c) ELSE PollJob(k[2], g)
  OBVIOUS
<1>9. Tried(c, k, g, j)
  BY <1>5, <1>7, <1>8 DEF Tried
<1>10. /\ g \in History /\ g.inbox = h.inbox /\ g.cursor = h.cursor /\ Received(g) = Received(h)
       /\ g.status[m] = "sent" /\ \A n \in MsgId : n # m => g.status[n] = h.status[n]
  BY <1>4, <1>6, <1>7, StatusFields DEF Status
<1>11. j \in Job /\ j.pc \in {"idle", "status"}
  BY <1>8, <1>10, IdleType, PollJobType
<1>12. QueueInv' /\ RowsStay(c) /\ Stored(k[1], k[2], m)'
  <2>1. Submit(c, k[2], m, NoExpiry) /\ letter[m] = <<c, k[2]>> /\ k[2] \in Client
    BY <1>2, <1>5, <1>6, ContactFacts DEF RelayAccepts
  <2>2. PICK p \in Client : p = k[2]
    BY <2>1
  <2>3. Submit(c, p, m, NoExpiry) /\ letter[m] = <<c, p>>
    BY <2>1, <2>2
  <2>4. QueueInv' /\ RowsStay(c) /\ Stored(c, p, m)'
    BY <1>1, <1>6, <2>3, RowsSubmitted
  <2> QED
    BY <1>2, <2>2, <2>4 DEF Stored
<1>13. ASSUME job'[c] = j, HistOk(k, g)' PROVE JobOk(c)'
  <2>1. CASE c \in Terminal
    BY <1>8, <1>13, <2>1, IdleOk
  <2>2. CASE c \notin Terminal
    BY <1>2, <1>8, <1>10, <1>13, <2>2, PollJobOk
  <2> QED
    BY <2>1, <2>2
<1>14. InHand(c) = {}
  BY <1>1 DEF InHand
<1>15. Rank(h.status[m]) <= Rank("sent") /\ "sent" \in Status \ {"none"}
  BY <1>6 DEF Rank, Status
<1>16. h \in {Loaded(k), mem[k]} /\ letter'[m] = k
  BY <1>1, <1>3, <1>6
<1> QED
  BY <1>1, <1>2, <1>6, <1>9, <1>10, <1>11, <1>12, <1>13, <1>14, <1>15, <1>16, StatusTried

(* poll, second part: the relay has the message now. *)
LEMMA RetryOkKeeps ==
  ASSUME IInv, NEW c \in Client, NEW m \in MsgId, RetryOk(c, m)
  PROVE  IInv' /\ StepOk(c)
<1>1. /\ job[c].pc = "retry" /\ m \in job[c].todo
      /\ opened' = opened /\ letter' = letter /\ told' = told
      /\ letter \in [MsgId -> Contacts \cup {NotWritten}]
  BY DEF RetryOk, IInv, TypeOK
<1>2. PICK k \in Contacts : k = Conv(c) /\ k[1] = c /\ k[2] = job[c].peer /\ Hist(c) = mem[k]
  BY <1>1, Running
<1>3. PICK h : h = mem[k]
  OBVIOUS
<1>4. h \in History
  BY <1>2, <1>3, LoadedFacts
<1>5. PICK g : g = [h EXCEPT !.status[m] = "sent"]
  OBVIOUS
<1>6. PICK j : j = [job[c] EXCEPT !.todo = @ \ {m}]
  OBVIOUS
<1>7. RelayAccepts(c, m) /\ Tried(c, k, g, j)
  BY <1>1, <1>2, <1>3, <1>5, <1>6 DEF RetryOk, Tried
<1>8. /\ \A n \in job[c].todo : letter[n] = k /\ h.status[n] = "queued"
      /\ job[c].page = {} /\ job[c] \in Job
  BY <1>1, <1>2, <1>3, InvFacts DEF JobOk
<1>9. /\ j \in Job /\ j.pc = "retry" /\ j.peer = k[2] /\ j.todo = job[c].todo \ {m} /\ j.page = {}
  BY <1>1, <1>2, <1>6, <1>8 DEF Job
<1>10. /\ g \in History /\ g.inbox = h.inbox /\ g.cursor = h.cursor /\ Received(g) = Received(h)
       /\ g.status[m] = "sent" /\ \A n \in MsgId : n # m => g.status[n] = h.status[n]
  BY <1>4, <1>5, StatusFields DEF Status
<1>11. QueueInv' /\ RowsStay(c) /\ Stored(k[1], k[2], m)'
  <2>1. Submit(c, k[2], m, NoExpiry) /\ letter[m] = <<c, k[2]>> /\ k[2] \in Client
    BY <1>1, <1>2, <1>7, <1>8, ContactFacts DEF RelayAccepts
  <2>2. PICK p \in Client : p = k[2]
    BY <2>1
  <2>3. Submit(c, p, m, NoExpiry) /\ letter[m] = <<c, p>>
    BY <2>1, <2>2
  <2>4. QueueInv' /\ RowsStay(c) /\ Stored(c, p, m)'
    BY <1>1, <2>3, RowsSubmitted
  <2> QED
    BY <1>2, <2>2, <2>4 DEF Stored
<1>12. ASSUME job'[c] = j, mem'[k] = g PROVE JobOk(c)'
  <2>1. Conv(c)' = k /\ Hist(c)' = g
    BY <1>2, <1>9, <1>12, ContactFacts DEF Conv, Hist
  <2>2. \A n \in j.todo : letter'[n] = k /\ g.status[n] = "queued"
    BY <1>1, <1>8, <1>9, <1>10, JobFields
  <2>3. PageOk(c)'
    BY <1>9, <1>12 DEF PageOk
  <2> QED
    BY <1>9, <1>12, <2>1, <2>2, <2>3 DEF JobOk
<1>13. InHand(c) = {}
  BY <1>1 DEF InHand
<1>14. Rank(h.status[m]) <= Rank("sent") /\ "sent" \in Status \ {"none"}
  BY <1>1, <1>8 DEF Rank, Status
<1>15. h \in {Loaded(k), mem[k]} /\ letter'[m] = k
  BY <1>1, <1>3, <1>8
<1> QED
  BY <1>1, <1>2, <1>7, <1>9, <1>10, <1>11, <1>12, <1>13, <1>14, <1>15, StatusTried

(* The history in memory is saved as it is. *)
LEMMA SaveHeld ==
  ASSUME IInv, QueueInv', NEW c \in Client, RowsStay(c), NEW k \in Contacts, k[1] = c,
         NEW h, h = mem[k], NEW j \in Job, j.pc \notin {"store", "paste"}, Tried(c, k, h, j),
         UNCHANGED <<opened, letter, told>>, InHand(c) = {},
         job'[c] = j /\ mem'[k] = h => JobOk(c)'
  PROVE  IInv' /\ StepOk(c)
<1>1. /\ h \in History /\ HistOk(k, h) /\ Received(h) = Received(mem[k]) /\ Ahead(disk[k], h)
      /\ \A x \in Received(h) : x \in Handled(c) /\ x \in opened[c] /\ letter[x] = <<k[2], c>>
  BY LoadedFacts
<1>2. /\ Frame(c) /\ Handled(c)' = opened[c] /\ InHand(c)' = {}
      /\ job'[c] = Idle(c) \/ (job'[c] = j /\ mem'[k] = h)
      /\ job' \in [Client -> Job]
      /\ mem' \in [Contacts -> History] /\ disk' \in [Contacts -> History]
      /\ shown' \in SUBSET MsgId /\ cut' \in SUBSET MsgId /\ crashes' \in Nat
  BY <1>1, TriedFrame
<1>3. TypeOK'
  BY <1>2 DEF IInv, TypeOK, QueueInv
<1>4. HistOk(k, h)'
  BY <1>1, <1>2, HistStays DEF Frame, NewsOk
<1>5. JobOk(c)'
  BY <1>2, IdleOk
<1> QED
  BY <1>1, <1>2, <1>3, <1>4, <1>5, TriedOk

(* The queued entries are those of this conversation. *)
LEMMA RetryJobOk ==
  ASSUME IInv, NEW c \in Client, job[c].pc = "status", NEW k \in Contacts, k = Conv(c),
         k[1] = c, k[2] = job[c].peer,
         letter' = letter, mem'[k] = mem[k], NEW j, j = RetryJob(c)
  PROVE  /\ j \in Job /\ j.pc = "retry"
         /\ job'[c] = j => JobOk(c)' /\ InHand(c)' = {}
<1>1. job[c] \in Job /\ job[c].page = {} /\ Hist(c) = mem[k] /\ HistOk(k, mem[k])
  BY InvFacts, ReceivedFacts DEF JobOk, Conv, Hist
<1>2. WithStatus(mem[k], "queued") \in SUBSET MsgId
  BY DEF WithStatus
<1>3. /\ j \in Job /\ j.pc = "retry" /\ j.peer = k[2] /\ j.page = {}
      /\ j.todo = WithStatus(mem[k], "queued")
  BY <1>1, <1>2 DEF RetryJob, Job, Step
<1>4. ASSUME job'[c] = j PROVE JobOk(c)' /\ InHand(c)' = {}
  <2>1. Conv(c)' = k /\ Hist(c)' = mem[k]
    BY <1>3, <1>4, ContactFacts DEF Conv, Hist
  <2>2. \A n \in j.todo : letter'[n] = k /\ mem[k].status[n] = "queued"
    BY <1>1, <1>3 DEF WithStatus, HistOk, OwnOk
  <2>3. PageOk(c)'
    BY <1>3, <1>4 DEF PageOk
  <2>4. JobOk(c)'
    BY <1>3, <1>4, <2>1, <2>2, <2>3 DEF JobOk
  <2>5. InHand(c)' = {}
    BY <1>3, <1>4 DEF InHand
  <2> QED
    BY <2>4, <2>5
<1> QED
  BY <1>3, <1>4

(* poll: the end of the first part. *)
LEMMA StatusDoneKeeps ==
  ASSUME IInv, NEW c \in Client, StatusDone(c)
  PROVE  IInv' /\ StepOk(c)
<1>1. job[c].pc = "status" /\ UNCHANGED <<queueVars, opened, letter, told>>
  BY DEF StatusDone
<1>2. PICK k \in Contacts : k = Conv(c) /\ k[1] = c /\ k[2] = job[c].peer /\ Hist(c) = mem[k]
  BY <1>1, Running
<1>3. PICK j : j = RetryJob(c)
  OBVIOUS
<1>4. QueueInv' /\ RowsStay(c)
  BY <1>1, RowsSame
<1>5. InHand(c) = {}
  BY <1>1 DEF InHand
<1>6. j \in Job /\ j.pc = "retry"
  BY <1>1, <1>2, <1>3 DEF RetryJob, WithStatus, Job, Step, IInv, TypeOK
<1>7. CASE job[c].dirty
  <2>1. PICK h : h = mem[k]
    OBVIOUS
  <2>2. Tried(c, k, h, j)
    BY <1>1, <1>2, <1>3, <1>7, <2>1 DEF StatusDone, Tried
  <2>3. job'[c] = j /\ mem'[k] = h => JobOk(c)'
    BY <1>1, <1>2, <1>3, <2>1, RetryJobOk
  <2>4. j.pc \notin {"store", "paste"} /\ opened' = opened /\ letter' = letter /\ told' = told
    BY <1>1, <1>6
  <2> QED
    BY <1>2, <1>4, <1>5, <1>6, <2>1, <2>2, <2>3, <2>4, SaveHeld
<1>8. CASE ~job[c].dirty
  <2>1. job' = [job EXCEPT ![c] = j] /\ UNCHANGED <<disk, mem, shown, cut, crashes>>
    BY <1>3, <1>8 DEF StatusDone, Goto
  <2>2. TypeOK'
    BY <1>1, <1>4, <1>6, <2>1 DEF IInv, TypeOK, QueueInv
  <2>3. job'[c] = j /\ \A d \in Client \ {c} : job'[d] = job[d]
    BY <2>1 DEF IInv, TypeOK
  <2>4. JobOk(c)' /\ InHand(c)' = {}
    BY <1>1, <1>2, <1>3, <2>1, <2>3, RetryJobOk
  <2>5. Handled(c)' = Handled(c)
    BY <1>1, <1>5, <2>4 DEF Handled
  <2>6. \A m \in opened'[c] : letter[m] # NotWritten /\ letter[m][2] = c
    BY <1>1 DEF IInv, ClientOk, OpenedOk
  <2>7. /\ UNCHANGED <<disk, mem, letter, shown, cut>>
        /\ \A d \in Client \ {c} : job'[d] = job[d] /\ opened'[d] = opened[d]
    BY <1>1, <2>1, <2>3
  <2>8. ReaderOk(c)
    BY <1>5, <2>1, <2>4, OwedStays
  <2> QED
    BY <1>4, <2>1, <2>2, <2>4, <2>5, <2>6, <2>7, <2>8, StandsOk, FilesStay DEF StepOk
<1> QED
  BY <1>7, <1>8

(* poll: the end. *)
LEMMA FinishPollKeeps ==
  ASSUME IInv, NEW c \in Client, FinishPoll(c)
  PROVE  IInv' /\ StepOk(c)
<1>1. job[c].pc = "page" /\ UNCHANGED <<queueVars, opened, letter, told>>
  BY DEF FinishPoll
<1>2. PICK k \in Contacts : k = Conv(c) /\ k[1] = c /\ Hist(c) = mem[k]
  BY <1>1, Running
<1>3. QueueInv' /\ RowsStay(c) /\ InHand(c) = {}
  BY <1>1, RowsSame DEF InHand
<1>4. CASE job[c].dirty
  <2>1. PICK h : h = mem[k]
    OBVIOUS
  <2>2. PICK j : j = Idle(c)
    OBVIOUS
  <2>3. Tried(c, k, h, j)
    BY <1>1, <1>2, <1>4, <2>1, <2>2 DEF FinishPoll, Tried
  <2>4. job'[c] = j => JobOk(c)'
    BY <2>2, IdleOk
  <2>5. j \in Job /\ j.pc = "idle"
    BY <2>2, IdleType
  <2> QED
    BY <1>1, <1>2, <1>3, <2>1, <2>3, <2>4, <2>5, SaveHeld
<1>5. CASE ~job[c].dirty
  <2>1. Return(c, Hist(c)) /\ UNCHANGED <<cut, crashes>>
    BY <1>5 DEF FinishPoll
  <2>2. disk' = disk
    BY <2>1 DEF Return
  <2> QED
    BY <1>1, <1>2, <1>3, <2>1, <2>2, ReturnOk
<1> QED
  BY <1>4, <1>5

LEMMA EmptyHistoryIs ==
  /\ EmptyHistory \in History /\ Received(EmptyHistory) = {}
  /\ EmptyHistory.inbox = <<>> /\ EmptyHistory.cursor = 0
  /\ \A m \in MsgId : EmptyHistory.status[m] = "none"
<1>1. /\ EmptyHistory.status = [m \in MsgId |-> "none"]
      /\ EmptyHistory.inbox = <<>> /\ EmptyHistory.cursor = 0
  BY DEF EmptyHistory
<1>2. EmptyHistory.status \in [MsgId -> Status] /\ EmptyHistory.inbox \in Seq(Entry)
  BY <1>1, EmptySeq DEF Status
<1>3. EmptyHistory \in History
  BY <1>1, <1>2 DEF EmptyHistory, History
<1> QED
  BY <1>1, <1>3 DEF Received

(* The desktop client deletes a conversation. *)
LEMMA DeleteHistoryKeeps ==
  ASSUME IInv, NEW c \in Client, NEW p \in Client, <<c, p>> \in Contacts, DeleteHistory(c, p)
  PROVE  IInv' /\ StepOk(c)
<1>1. /\ c \notin Terminal /\ job[c].pc = "idle" /\ UNCHANGED <<queueVars, opened, letter, told>>
      /\ Saved(c, <<c, p>>, EmptyHistory, Idle(c))
  BY DEF DeleteHistory
<1>2. PICK k \in Contacts : k = <<c, p>> /\ k[1] = c
  OBVIOUS
<1>3. PICK g : g = EmptyHistory
  OBVIOUS
<1>4. PICK j : j = Idle(c)
  OBVIOUS
<1>5. /\ g \in History /\ Received(g) = {} /\ g.inbox = <<>> /\ g.cursor = 0
      /\ \A m \in MsgId : g.status[m] = "none"
  BY <1>3, EmptyHistoryIs
<1>6. Tried(c, k, g, j) /\ j \in Job /\ j.pc = "idle"
  BY <1>1, <1>2, <1>3, <1>4, IdleType DEF Tried
<1>7. QueueInv' /\ RowsStay(c) /\ InHand(c) = {}
  BY <1>1, RowsSame DEF InHand
<1>8. /\ Frame(c) /\ Handled(c)' = opened[c] /\ InHand(c)' = {}
      /\ job'[c] = Idle(c) \/ (job'[c] = j /\ mem'[k] = g)
      /\ job' \in [Client -> Job]
      /\ mem' \in [Contacts -> History] /\ disk' \in [Contacts -> History]
      /\ shown' \in SUBSET MsgId /\ cut' \in SUBSET MsgId /\ crashes' \in Nat
  BY <1>1, <1>2, <1>5, <1>6, <1>7, TriedFrame
<1>9. TypeOK'
  BY <1>1, <1>7, <1>8 DEF IInv, TypeOK, QueueInv
<1>10. HistOk(k, g)'
  <2>1. OwnOk(k, g)'
    BY <1>5 DEF OwnOk
  <2>2. CursorOk(k, g)'
    <3>1. \A q \in queue' : q.id \in Nat /\ 0 < q.id
      BY <1>7 DEF QueueInv, IdsAreKeys, QueueTypeOK, Row
    <3>2. 0 < nextId'
      BY <1>7 DEF QueueInv
    <3> QED
      BY <1>5, <3>1, <3>2 DEF CursorOk
  <2>3. InboxOk(k, g)'
    BY <1>5 DEF InboxOk
  <2>4. OrderOk(k, g)'
    BY <1>5 DEF OrderOk
  <2> QED
    BY <2>1, <2>2, <2>3, <2>4 DEF HistOk
<1>11. \A m \in Received(mem[k]) : m \in Received(g) \cup shown
  BY <1>1, <1>2, ReceivedFacts
<1>12. JobOk(c)'
  BY <1>4, <1>8, IdleOk
<1>13. /\ c \notin Terminal /\ g = EmptyHistory /\ opened' = opened
       /\ Received(g) \subseteq Received(mem[k]) \cup InHand(c) /\ InHand(c) \subseteq Received(g)
       /\ \A m \in Received(g) : m \in opened[c] /\ letter[m] = <<k[2], c>>
  BY <1>1, <1>3, <1>5, <1>7
<1> QED
  BY <1>2, <1>5, <1>6, <1>7, <1>8, <1>9, <1>10, <1>11, <1>12, <1>13, TriedOk

-----------------------------------------------------------------------------
(* Operations that return an error, or end the program. *)
LEMMA EndOk ==
  ASSUME IInv, QueueInv', NEW c \in Client, RowsStay(c), Quit(c, {}),
         UNCHANGED <<opened, letter, told, crashes>>, InHand(c) = {}
  PROVE  IInv' /\ StepOk(c)
<1>1. crashes' \in Nat
  BY DEF IInv, TypeOK
<1>2. PICK X : X = {}
  OBVIOUS
<1>3. Quit(c, X) /\ InHand(c) \subseteq X \cup shown
  BY <1>2
<1>5. X \subseteq Owed(c)
  BY <1>2
<1>4. \A m \in X : m \in opened[c] /\ letter[m] # NotWritten /\ letter[m][2] = c
  BY <1>2
<1> QED
  BY <1>1, <1>3, <1>4, <1>5, QuitOk

(* The relay may or may not have taken a message. *)
LEMMA AcceptedOk ==
  ASSUME IInv, NEW c \in Client, NEW m \in MsgId, job[c].peer \in Client,
         letter[m] = <<c, job[c].peer>>, letter' = letter,
         RelayAccepts(c, m) \/ UNCHANGED queueVars
  PROVE  QueueInv' /\ RowsStay(c)
<1>1. PICK p \in Client : p = job[c].peer
  OBVIOUS
<1>2. CASE RelayAccepts(c, m)
  <2>1. letter[m] = <<c, p>> /\ Submit(c, p, m, NoExpiry)
    BY <1>1, <1>2 DEF RelayAccepts
  <2> QED
    BY <2>1, RowsSubmitted
<1> QED
  BY <1>2, RowsSame

LEMMA SubmitErrKeeps ==
  ASSUME IInv, NEW c \in Client, SubmitErr(c)
  PROVE  IInv' /\ StepOk(c)
<1>1. /\ job[c].pc = "submit" /\ UNCHANGED <<opened, letter, told, cut, crashes>>
      /\ Return(c, Hist(c)) /\ InHand(c) = {}
  BY DEF SubmitErr, InHand
<1>2. Conv(c) \in Contacts /\ Conv(c) = <<c, job[c].peer>> /\ job[c].peer \in Client
  BY <1>1, Running
<1>3. PICK m \in job[c].todo : RelayAccepts(c, m) \/ UNCHANGED queueVars
  BY DEF SubmitErr
<1>4. m \in MsgId /\ letter[m] = <<c, job[c].peer>>
  BY <1>1, <1>2, Running, InvFacts DEF JobOk
<1>5. QueueInv' /\ RowsStay(c)
  BY <1>1, <1>2, <1>3, <1>4, AcceptedOk
<1> QED
  BY <1>1, <1>2, <1>5, ReturnOk

LEMMA FetchErrKeeps ==
  ASSUME IInv, NEW c \in Client, FetchErr(c)
  PROVE  IInv' /\ StepOk(c)
<1>1. /\ job[c].pc = "retry" /\ UNCHANGED <<queueVars, opened, letter, told, cut, crashes>>
      /\ Return(c, Hist(c)) /\ InHand(c) = {}
  BY DEF FetchErr, InHand
<1> QED
  BY <1>1, Running, RowsSame, ReturnOk

(* The acknowledged message has been handled: its operation is past the    *)
(* store.                                                                  *)
LEMMA AckRows ==
  ASSUME IInv, NEW c \in Client, job[c].pc = "ack", nextId' = nextId, opened' = opened,
         InHand(c)' = {},
         MarkAcked(c, Oldest(job[c].page).id) \/ UNCHANGED queue
  PROVE  QueueInv' /\ RowsStay(c)
<1>1. /\ job[c].page # {} /\ job[c].page \in SUBSET Row /\ PageOk(c)
      /\ Oldest(job[c].page).mid \in opened[c]
  BY InvFacts, JobFields DEF JobOk
<1>2. PICK o \in job[c].page : o = Oldest(job[c].page)
  BY <1>1, OldestRow
<1>3. PICK q \in queue : q.id = o.id /\ q.mid = o.mid
  BY <1>1 DEF PageOk
<1>4. Handled(c)' = opened[c]
  BY DEF Handled
<1>5. \A p \in queue : p.id = o.id => p.mid \in Handled(c)'
  BY <1>1, <1>2, <1>3, <1>4 DEF IInv, QueueInv, IdsAreKeys
<1>6. CASE MarkAcked(c, Oldest(job[c].page).id)
  <2>1. o.id \in Nat /\ MarkAcked(c, o.id)
    BY <1>1, <1>2, <1>6 DEF Row
  <2>2. PICK i \in Nat : i = o.id
    BY <2>1
  <2>3. MarkAcked(c, i) /\ \A p \in queue : p.id = i /\ p.to = c => p.mid \in Handled(c)'
    BY <1>5, <2>1, <2>2
  <2> QED
    BY <2>3, RowsAcked
<1>7. CASE UNCHANGED queue
  BY <1>7, RowsSame DEF queueVars
<1> QED
  BY <1>6, <1>7

LEMMA AckErrKeeps ==
  ASSUME IInv, NEW c \in Client, AckErr(c)
  PROVE  IInv' /\ StepOk(c)
<1>1. /\ job[c].pc = "ack" /\ nextId' = nextId /\ UNCHANGED <<opened, letter, told, cut, crashes>>
      /\ Return(c, Hist(c)) /\ InHand(c) = {}
      /\ MarkAcked(c, Oldest(job[c].page).id) \/ UNCHANGED queue
  BY DEF AckErr, InHand
<1>2. InHand(c)' = {}
  <2>1. job'[c] = Idle(c)
    BY <1>1 DEF Return, Goto, IInv, TypeOK
  <2> QED
    BY <2>1, IdleOk
<1>3. QueueInv' /\ RowsStay(c)
  BY <1>1, <1>2, AckRows
<1> QED
  BY <1>1, <1>3, Running, ReturnOk

LEMMA OpenErrKeeps ==
  ASSUME IInv, NEW c \in Client, OpenErr(c)
  PROVE  IInv' /\ StepOk(c)
<1>1. /\ job[c].pc = "page" /\ UNCHANGED <<queueVars, opened, letter, told, crashes>>
      /\ InHand(c) = {}
      /\ (Return(c, Hist(c)) /\ UNCHANGED cut) \/ Quit(c, {})
  BY DEF OpenErr, InHand
<1>2. QueueInv' /\ RowsStay(c)
  BY <1>1, RowsSame
<1>3. CASE Return(c, Hist(c)) /\ UNCHANGED cut
  BY <1>1, <1>2, <1>3, Running, ReturnOk
<1>4. CASE Quit(c, {})
  BY <1>1, <1>2, <1>4, EndOk
<1> QED
  BY <1>1, <1>3, <1>4

(* What was decrypted is no text: it is gone, with the operation or with   *)
(* the program.                                                            *)
LEMMA UnreadableKeeps ==
  ASSUME IInv, NEW c \in Client, job[c].pc # "idle", NEW m, InHand(c) = {m},
         NEW h, c \in Terminal => h = Hist(c), Unreadable(c, m, h)
  PROVE  IInv' /\ StepOk(c)
<1>1. /\ UNCHANGED <<queueVars, opened, letter, told, crashes>>
      /\ (Return(c, h) /\ cut' = cut \cup InHand(c)) \/ Quit(c, {m})
  BY DEF Unreadable
<1>2. QueueInv' /\ RowsStay(c) /\ Conv(c) \in Contacts
  BY <1>1, RowsSame, Running
<1>3. CASE Return(c, h) /\ cut' = cut \cup InHand(c)
  BY <1>1, <1>2, <1>3, DropOk
<1>4. CASE Quit(c, {m})
  <2>1. PICK X : X = {m}
    OBVIOUS
  <2>2. \A n \in X : n \in opened[c] /\ letter[n] # NotWritten /\ letter[n][2] = c
    BY <2>1, InvFacts, InHandType DEF OpenedOk
  <2>3. crashes' \in Nat
    BY <1>1 DEF IInv, TypeOK
  <2>4. X \subseteq Owed(c) /\ InHand(c) \subseteq X \cup shown
    BY <2>1 DEF Owed
  <2> QED
    BY <1>1, <1>2, <1>4, <2>1, <2>2, <2>3, <2>4, QuitOk
<1> QED
  BY <1>1, <1>3, <1>4

LEMMA StoreErrKeeps ==
  ASSUME IInv, NEW c \in Client, StoreErr(c)
  PROVE  IInv' /\ StepOk(c)
<1>1. PICK m, h : m = Oldest(job[c].page).mid /\ h = Hist(c)
  OBVIOUS
<1>2. job[c].pc = "store" /\ Unreadable(c, m, h)
  BY <1>1 DEF StoreErr
<1>3. InHand(c) = {m}
  BY <1>1, <1>2 DEF InHand
<1> QED
  BY <1>1, <1>2, <1>3, UnreadableKeeps

LEMMA PasteStoreErrKeeps ==
  ASSUME IInv, NEW c \in Client, PasteStoreErr(c)
  PROVE  IInv' /\ StepOk(c)
<1>1. PICK h : h = Loaded(Conv(c))
  OBVIOUS
<1>2. job[c].pc = "paste" /\ \E m \in job[c].todo : Unreadable(c, m, h)
  BY <1>1 DEF PasteStoreErr
<1>3. PICK n \in opened[c] : job[c].todo = {n}
  BY <1>2, InvFacts DEF JobOk
<1>4. Unreadable(c, n, h) /\ InHand(c) = {n}
  BY <1>2, <1>3 DEF InHand
<1>5. c \in Terminal => h = Hist(c)
  BY <1>1 DEF Loaded, Conv, Hist
<1> QED
  BY <1>2, <1>4, <1>5, UnreadableKeeps

LEMMA PasteErrKeeps ==
  ASSUME IInv, NEW c \in Client, NEW p, NEW m, PasteErr(c, p, m)
  PROVE  IInv' /\ StepOk(c)
<1>1. /\ job[c].pc = "idle" /\ UNCHANGED <<queueVars, opened, letter, told, crashes>>
      /\ InHand(c) = {} /\ Quit(c, {})
  BY DEF PasteErr, InHand
<1>2. QueueInv' /\ RowsStay(c)
  BY <1>1, RowsSame
<1> QED
  BY <1>1, <1>2, EndOk

LEMMA CrashKeeps ==
  ASSUME IInv, NEW c \in Client, Crash(c)
  PROVE  IInv' /\ StepOk(c)
<1>1. /\ UNCHANGED <<queueVars, opened, letter, told>> /\ Quit(c, InHand(c)) /\ crashes' = crashes + 1
  BY DEF Crash, Mishap
<1>2. QueueInv' /\ RowsStay(c)
  BY <1>1, RowsSame
<1>3. InHand(c) \subseteq opened[c]
  BY InvFacts, InHandType
<1>4. PICK X : X = InHand(c)
  OBVIOUS
<1>5. \A m \in X : m \in opened[c] /\ letter[m] # NotWritten /\ letter[m][2] = c
  BY <1>3, <1>4, InvFacts DEF OpenedOk
<1>6. crashes' \in Nat
  BY <1>1 DEF IInv, TypeOK
<1>7. X \subseteq Owed(c)
  BY <1>4 DEF Owed
<1> QED
  BY <1>1, <1>2, <1>4, <1>5, <1>6, <1>7, QuitOk

-----------------------------------------------------------------------------
(* Steps that change a history in memory. *)
LEMMA RememberFrame ==
  ASSUME IInv, NEW c \in Client, NEW k \in Contacts, k[1] = c, NEW h \in History,
         Remember(k, h), NEW j \in Job, Goto(c, j), j.pc \notin {"store", "paste"},
         UNCHANGED <<opened, letter, cut>>, InHand(c) = {}, QueueInv', RowsStay(c)
  PROVE  /\ Frame(c) /\ Handled(c)' = Handled(c) /\ InHand(c)' = InHand(c) /\ job'[c] = j /\ mem'[k] = h
         /\ told' \in SUBSET MsgId /\ crashes' \in Nat => TypeOK'
<1>1. /\ job' = [job EXCEPT ![c] = j] /\ mem' = [mem EXCEPT ![k] = h]
      /\ disk' = disk /\ shown' = shown /\ opened' = opened /\ letter' = letter /\ cut' = cut
  BY DEF Remember, Goto
<1>2. TypeOK
  BY DEF IInv
<1>3. /\ job'[c] = j /\ mem'[k] = h /\ \A d \in Client \ {c} : job'[d] = job[d]
      /\ \A x \in Contacts : x[1] # c => mem'[x] = mem[x]
      /\ job' \in [Client -> Job] /\ mem' \in [Contacts -> History]
  BY <1>1, <1>2 DEF TypeOK
<1>4. Handled(c)' = Handled(c) /\ InHand(c)' = InHand(c)
  BY <1>1, <1>3 DEF Handled, InHand
<1>5. Frame(c)
  BY <1>1, <1>3, <1>4 DEF Frame, OthersStay, NewsOk
<1>6. told' \in SUBSET MsgId /\ crashes' \in Nat => TypeOK'
  BY <1>1, <1>2, <1>3 DEF TypeOK, QueueInv
<1> QED
  BY <1>3, <1>4, <1>5, <1>6

LEMMA StartPollKeeps ==
  ASSUME IInv, NEW c \in Client, NEW p \in Client, <<c, p>> \in Contacts, StartPoll(c, p)
  PROVE  IInv' /\ StepOk(c)
<1>1. PICK k \in Contacts : k = <<c, p>> /\ k[1] = c /\ k[2] = p
  OBVIOUS
<1>2. PICK h : h = Loaded(k)
  OBVIOUS
<1>3. /\ h \in History /\ HistOk(k, h) /\ h.inbox = mem[k].inbox /\ Ahead(disk[k], h)
  BY <1>1, <1>2, LoadedFacts
<1>4. PICK j \in Job : j = PollJob(k[2], h) /\ j.pc = "status"
  BY PollJobType
<1>5. /\ Remember(k, h) /\ Goto(c, j) /\ InHand(c) = {}
      /\ UNCHANGED <<queueVars, opened, letter, told, cut, crashes>>
  BY <1>1, <1>2, <1>4 DEF StartPoll, InHand
<1>6. QueueInv' /\ RowsStay(c) /\ opened' = opened /\ letter' = letter /\ cut' = cut
  BY <1>5, RowsSame
<1>7. j.pc \notin {"store", "paste"}
  BY <1>4
<1>8. told' \in SUBSET MsgId /\ crashes' \in Nat
  BY <1>5 DEF IInv, TypeOK
<1>9. Frame(c) /\ Handled(c)' = Handled(c) /\ InHand(c)' = InHand(c) /\ job'[c] = j /\ mem'[k] = h /\ TypeOK'
  BY <1>1, <1>3, <1>5, <1>6, <1>7, <1>8, RememberFrame
<1>10. HistOk(k, h)'
  BY <1>1, <1>3, <1>6, <1>9, HistStays
<1>11. JobOk(c)'
  BY <1>1, <1>3, <1>4, <1>9, <1>10, PollJobOk
<1> QED
  BY <1>1, <1>3, <1>5, <1>6, <1>9, <1>10, <1>11, RememberOk

(* The relay says that m was read. *)
LEMMA StatusReadKeeps ==
  ASSUME IInv, NEW c \in Client, NEW m \in MsgId, StatusRead(c, m)
  PROVE  IInv' /\ StepOk(c)
<1>1. /\ job[c].pc = "status" /\ m \in job[c].todo /\ "read" \in StatusAnswers(c, m)
      /\ UNCHANGED <<queueVars, opened, letter, cut, crashes>> /\ told' = told \cup {m}
      /\ InHand(c) = {}
  BY DEF StatusRead, InHand
<1>2. PICK k \in Contacts : k = Conv(c) /\ k[1] = c /\ k[2] = job[c].peer /\ Hist(c) = mem[k]
  BY <1>1, Running
<1>3. PICK h : h = mem[k]
  OBVIOUS
<1>4. PICK g : g = [h EXCEPT !.status[m] = "read"]
  OBVIOUS
<1>5. PICK j : j = [job[c] EXCEPT !.todo = @ \ {m}, !.dirty = TRUE]
  OBVIOUS
<1>6. Remember(k, g) /\ Goto(c, j)
  BY <1>2, <1>3, <1>4, <1>5 DEF StatusRead
<1>7. h \in History /\ HistOk(k, h) /\ h.inbox = mem[k].inbox /\ Ahead(disk[k], h)
  BY <1>2, <1>3, LoadedFacts
<1>8. /\ g \in History /\ g.inbox = h.inbox /\ g.cursor = h.cursor /\ Received(g) = Received(h)
      /\ g.status[m] = "read" /\ \A n \in MsgId : n # m => g.status[n] = h.status[n]
  BY <1>4, <1>7, StatusFields DEF Status
<1>9. job[c] \in Job /\ job[c].page = {} /\ \A n \in job[c].todo : letter[n] = k
  BY <1>1, <1>2, InvFacts DEF JobOk
<1>10. /\ j \in Job /\ j.pc = "status" /\ j.peer = k[2] /\ j.todo = job[c].todo \ {m} /\ j.page = {}
  BY <1>1, <1>2, <1>5, <1>9 DEF Job
<1>11. QueueInv' /\ RowsStay(c) /\ opened' = opened /\ letter' = letter /\ cut' = cut /\ queue' = queue
  BY <1>1, RowsSame DEF queueVars
<1>12. told' \in SUBSET MsgId /\ crashes' \in Nat /\ j.pc \notin {"store", "paste"}
  BY <1>1, <1>10 DEF IInv, TypeOK
<1>13. Frame(c) /\ Handled(c)' = Handled(c) /\ InHand(c)' = InHand(c) /\ job'[c] = j /\ mem'[k] = g /\ TypeOK'
  BY <1>1, <1>2, <1>6, <1>8, <1>10, <1>11, <1>12, RememberFrame
<1>14. HistOk(k, h)'
  BY <1>2, <1>7, <1>11, <1>13, HistStays
<1>15. HistOk(k, g)'
  <2>1. PICK q \in queue : q.from = c /\ q.mid = m
    BY <1>1 DEF StatusAnswers
  <2>2. q.to = k[2]
    <3>1. letter[m] = <<q.from, q.to>> /\ letter[m] = k
      BY <1>1, <1>9, <2>1 DEF IInv, SharedOk
    <3> QED
      BY <3>1
  <2>3. \A n \in MsgId :
           \/ g.status[n] = h.status[n]
           \/ letter'[n] = k /\ (g.status[n] \in {"sent", "read"} =>
                                   \E r \in queue' : r.from = k[1] /\ r.to = k[2] /\ r.mid = n)
    BY <1>1, <1>2, <1>8, <1>9, <1>11, <2>1, <2>2
  <2> QED
    BY <1>7, <1>8, <1>14, <2>3, StatusSet
<1>16. JobOk(c)'
  <2>1. Conv(c)' = k
    BY <1>2, <1>10, <1>13, ContactFacts DEF Conv
  <2>2. PageOk(c)'
    BY <1>10, <1>13 DEF PageOk
  <2> QED
    BY <1>9, <1>10, <1>11, <1>13, <2>1, <2>2 DEF JobOk
<1>17. g.inbox = mem[k].inbox
  BY <1>7, <1>8
<1>18. Ahead(disk[k], g)
  BY <1>7, <1>8, RankType DEF Ahead, Rank
<1> QED
  BY <1>2, <1>6, <1>8, <1>11, <1>13, <1>15, <1>16, <1>17, <1>18, RememberOk

(* poll, third part: the relay marks the message, the cursor moves on. *)
LEMMA AckOkKeeps ==
  ASSUME IInv, NEW c \in Client, AckOk(c)
  PROVE  IInv' /\ StepOk(c)
<1>1. /\ job[c].pc = "ack" /\ InHand(c) = {} /\ MarkAcked(c, Oldest(job[c].page).id)
      /\ nextId' = nextId /\ opened' = opened /\ letter' = letter /\ told' = told
      /\ cut' = cut /\ crashes' = crashes
  BY DEF AckOk, InHand
<1>2. PICK k \in Contacts : k = Conv(c) /\ k[1] = c /\ k[2] = job[c].peer /\ Hist(c) = mem[k]
  BY <1>1, Running
<1>3. /\ job[c] \in Job /\ job[c].page # {} /\ job[c].page \in SUBSET Row /\ PageOk(c)
  BY <1>1, InvFacts, JobFields DEF JobOk
<1>4. PICK o \in job[c].page : o = Oldest(job[c].page) /\ \A r \in job[c].page : o.id <= r.id
  BY <1>3, OldestRow
<1>5. PICK h : h = mem[k]
  OBVIOUS
<1>6. PICK n : n = IF o.id > h.cursor THEN o.id ELSE h.cursor
  OBVIOUS
<1>7. PICK g : g = [h EXCEPT !.cursor = n]
  OBVIOUS
<1>8. PICK j : j = [job[c] EXCEPT !.pc = "page", !.page = @ \ {o}, !.dirty = @ \/ o.id > h.cursor]
  OBVIOUS
<1>9. Remember(k, g) /\ Goto(c, j)
  BY <1>2, <1>4, <1>5, <1>6, <1>7, <1>8 DEF AckOk
<1>10. /\ h \in History /\ HistOk(k, h) /\ h.inbox = mem[k].inbox /\ Ahead(disk[k], h)
       /\ h.cursor \in Nat /\ o.id \in Nat /\ n \in Nat /\ h.cursor <= n
  BY <1>2, <1>3, <1>4, <1>5, <1>6, LoadedFacts, HistoryFields DEF Row
<1>11. /\ j \in Job /\ j.pc = "page" /\ j.peer = k[2] /\ j.page = job[c].page \ {o}
       /\ j.todo = job[c].todo
  BY <1>2, <1>3, <1>8, <1>10 DEF Job, Step
<1>12. InHand(c)' = {}
  <2>1. job'[c].pc = "page"
    BY <1>9, <1>11 DEF Goto, IInv, TypeOK
  <2> QED
    BY <2>1 DEF InHand
<1>13. QueueInv' /\ RowsStay(c)
  BY <1>1, <1>12, AckRows
<1>14. told' \in SUBSET MsgId /\ crashes' \in Nat /\ j.pc \notin {"store", "paste"} /\ g \in History
  BY <1>1, <1>7, <1>10, <1>11 DEF IInv, TypeOK, History
<1>15. Frame(c) /\ Handled(c)' = Handled(c) /\ InHand(c)' = InHand(c) /\ job'[c] = j /\ mem'[k] = g /\ TypeOK'
  BY <1>1, <1>2, <1>9, <1>11, <1>13, <1>14, RememberFrame
<1>16. HistOk(k, h)'
  BY <1>2, <1>10, <1>13, <1>15, HistStays
<1>17. ASSUME NEW s \in queue', s.id = o.id, s.to = c PROVE s.acked
  <2>1. \A q \in queue : q \in Row
    BY InvFacts
  <2>2. PICK q \in queue : s = IF q.id = o.id /\ q.to = c THEN [q EXCEPT !.acked = TRUE] ELSE q
    BY <1>1, <1>4 DEF MarkAcked
  <2> QED
    BY <1>17, <2>1, <2>2 DEF Row
<1>18. ASSUME NEW s \in queue', s.from = k[2], s.to = c, ~s.acked, NEW r \in job[c].page, s.id <= r.id
       PROVE  \E t \in job[c].page : t # o /\ t.id = s.id
  <2>1. /\ \A q \in queue : q.id \in Nat /\ q.id < nextId
        /\ s.id \in Nat /\ nextId \in Nat
    BY <1>13 DEF IInv, QueueInv, QueueTypeOK, IdsAreKeys, Row
  <2>2. r.id \in Nat /\ r.id < nextId
    BY <1>3, <2>1 DEF PageOk
  <2>3. PICK q \in queue : s.id = q.id /\ s.from = q.from /\ s.to = q.to /\ s.mid = q.mid
    BY <1>13, <1>18, <2>1, <2>2 DEF RowsStay
  <2>4. ~q.acked
    <3>1. PICK t \in queue' : t.id = q.id /\ (q.acked => t.acked)
      BY <1>13 DEF RowsStay
    <3>2. t = s
      BY <1>13, <2>3, <3>1 DEF QueueInv, IdsAreKeys
    <3> QED
      BY <1>18, <3>1, <3>2
  <2>5. PICK t \in job[c].page : t.id = q.id
    BY <1>2, <1>3, <1>18, <2>3, <2>4 DEF PageOk
  <2> QED
    BY <1>17, <1>18, <2>3, <2>5
<1>19. \A q \in queue' : q.to = k[1] /\ q.from = k[2] /\ q.id <= n => q.acked
  <2> SUFFICES ASSUME NEW s \in queue', s.to = c, s.from = k[2], s.id <= n, ~s.acked PROVE FALSE
    BY <1>2
  <2>1. s.id \in Nat
    BY <1>13 DEF QueueInv, QueueTypeOK, Row
  <2>2. ~(s.id <= h.cursor)
    BY <1>2, <1>16 DEF HistOk, CursorOk
  <2>3. s.id <= o.id
    BY <1>6, <1>10, <2>1, <2>2
  <2>4. PICK t \in job[c].page : t # o /\ t.id = s.id
    BY <1>18, <2>3
  <2>5. s.id = o.id
    BY <1>4, <1>10, <2>1, <2>3, <2>4
  <2> QED
    BY <1>17, <2>5
<1>20. n < nextId'
  <2>1. \A q \in queue : q.id \in Nat /\ q.id < nextId
    BY DEF IInv, QueueInv, QueueTypeOK, IdsAreKeys, Row
  <2>2. o.id < nextId
    BY <1>3, <1>4, <2>1 DEF PageOk
  <2>3. h.cursor < nextId
    BY <1>10 DEF HistOk, CursorOk
  <2> QED
    BY <1>1, <1>6, <2>2, <2>3
<1>21. HistOk(k, g)' /\ g.inbox = h.inbox /\ \A d \in History : Ahead(d, h) => Ahead(d, g)
  BY <1>7, <1>10, <1>16, <1>19, <1>20, CursorSet
<1>22. Ahead(disk[k], g) /\ g.inbox = mem[k].inbox
  <2>1. disk[k] \in History
    BY DEF IInv, TypeOK
  <2> QED
    BY <1>10, <1>21, <2>1
<1>23. JobOk(c)'
  <2>1. Conv(c)' = k
    BY <1>2, <1>11, <1>15, ContactFacts DEF Conv
  <2>2. \A r \in j.page : /\ r.from = k[2] /\ r.to = c
                          /\ \E q \in queue' : q.id = r.id /\ q.from = r.from /\ q.to = c /\ q.mid = r.mid
    BY <1>2, <1>3, <1>11, <1>13 DEF PageOk, RowsStay
  <2>3. \A s \in queue' : s.from = k[2] /\ s.to = c /\ ~s.acked =>
          \A r \in j.page : s.id <= r.id => \E t \in j.page : t.id = s.id
    BY <1>11, <1>18
  <2>4. PageOk(c)'
    BY <1>11, <1>15, <2>2, <2>3 DEF PageOk
  <2> QED
    BY <1>11, <1>15, <2>1, <2>4 DEF JobOk
<1> QED
  BY <1>1, <1>2, <1>9, <1>13, <1>14, <1>15, <1>21, <1>22, <1>23, RememberOk

-----------------------------------------------------------------------------
(* Steps that change no history. *)
LEMMA GotoFacts ==
  ASSUME IInv, NEW c \in Client, NEW j \in Job, Goto(c, j), QueueInv',
         UNCHANGED <<disk, mem, letter, shown, told, cut, crashes>>,
         opened' \in [Client -> SUBSET MsgId]
  PROVE  job'[c] = j /\ (\A d \in Client \ {c} : job'[d] = job[d]) /\ TypeOK'
<1>1. job' = [job EXCEPT ![c] = j] /\ TypeOK
  BY DEF Goto, IInv
<1>2. job'[c] = j /\ (\A d \in Client \ {c} : job'[d] = job[d]) /\ job' \in [Client -> Job]
  BY <1>1 DEF TypeOK
<1> QED
  BY <1>1, <1>2 DEF TypeOK, QueueInv

LEMMA OnlyJob ==
  ASSUME IInv, NEW c \in Client, NEW j \in Job, Goto(c, j), QueueInv', RowsStay(c),
         UNCHANGED <<disk, mem, opened, letter, shown, told, cut, crashes>>,
         InHand(c) = {}, j.pc \notin {"store", "paste"},
         job'[c] = j => JobOk(c)'
  PROVE  IInv' /\ StepOk(c)
<1>1. opened' \in [Client -> SUBSET MsgId] /\ UNCHANGED <<disk, mem, letter, shown, told, cut, crashes>>
  BY DEF IInv, TypeOK
<1>2. job'[c] = j /\ (\A d \in Client \ {c} : job'[d] = job[d]) /\ TypeOK'
  BY <1>1, GotoFacts
<1>3. Handled(c)' = Handled(c)
  BY <1>2 DEF Handled, InHand
<1>4. \A m \in opened'[c] : letter[m] # NotWritten /\ letter[m][2] = c
  BY DEF IInv, ClientOk, OpenedOk
<1>5. /\ UNCHANGED <<disk, mem, letter, shown, cut>>
      /\ \A d \in Client \ {c} : job'[d] = job[d] /\ opened'[d] = opened[d]
  BY <1>2
<1>6. InHand(c)' = InHand(c)
  BY <1>2 DEF InHand
<1>7. ReaderOk(c)
  BY <1>5, <1>6, OwedStays
<1> QED
  BY <1>2, <1>3, <1>4, <1>5, <1>7, StandsOk, FilesStay DEF StepOk

LEMMA StatusSkipKeeps ==
  ASSUME IInv, NEW c \in Client, NEW m \in MsgId, StatusSkip(c, m)
  PROVE  IInv' /\ StepOk(c)
<1>1. PICK j : j = [job[c] EXCEPT !.todo = @ \ {m}]
  OBVIOUS
<1>2. /\ job[c].pc = "status" /\ Goto(c, j) /\ InHand(c) = {} /\ UNCHANGED queueVars
      /\ UNCHANGED <<disk, mem, opened, letter, shown, told, cut, crashes>>
  BY <1>1 DEF StatusSkip, InHand
<1>3. /\ job[c] \in Job /\ job[c].page = {} /\ Conv(c) \in Contacts
      /\ \A n \in job[c].todo : letter[n] = Conv(c)
  BY <1>2, InvFacts DEF JobOk
<1>4. j \in Job /\ j.pc = "status" /\ j.peer = job[c].peer /\ j.todo \subseteq job[c].todo /\ j.page = {}
  BY <1>1, <1>2, <1>3 DEF Job
<1>5. QueueInv' /\ RowsStay(c)
  BY <1>2, RowsSame
<1>6. ASSUME job'[c] = j PROVE JobOk(c)'
  <2>1. Conv(c)' = Conv(c)
    BY <1>4, <1>6 DEF Conv
  <2>2. PageOk(c)'
    BY <1>4, <1>6 DEF PageOk
  <2> QED
    BY <1>2, <1>3, <1>4, <1>6, <2>1, <2>2 DEF JobOk
<1> QED
  BY <1>2, <1>4, <1>5, <1>6, OnlyJob

LEMMA RetryErrKeeps ==
  ASSUME IInv, NEW c \in Client, NEW m \in MsgId, RetryErr(c, m)
  PROVE  IInv' /\ StepOk(c)
<1>1. PICK j : j = [job[c] EXCEPT !.todo = @ \ {m}]
  OBVIOUS
<1>2. /\ job[c].pc = "retry" /\ m \in job[c].todo /\ Goto(c, j) /\ InHand(c) = {}
      /\ RelayAccepts(c, m) \/ UNCHANGED queueVars
      /\ UNCHANGED <<disk, mem, opened, letter, shown, told, cut, crashes>>
  BY <1>1 DEF RetryErr, InHand
<1>3. /\ job[c] \in Job /\ job[c].page = {} /\ Conv(c) \in Contacts
      /\ \A n \in job[c].todo : letter[n] = Conv(c) /\ Hist(c).status[n] = "queued"
  BY <1>2, InvFacts DEF JobOk
<1>4. j \in Job /\ j.pc = "retry" /\ j.peer = job[c].peer /\ j.todo \subseteq job[c].todo /\ j.page = {}
  BY <1>1, <1>2, <1>3 DEF Job
<1>5. QueueInv' /\ RowsStay(c)
  <2>1. letter[m] = <<c, job[c].peer>> /\ job[c].peer \in Client /\ letter' = letter
    BY <1>2, <1>3, Running
  <2> QED
    BY <1>2, <2>1, AcceptedOk
<1>6. ASSUME job'[c] = j PROVE JobOk(c)'
  <2>1. Conv(c)' = Conv(c) /\ Hist(c)' = Hist(c)
    BY <1>2, <1>4, <1>6 DEF Conv, Hist
  <2>2. PageOk(c)'
    BY <1>4, <1>6 DEF PageOk
  <2> QED
    BY <1>2, <1>3, <1>4, <1>6, <2>1, <2>2 DEF JobOk
<1> QED
  BY <1>2, <1>4, <1>5, <1>6, OnlyJob

(* A page leaves out no row before one it has. *)
LEMMA FirstPageIsAPrefix ==
  ASSUME QueueInv, NEW t \in Client, NEW n \in Nat,
         NEW r \in Page(queue, t, n), NEW q \in Pending(queue, t, n), q.id <= r.id
  PROVE  q \in Page(queue, t, n)
<1> DEFINE S == Pending(queue, t, n)
           Upto(i) == {p \in S : p.id <= i}
<1>1. S \subseteq queue /\ \A p \in S : p.id \in Nat
  BY DEF Pending, QueueInv, QueueTypeOK, Row
<1>2. IsFiniteSet(S)
  BY <1>1, FS_Subset DEF QueueInv
<1>3. r \in S /\ Cardinality(Upto(r.id)) <= PageLimit
  BY DEF Page, FirstPage
<1>4. Upto(q.id) \subseteq Upto(r.id) /\ Upto(r.id) \subseteq S
  BY <1>1, <1>3
<1>5. IsFiniteSet(Upto(r.id))
  BY <1>2, <1>4, FS_Subset
<1>6. IsFiniteSet(Upto(q.id)) /\ Cardinality(Upto(q.id)) <= Cardinality(Upto(r.id))
  BY <1>4, <1>5, FS_Subset
<1>7. Cardinality(Upto(q.id)) \in Nat /\ Cardinality(Upto(r.id)) \in Nat
  BY <1>5, <1>6, FS_CardinalityType
<1>8. Cardinality(Upto(q.id)) <= PageLimit
  BY <1>3, <1>6, <1>7, PageLimitAssumption
<1> QED
  BY <1>8 DEF Page, FirstPage

LEMMA FetchOkKeeps ==
  ASSUME IInv, NEW c \in Client, FetchOk(c)
  PROVE  IInv' /\ StepOk(c)
<1>1. PICK k \in Contacts : k = Conv(c) /\ k[1] = c /\ k[2] = job[c].peer /\ Hist(c) = mem[k]
  BY Running DEF FetchOk
<1>2. PICK n : n = mem[k].cursor
  OBVIOUS
<1>3. PICK P : P = {q \in Page(queue, c, n) : q.from = k[2]}
  OBVIOUS
<1>4. PICK j : j = [job[c] EXCEPT !.pc = "page", !.page = P]
  OBVIOUS
<1>5. /\ job[c].pc = "retry" /\ job[c].todo = {} /\ Goto(c, j) /\ InHand(c) = {}
      /\ UNCHANGED queueVars /\ queue' = queue
      /\ UNCHANGED <<disk, mem, opened, letter, shown, told, cut, crashes>>
  BY <1>1, <1>2, <1>3, <1>4 DEF FetchOk, InHand, queueVars
<1>6. /\ TypeOK /\ QueueInv /\ job[c] \in Job /\ mem[k] \in History /\ HistOk(k, mem[k])
      /\ \A q \in queue : q \in Row /\ q.id \in Nat
  BY <1>1, InvFacts, ReceivedFacts
<1>7. n \in Nat
  BY <1>2, <1>6, HistoryFields
<1>8. P \subseteq Pending(queue, c, n) /\ Pending(queue, c, n) \subseteq queue
  BY <1>3 DEF Page, FirstPage, Pending
<1>9. \A r \in P : r \in queue /\ r.to = c /\ r.from = k[2]
  BY <1>3, <1>8 DEF Pending
<1>10. j \in Job /\ j.pc = "page" /\ j.peer = k[2] /\ j.todo = {} /\ j.page = P
  BY <1>1, <1>4, <1>5, <1>6, <1>8 DEF Job, Step
<1>11. QueueInv' /\ RowsStay(c)
  BY <1>5, RowsSame
<1>12. ASSUME NEW q \in queue, q.from = k[2], q.to = c, ~q.acked, NEW r \in P, q.id <= r.id
       PROVE  q \in P
  <2>1. ~(q.id <= n)
    BY <1>1, <1>2, <1>6, <1>12 DEF HistOk, CursorOk
  <2>2. q \in Pending(queue, c, n)
    BY <1>6, <1>7, <1>12, <2>1 DEF Pending
  <2>3. r \in Page(queue, c, n)
    BY <1>3
  <2>4. q \in Page(queue, c, n)
    BY <1>6, <1>7, <1>12, <2>2, <2>3, FirstPageIsAPrefix
  <2> QED
    BY <1>3, <1>12, <2>4
<1>13. ASSUME job'[c] = j PROVE JobOk(c)'
  <2>1. Conv(c)' = k
    BY <1>1, <1>10, <1>13, ContactFacts DEF Conv
  <2>2. PageOk(c)'
    BY <1>5, <1>9, <1>10, <1>12, <1>13 DEF PageOk
  <2> QED
    BY <1>10, <1>13, <2>1, <2>2 DEF JobOk
<1>14. j.pc \notin {"store", "paste"}
  BY <1>10
<1> QED
  BY <1>5, <1>10, <1>11, <1>13, <1>14, OnlyJob

(* The oldest message of the page and its row. *)
LEMMA PageMessage ==
  ASSUME IInv, NEW c \in Client, job[c].pc \in {"page", "store", "ack"}, job[c].page # {},
         NEW m, m = Oldest(job[c].page).mid
  PROVE  /\ m \in MsgId /\ letter[m] = <<job[c].peer, c>> /\ letter[m] # NotWritten /\ letter[m][2] = c
         /\ Oldest(job[c].page) \in job[c].page
         /\ \A r \in job[c].page : Oldest(job[c].page).id <= r.id
         /\ \E q \in queue : /\ q.id = Oldest(job[c].page).id /\ q.mid = m
                             /\ q.from = job[c].peer /\ q.to = c
<1>1. job[c].page \in SUBSET Row /\ PageOk(c) /\ job[c].peer \in Client
  BY InvFacts, JobFields DEF JobOk
<1>2. PICK o \in job[c].page : o = Oldest(job[c].page) /\ \A r \in job[c].page : o.id <= r.id
  BY <1>1, OldestRow
<1>3. PICK q \in queue : q.id = o.id /\ q.from = job[c].peer /\ q.to = c /\ q.mid = o.mid
  BY <1>1, <1>2 DEF PageOk
<1>4. letter[q.mid] = <<q.from, q.to>> /\ q.mid \in MsgId
  BY <1>3 DEF IInv, SharedOk, TypeOK, QueueTypeOK, Row
<1>5. <<job[c].peer, c>> # NotWritten /\ <<job[c].peer, c>>[2] = c
  BY <1>1, ChatAssumption
<1> QED
  BY <1>2, <1>3, <1>4, <1>5

LEMMA OpenStaleKeeps ==
  ASSUME IInv, NEW c \in Client, OpenStale(c)
  PROVE  IInv' /\ StepOk(c)
<1>1. PICK j : j = [job[c] EXCEPT !.pc = "ack"]
  OBVIOUS
<1>2. /\ job[c].pc = "page" /\ job[c].page # {} /\ Oldest(job[c].page).mid \in opened[c]
      /\ Goto(c, j) /\ InHand(c) = {} /\ UNCHANGED queueVars /\ queue' = queue
      /\ UNCHANGED <<disk, mem, opened, letter, shown, told, cut, crashes>> /\ opened' = opened
  BY <1>1 DEF OpenStale, InHand, queueVars
<1>3. job[c] \in Job /\ PageOk(c) /\ Conv(c) \in Contacts
  BY <1>2, InvFacts DEF JobOk
<1>4. j \in Job /\ j.pc = "ack" /\ j.peer = job[c].peer /\ j.page = job[c].page
  BY <1>1, <1>3 DEF Job, Step
<1>5. QueueInv' /\ RowsStay(c)
  BY <1>2, RowsSame
<1>6. ASSUME job'[c] = j PROVE JobOk(c)'
  <2>1. Conv(c)' = Conv(c)
    BY <1>4, <1>6 DEF Conv
  <2>2. PageOk(c)'
    BY <1>2, <1>3, <1>4, <1>6 DEF PageOk
  <2> QED
    BY <1>2, <1>3, <1>4, <1>6, <2>1, <2>2 DEF JobOk
<1>7. j.pc \notin {"store", "paste"}
  BY <1>4
<1> QED
  BY <1>2, <1>4, <1>5, <1>6, <1>7, OnlyJob

(* The ratchet uses up the key of m. *)
LEMMA KeyUsed ==
  ASSUME TypeOK, NEW c \in Client, NEW m \in MsgId, opened' = [opened EXCEPT ![c] = @ \cup {m}]
  PROVE  \E o \in [Client -> SUBSET MsgId] :
           /\ opened' = o /\ o[c] = opened[c] \cup {m}
           /\ \A d \in Client \ {c} : o[d] = opened[d]
<1>1. PICK o : o = [opened EXCEPT ![c] = @ \cup {m}]
  OBVIOUS
<1>2. o \in [Client -> SUBSET MsgId] /\ o[c] = opened[c] \cup {m}
      /\ \A d \in Client \ {c} : o[d] = opened[d]
  BY <1>1 DEF TypeOK
<1> QED
  BY <1>1, <1>2

(* A message is decrypted and in hand. *)
LEMMA OpenedFacts ==
  ASSUME IInv, NEW c \in Client, NEW j \in Job, Goto(c, j), UNCHANGED queueVars,
         UNCHANGED <<disk, mem, letter, shown, told, cut, crashes>>,
         InHand(c) = {}, NEW m \in MsgId, m \notin opened[c],
         letter[m] # NotWritten, letter[m][2] = c,
         NEW o \in [Client -> SUBSET MsgId], opened' = o, o[c] = opened[c] \cup {m},
         \A d \in Client \ {c} : o[d] = opened[d],
         job'[c] = j /\ opened'[c] = opened[c] \cup {m} => JobOk(c)' /\ InHand(c)' = {m}
  PROVE  IInv' /\ StepOk(c)
<1>1. QueueInv' /\ RowsStay(c)
  BY RowsSame
<1>2. /\ opened' \in [Client -> SUBSET MsgId] /\ opened'[c] = opened[c] \cup {m}
      /\ \A d \in Client \ {c} : opened'[d] = opened[d]
  OBVIOUS
<1>3. job'[c] = j /\ (\A d \in Client \ {c} : job'[d] = job[d]) /\ TypeOK'
  BY <1>1, <1>2, GotoFacts
<1>4. JobOk(c)' /\ InHand(c)' = {m}
  BY <1>2, <1>3
<1>5. Handled(c)' = Handled(c)
  BY <1>2, <1>4 DEF Handled
<1>6. \A n \in opened'[c] : letter[n] # NotWritten /\ letter[n][2] = c
  BY <1>2 DEF IInv, ClientOk, OpenedOk
<1>7. /\ UNCHANGED <<disk, mem, letter, shown, cut>>
      /\ \A d \in Client \ {c} : job'[d] = job[d] /\ opened'[d] = opened[d]
  BY <1>2, <1>3
<1>8. Owed(c)' = Owed(c) \cup {m}
  <2>1. Unsaved(c)' = Unsaved(c)
    BY <1>7 DEF Unsaved
  <2> QED
    BY <1>4, <2>1 DEF Owed
<1>9. ReaderOk(c)
  BY <1>7, <1>8 DEF ReaderOk
<1> QED
  BY <1>1, <1>3, <1>4, <1>5, <1>6, <1>7, <1>9, StandsOk, FilesStay DEF StepOk

LEMMA OpenKeeps ==
  ASSUME IInv, NEW c \in Client, Open(c)
  PROVE  IInv' /\ StepOk(c)
<1>1. PICK j : j = [job[c] EXCEPT !.pc = "store"]
  OBVIOUS
<1>2. PICK m : m = Oldest(job[c].page).mid
  OBVIOUS
<1>3. /\ job[c].pc = "page" /\ job[c].page # {} /\ m \notin opened[c]
      /\ opened' = [opened EXCEPT ![c] = @ \cup {m}]
      /\ Goto(c, j) /\ InHand(c) = {} /\ UNCHANGED queueVars /\ queue' = queue
      /\ UNCHANGED <<disk, mem, letter, shown, told, cut, crashes>>
  BY <1>1, <1>2 DEF Open, Openable, InHand, queueVars
<1>4. job[c] \in Job /\ PageOk(c) /\ Conv(c) \in Contacts
  BY <1>3, InvFacts DEF JobOk
<1>5. m \in MsgId /\ letter[m] # NotWritten /\ letter[m][2] = c
  BY <1>2, <1>3, PageMessage
<1>6. j \in Job /\ j.pc = "store" /\ j.peer = job[c].peer /\ j.page = job[c].page
  BY <1>1, <1>4 DEF Job, Step
<1>7. ASSUME job'[c] = j, opened'[c] = opened[c] \cup {m} PROVE JobOk(c)' /\ InHand(c)' = {m}
  <2>1. Conv(c)' = Conv(c)
    BY <1>6, <1>7 DEF Conv
  <2>2. PageOk(c)'
    BY <1>3, <1>4, <1>6, <1>7 DEF PageOk
  <2>3. JobOk(c)'
    BY <1>2, <1>3, <1>4, <1>6, <1>7, <2>1, <2>2 DEF JobOk
  <2>4. InHand(c)' = {m}
    BY <1>2, <1>6, <1>7 DEF InHand
  <2> QED
    BY <2>3, <2>4
<1>8. PICK o \in [Client -> SUBSET MsgId] :
        /\ opened' = o /\ o[c] = opened[c] \cup {m} /\ \A d \in Client \ {c} : o[d] = opened[d]
  BY <1>3, <1>5, InvFacts, KeyUsed
<1>9. /\ Goto(c, j) /\ UNCHANGED queueVars /\ InHand(c) = {} /\ m \notin opened[c]
      /\ UNCHANGED <<disk, mem, letter, shown, told, cut, crashes>> /\ j \in Job
  BY <1>3, <1>6
<1> QED
  BY <1>5, <1>7, <1>8, <1>9, OpenedFacts

LEMMA PasteOpenKeeps ==
  ASSUME IInv, NEW c \in Client, NEW p \in Client, NEW m \in MsgId, <<c, p>> \in Contacts,
         PasteOpen(c, p, m)
  PROVE  IInv' /\ StepOk(c)
<1>1. PICK j : j = NewJob("paste", p, {m})
  OBVIOUS
<1>2. /\ job[c].pc = "idle" /\ letter[m] = <<p, c>> /\ m \notin opened[c]
      /\ opened' = [opened EXCEPT ![c] = @ \cup {m}]
      /\ Goto(c, j) /\ InHand(c) = {} /\ UNCHANGED queueVars
      /\ UNCHANGED <<disk, mem, letter, shown, told, cut, crashes>>
  BY <1>1 DEF PasteOpen, Openable, InHand
<1>3. letter[m] # NotWritten /\ letter[m][2] = c
  BY <1>2, ChatAssumption
<1>4. j \in Job /\ j.pc = "paste" /\ j.peer = p /\ j.todo = {m} /\ j.page = {}
  BY <1>1 DEF NewJob, Job, Step
<1>5. ASSUME job'[c] = j, opened'[c] = opened[c] \cup {m} PROVE JobOk(c)' /\ InHand(c)' = {m}
  <2>1. Conv(c)' = <<c, p>>
    BY <1>4, <1>5 DEF Conv
  <2>2. PageOk(c)'
    BY <1>4, <1>5 DEF PageOk
  <2>3. JobOk(c)'
    BY <1>2, <1>4, <1>5, <2>1, <2>2 DEF JobOk
  <2>4. InHand(c)' = {m}
    BY <1>4, <1>5 DEF InHand
  <2> QED
    BY <2>3, <2>4
<1>6. PICK o \in [Client -> SUBSET MsgId] :
        /\ opened' = o /\ o[c] = opened[c] \cup {m} /\ \A d \in Client \ {c} : o[d] = opened[d]
  BY <1>2, InvFacts, KeyUsed
<1>7. /\ Goto(c, j) /\ UNCHANGED queueVars /\ InHand(c) = {} /\ m \notin opened[c]
      /\ UNCHANGED <<disk, mem, letter, shown, told, cut, crashes>> /\ j \in Job
  BY <1>2, <1>4
<1> QED
  BY <1>3, <1>5, <1>6, <1>7, OpenedFacts

-----------------------------------------------------------------------------
(* The message in hand is stored. *)
LEMMA DeliverOk ==
  ASSUME IInv, NEW c \in Client, NEW k \in Contacts, k[1] = c, NEW e \in Entry,
         InHand(c) = {e.mid}, letter[e.mid] = <<k[2], c>>,
         NEW h, h \in {Loaded(k), mem[k]}, NEW g, g = [h EXCEPT !.inbox = Append(@, e)],
         NEW j \in Job, j.pc \notin {"store", "paste"}, Tried(c, k, g, j),
         UNCHANGED queueVars, opened' = opened, letter' = letter, told' = told,
         e.via = "relay" =>
           /\ \E q \in queue : q.mid = e.mid
           /\ \A q \in queue : q.mid = e.mid =>
                \A p \in queue : p.from = k[2] /\ p.to = k[1] /\ p.id < q.id => p.mid \in opened[c],
         job'[c] = j => JobOk(c)'
  PROVE  IInv' /\ StepOk(c)
<1>1. /\ h \in History /\ HistOk(k, h) /\ Received(h) = Received(mem[k]) /\ Ahead(disk[k], h)
      /\ \A m \in Received(h) : m \in Handled(c) /\ m \in opened[c] /\ letter[m] = <<k[2], c>>
  BY LoadedFacts
<1>2. /\ g \in History /\ Received(g) = Received(h) \cup {e.mid}
      /\ \A d \in History : Ahead(d, h) => Ahead(d, g)
  BY <1>1, EntryAppended
<1>3. e.mid \in opened[c] /\ e.mid \notin Handled(c)
  BY InvFacts, InHandType DEF Handled
<1>4. QueueInv' /\ RowsStay(c) /\ queue' = queue
  BY RowsSame DEF queueVars
<1>5. \A m \in Received(g) : m \in opened[c] /\ letter[m] = <<k[2], c>>
  BY <1>1, <1>2, <1>3
<1>6. /\ Frame(c) /\ Handled(c)' = opened[c] /\ InHand(c)' = {}
      /\ job'[c] = Idle(c) \/ (job'[c] = j /\ mem'[k] = g)
      /\ job' \in [Client -> Job]
      /\ mem' \in [Contacts -> History] /\ disk' \in [Contacts -> History]
      /\ shown' \in SUBSET MsgId /\ cut' \in SUBSET MsgId /\ crashes' \in Nat
  <2>1. PICK f \in History : f = g
    BY <1>2
  <2>2. /\ RowsStay(c) /\ Tried(c, k, f, j) /\ UNCHANGED opened
        /\ \A m \in MsgId : letter[m] # NotWritten => letter'[m] = letter[m]
        /\ \A m \in Received(f) : m \in opened[c] /\ letter[m] = <<k[2], c>>
    BY <1>4, <1>5, <2>1
  <2>3. /\ Frame(c) /\ Handled(c)' = opened[c] /\ InHand(c)' = {}
        /\ job'[c] = Idle(c) \/ (job'[c] = j /\ mem'[k] = f)
        /\ job' \in [Client -> Job]
        /\ mem' \in [Contacts -> History] /\ disk' \in [Contacts -> History]
        /\ shown' \in SUBSET MsgId /\ cut' \in SUBSET MsgId /\ crashes' \in Nat
    BY <2>2, TriedFrame
  <2> QED
    BY <2>1, <2>3
<1>7. TypeOK'
  BY <1>4, <1>6 DEF IInv, TypeOK, QueueInv
<1>8. HistOk(k, h)'
  BY <1>1, <1>4, <1>6, HistStays DEF Frame, NewsOk
<1>9. ASSUME NEW q \in queue, q.mid = e.mid, NEW i \in DOMAIN h.inbox, h.inbox[i].via = "relay",
             NEW p \in queue, p.mid = h.inbox[i].mid
      PROVE  p.id < q.id
  <2>1. q.from = k[2] /\ q.to = c
    <3>1. letter[q.mid] = <<q.from, q.to>>
      BY DEF IInv, SharedOk
    <3> QED
      BY <1>9, <3>1
  <2>2. p.id \in Nat /\ q.id \in Nat /\ (p.id = q.id => p = q)
    BY InvFacts DEF QueueInv, IdsAreKeys
  <2>3. ~(q.id < p.id)
    <3>1. \A o \in queue : o.from = k[2] /\ o.to = k[1] /\ o.id < p.id => o.mid \in Handled(k[1])
      BY <1>1, <1>9 DEF HistOk, OrderOk
    <3> QED
      BY <1>3, <1>9, <2>1, <3>1
  <2>4. h.inbox[i].mid \in Handled(c)
    BY <1>1 DEF Received
  <2> QED
    BY <1>3, <1>9, <2>2, <2>3, <2>4
<1>10. e.via = "relay" =>
           /\ \E q \in queue' : q.mid = e.mid
           /\ \A q \in queue' : q.mid = e.mid =>
                /\ \A i \in DOMAIN h.inbox : h.inbox[i].via = "relay" =>
                     \A p \in queue' : p.mid = h.inbox[i].mid => p.id < q.id
                /\ \A p \in queue' : p.from = k[2] /\ p.to = k[1] /\ p.id < q.id =>
                     p.mid \in Handled(k[1])'
  BY <1>4, <1>6, <1>9
<1>11. e.mid \in Handled(k[1])' /\ letter'[e.mid] = <<k[2], k[1]>>
  BY <1>3, <1>6
<1>12. HistOk(k, g)'
  BY <1>1, <1>8, <1>10, <1>11, InboxAppended
<1>13. Ahead(disk[k], g)
  <2>1. disk[k] \in History
    BY DEF IInv, TypeOK
  <2> QED
    BY <1>1, <1>2, <2>1
<1>14. JobOk(c)'
  BY <1>6, IdleOk
<1>15. /\ \A m \in Received(mem[k]) : m \in Received(g) \cup shown
       /\ InHand(c) \subseteq Received(g)
       /\ Received(g) \subseteq Received(mem[k]) \cup InHand(c)
       /\ UNCHANGED opened
  BY <1>1, <1>2
<1> QED
  BY <1>2, <1>4, <1>5, <1>6, <1>7, <1>12, <1>13, <1>14, <1>15, TriedOk

LEMMA StoreKeeps ==
  ASSUME IInv, NEW c \in Client, Store(c)
  PROVE  IInv' /\ StepOk(c)
<1>1. /\ job[c].pc = "store" /\ UNCHANGED queueVars /\ queue' = queue
      /\ opened' = opened /\ letter' = letter /\ told' = told
  BY DEF Store, queueVars
<1>2. PICK k \in Contacts : k = Conv(c) /\ k[1] = c /\ k[2] = job[c].peer /\ Hist(c) = mem[k]
  BY <1>1, Running
<1>3. PICK m : m = Oldest(job[c].page).mid
  OBVIOUS
<1>4. PICK o : o = Oldest(job[c].page)
  OBVIOUS
<1>5. PICK j : j = [job[c] EXCEPT !.pc = "ack"]
  OBVIOUS
<1>6. PICK h : h = mem[k]
  OBVIOUS
<1>7. PICK e : e = [mid |-> m, via |-> "relay"]
  OBVIOUS
<1>8. PICK g : g = [h EXCEPT !.inbox = Append(@, e)]
  OBVIOUS
<1>9. /\ job[c] \in Job /\ PageOk(c) /\ job[c].page # {} /\ m \in opened[c] /\ QueueInv
      /\ \A q \in queue : q.id \in Nat
  BY <1>1, <1>3, InvFacts DEF JobOk
<1>10. /\ m \in MsgId /\ letter[m] = <<k[2], c>>
       /\ o \in job[c].page /\ \A r \in job[c].page : o.id <= r.id
       /\ \E q \in queue : q.id = o.id /\ q.mid = m /\ q.from = k[2] /\ q.to = c
  BY <1>1, <1>2, <1>3, <1>4, <1>9, PageMessage
<1>11. e \in Entry /\ e.mid = m /\ e.via = "relay"
  BY <1>7, <1>10 DEF Entry
<1>12. InHand(c) = {e.mid}
  BY <1>1, <1>3, <1>11 DEF InHand
<1>13. m \notin Received(h)
  <2>1. \A n \in Received(h) : n \in Handled(c)
    BY <1>2, <1>6, LoadedFacts
  <2> QED
    BY <1>11, <1>12, <2>1 DEF Handled
<1>14. Tried(c, k, g, j)
  <2>1. Deliver(c, m, "relay", j)
    BY <1>3, <1>5 DEF Store
  <2> QED
    BY <1>1, <1>2, <1>6, <1>7, <1>8, <1>13, <2>1 DEF Deliver, Tried
<1>15. j \in Job /\ j.pc = "ack" /\ j.peer = job[c].peer /\ j.page = job[c].page
  BY <1>5, <1>9 DEF Job, Step
<1>16. ASSUME NEW q \in queue, q.mid = m,
              NEW p \in queue, p.from = k[2], p.to = c, p.id < q.id
       PROVE  p.mid \in opened[c]
  <2>1. PICK q0 \in queue : q0.id = o.id /\ q0.mid = m /\ q0.from = k[2] /\ q0.to = c
    BY <1>10
  <2>2. q = q0
    <3>1. letter[q.mid] = <<q.from, q.to>>
      BY DEF IInv, SharedOk
    <3>2. q.from = k[2] /\ q.to = c
      BY <1>10, <1>16, <3>1
    <3> QED
      BY <1>9, <1>16, <2>1, <3>2 DEF QueueInv, OneRowPerSubmission
  <2>3. p.acked
    <3> SUFFICES ASSUME ~p.acked PROVE FALSE
      OBVIOUS
    <3>1. p.id \in Nat /\ o.id \in Nat /\ p.id < o.id
      BY <1>9, <1>16, <2>1, <2>2
    <3>2. PICK s \in job[c].page : s.id = p.id
      BY <1>2, <1>9, <1>10, <1>16, <3>1 DEF PageOk
    <3> QED
      BY <1>10, <3>1, <3>2
  <2>4. p.mid \in Handled(c)
    BY <1>16, <2>3 DEF IInv, SharedOk
  <2> QED
    BY <2>4 DEF Handled
<1>17. e.via = "relay" =>
         /\ \E q \in queue : q.mid = e.mid
         /\ \A q \in queue : q.mid = e.mid =>
              \A p \in queue : p.from = k[2] /\ p.to = k[1] /\ p.id < q.id => p.mid \in opened[c]
  BY <1>2, <1>10, <1>11, <1>16
<1>18. ASSUME job'[c] = j PROVE JobOk(c)'
  <2>1. Conv(c)' = Conv(c)
    BY <1>15, <1>18 DEF Conv
  <2>2. PageOk(c)'
    BY <1>1, <1>9, <1>15, <1>18 DEF PageOk
  <2> QED
    BY <1>1, <1>2, <1>3, <1>9, <1>15, <1>18, <2>1, <2>2 DEF JobOk
<1>19. j.pc \notin {"store", "paste"} /\ h \in {Loaded(k), mem[k]} /\ letter[e.mid] = <<k[2], c>>
  BY <1>6, <1>10, <1>11, <1>15
<1> QED
  BY <1>1, <1>2, <1>8, <1>11, <1>12, <1>14, <1>15, <1>17, <1>18, <1>19, DeliverOk

LEMMA PasteStoreKeeps ==
  ASSUME IInv, NEW c \in Client, PasteStore(c)
  PROVE  IInv' /\ StepOk(c)
<1>1. /\ job[c].pc = "paste" /\ UNCHANGED queueVars
      /\ opened' = opened /\ letter' = letter /\ told' = told
  BY DEF PasteStore
<1>2. PICK k \in Contacts : k = Conv(c) /\ k[1] = c /\ k[2] = job[c].peer
  BY <1>1, Running
<1>3. PICK m \in opened[c] : job[c].todo = {m} /\ letter[m] = <<k[2], c>>
  BY <1>1, <1>2, InvFacts DEF JobOk
<1>4. PICK j : j = Idle(c)
  OBVIOUS
<1>5. PICK h : h = Loaded(k)
  OBVIOUS
<1>6. PICK e : e = [mid |-> m, via |-> "paste"]
  OBVIOUS
<1>7. PICK g : g = [h EXCEPT !.inbox = Append(@, e)]
  OBVIOUS
<1>8. m \in MsgId
  BY <1>3, InvFacts
<1>9. e \in Entry /\ e.mid = m /\ e.via = "paste"
  BY <1>6, <1>8 DEF Entry
<1>10. InHand(c) = {e.mid}
  BY <1>1, <1>3, <1>9 DEF InHand
<1>11. m \notin Received(h)
  <2>1. \A n \in Received(h) : n \in Handled(c)
    BY <1>2, <1>5, LoadedFacts
  <2> QED
    BY <1>9, <1>10, <2>1 DEF Handled
<1>12. Tried(c, k, g, j)
  <2>1. Deliver(c, m, "paste", j)
    BY <1>3, <1>4 DEF PasteStore
  <2> QED
    BY <1>1, <1>2, <1>5, <1>6, <1>7, <1>11, <2>1 DEF Deliver, Tried
<1>13. j \in Job /\ j.pc \notin {"store", "paste"}
  BY <1>4, IdleType
<1>14. job'[c] = j => JobOk(c)'
  BY <1>4, IdleOk
<1>15. h \in {Loaded(k), mem[k]} /\ letter[e.mid] = <<k[2], c>> /\ e.via # "relay"
  BY <1>3, <1>5, <1>9
<1> QED
  BY <1>1, <1>2, <1>7, <1>9, <1>10, <1>12, <1>13, <1>14, <1>15, DeliverOk

-----------------------------------------------------------------------------
LEMMA InitInv == Init => IInv
<1> SUFFICES ASSUME Init PROVE IInv
  OBVIOUS
<1> DEFINE h == EmptyHistory
<1>1. /\ QueueInit /\ shown = {} /\ told = {} /\ cut = {} /\ crashes = 0
      /\ \A k \in Contacts : disk[k] = h /\ mem[k] = h
      /\ disk = [k \in Contacts |-> h] /\ mem = [k \in Contacts |-> h]
      /\ opened = [c \in Client |-> {}] /\ job = [c \in Client |-> Idle(c)]
      /\ letter = [m \in MsgId |-> NotWritten] /\ queue = {} /\ nextId = 1
  BY DEF Init, QueueInit
<1>2. h \in History /\ Received(h) = {} /\ h.inbox = <<>> /\ h.cursor = 0
      /\ \A m \in MsgId : h.status[m] = "none"
  BY EmptyHistoryIs
<1> HIDE DEF h
<1>3. QueueInv
  BY <1>1, QueueInitInv
<1>4. TypeOK
  BY <1>1, <1>2, <1>3, IdleType DEF TypeOK, QueueInv
<1>5. SharedOk
  BY <1>1 DEF SharedOk
<1>6. ASSUME NEW c \in Client PROVE ClientOk(c)
  <2>1. job[c] = Idle(c) /\ opened[c] = {}
    BY <1>1
  <2>2. job[c].pc = "idle" /\ job[c].todo = {} /\ job[c].page = {}
    BY <2>1 DEF Idle, NewJob
  <2>3. JobOk(c)
    BY <2>2 DEF JobOk, PageOk
  <2>4. OpenedOk(c)
    BY <2>1 DEF OpenedOk, Handled
  <2>5. ASSUME NEW k \in Contacts PROVE ConvOk(k)
    <3>1. HistOk(k, h)
      <4>1. OwnOk(k, h)
        BY <1>2 DEF OwnOk
      <4>2. CursorOk(k, h)
        BY <1>1, <1>2 DEF CursorOk
      <4>3. InboxOk(k, h)
        BY <1>2 DEF InboxOk
      <4>4. OrderOk(k, h)
        BY <1>2 DEF OrderOk
      <4> QED
        BY <4>1, <4>2, <4>3, <4>4 DEF HistOk
    <3>2. Ahead(h, h)
      BY <1>2, RankType DEF Ahead
    <3> QED
      BY <1>1, <1>2, <3>1, <3>2 DEF ConvOk
  <2> QED
    BY <2>3, <2>4, <2>5 DEF ClientOk, ConvsOk
<1> QED
  BY <1>3, <1>4, <1>5, <1>6 DEF IInv

(* Nothing happens. *)
LEMMA StutterKeeps ==
  ASSUME IInv, UNCHANGED vars
  PROVE  IInv'
<1>1. /\ queue' = queue /\ nextId' = nextId /\ disk' = disk /\ mem' = mem /\ opened' = opened
      /\ job' = job /\ letter' = letter /\ shown' = shown /\ told' = told /\ cut' = cut
      /\ crashes' = crashes
  BY DEF vars
<1>2. TypeOK' /\ QueueInv'
  BY <1>1 DEF IInv, TypeOK, QueueInv, QueueTypeOK, OneRowPerSubmission, IdsAreKeys
<1>3. ASSUME NEW c \in Client PROVE IInv'
  <2>1. UNCHANGED queueVars
    BY <1>1 DEF queueVars
  <2>2. RowsStay(c)
    BY <2>1, RowsSame
  <2>3. Handled(c)' = Handled(c) /\ JobOk(c)'
    <3>1. InHand(c)' = InHand(c) /\ Conv(c)' = Conv(c) /\ Hist(c)' = Hist(c)
      BY <1>1 DEF InHand, Conv, Hist
    <3>2. PageOk(c)'
      BY <1>1, InvFacts DEF JobOk, PageOk
    <3> QED
      BY <1>1, <3>1, <3>2, InvFacts DEF Handled, JobOk
  <2>4. \A m \in opened'[c] : letter[m] # NotWritten /\ letter[m][2] = c
    BY <1>1 DEF IInv, ClientOk, OpenedOk
  <2> QED
    BY <1>1, <1>2, <2>2, <2>3, <2>4, StandsOk
<1>4. ASSUME Client = {} PROVE IInv'
  <2>1. SharedOk'
    BY <1>1, <1>4 DEF IInv, SharedOk
  <2> QED
    BY <1>2, <1>4, <2>1 DEF IInv
<1> QED
  BY <1>3, <1>4

LEMMA StartKeeps ==
  ASSUME IInv, NEW c \in Client, NEW p \in Client, <<c, p>> \in Contacts, Start(c, p)
  PROVE  IInv' /\ StepOk(c)
<1>1. CASE StartPoll(c, p)
  BY <1>1, StartPollKeeps
<1>2. CASE DeleteHistory(c, p)
  BY <1>2, DeleteHistoryKeeps
<1>3. ASSUME NEW m \in MsgId, Compose(c, p, m) PROVE IInv' /\ StepOk(c)
  BY <1>3, ComposeKeeps
<1>4. ASSUME NEW m \in MsgId, PasteSend(c, p, m) PROVE IInv' /\ StepOk(c)
  BY <1>4, PasteSendKeeps
<1>5. ASSUME NEW m \in MsgId, PasteOpen(c, p, m) PROVE IInv' /\ StepOk(c)
  BY <1>5, PasteOpenKeeps
<1>6. ASSUME NEW m \in MsgId, PasteErr(c, p, m) PROVE IInv' /\ StepOk(c)
  BY <1>6, PasteErrKeeps
<1> QED
  BY <1>1, <1>2, <1>3, <1>4, <1>5, <1>6 DEF Start

LEMMA PollKeeps ==
  ASSUME IInv, NEW c \in Client, Poll(c)
  PROVE  IInv' /\ StepOk(c)
<1>1. ASSUME NEW m \in MsgId, StatusRead(c, m) PROVE IInv' /\ StepOk(c)
  BY <1>1, StatusReadKeeps
<1>2. ASSUME NEW m \in MsgId, StatusSkip(c, m) PROVE IInv' /\ StepOk(c)
  BY <1>2, StatusSkipKeeps
<1>3. ASSUME NEW m \in MsgId, RetryOk(c, m) PROVE IInv' /\ StepOk(c)
  BY <1>3, RetryOkKeeps
<1>4. ASSUME NEW m \in MsgId, RetryErr(c, m) PROVE IInv' /\ StepOk(c)
  BY <1>4, RetryErrKeeps
<1>5. CASE StatusDone(c)
  BY <1>5, StatusDoneKeeps
<1>6. CASE FetchOk(c)
  BY <1>6, FetchOkKeeps
<1>7. CASE FetchErr(c)
  BY <1>7, FetchErrKeeps
<1>8. CASE Open(c)
  BY <1>8, OpenKeeps
<1>9. CASE OpenStale(c)
  BY <1>9, OpenStaleKeeps
<1>10. CASE OpenErr(c)
  BY <1>10, OpenErrKeeps
<1>11. CASE Store(c)
  BY <1>11, StoreKeeps
<1>12. CASE AckOk(c)
  BY <1>12, AckOkKeeps
<1>13. CASE AckErr(c)
  BY <1>13, AckErrKeeps
<1>14. CASE FinishPoll(c)
  BY <1>14, FinishPollKeeps
<1>15. CASE StoreErr(c)
  BY <1>15, StoreErrKeeps
<1> QED
  BY <1>1, <1>2, <1>3, <1>4, <1>5, <1>6, <1>7, <1>8, <1>9, <1>10, <1>11, <1>12, <1>13, <1>14,
     <1>15 DEF Poll

(* Every action keeps the invariant, and is one of a single client. *)
LEMMA NextKeeps ==
  ASSUME IInv, Next
  PROVE  IInv' /\ \E c \in Client : StepOk(c)
<1>1. ASSUME NEW k \in Contacts, Start(k[1], k[2]) PROVE IInv' /\ \E c \in Client : StepOk(c)
  <2>1. PICK c \in Client : c = k[1]
    BY ContactFacts
  <2>2. PICK p \in Client : p = k[2]
    BY ContactFacts
  <2>3. <<c, p>> \in Contacts /\ Start(c, p)
    BY <1>1, <2>1, <2>2, ContactFacts
  <2> QED
    BY <2>3, StartKeeps
<1>2. ASSUME NEW c \in Client, SendText(c) PROVE IInv' /\ StepOk(c)
  BY <1>2, SubmitOkKeeps, SubmitErrKeeps DEF SendText
<1>3. ASSUME NEW c \in Client, Poll(c) PROVE IInv' /\ StepOk(c)
  BY <1>3, PollKeeps
<1>4. ASSUME NEW c \in Client, Paste(c) PROVE IInv' /\ StepOk(c)
  BY <1>4, PasteStoreKeeps, PasteStoreErrKeeps DEF Paste
<1>5. ASSUME NEW c \in Client, Crash(c) PROVE IInv' /\ StepOk(c)
  BY <1>5, CrashKeeps
<1> QED
  BY <1>1, <1>2, <1>3, <1>4, <1>5 DEF Next

LEMMA StepKeeps == IInv /\ [Next]_vars => IInv'
  BY NextKeeps, StutterKeeps

(* The inductive invariant. *)
THEOREM Invariance == Spec => []IInv
  BY InitInv, StepKeeps, PTL DEF Spec

-----------------------------------------------------------------------------
(* Every history, job and ratchet has its type: ChatDelivery's variables   *)
(* for the structs of chat_service.rs and history.rs.                      *)
THEOREM TypeCorrect == Spec => []TypeOK
<1>1. IInv => TypeOK
  BY DEF IInv
<1> QED
  BY Invariance, <1>1, PTL

(* An entry is "sent" or "read" only if the relay holds the message: no    *)
(* failed or unanswered submission is taken for an acceptance.             *)
THEOREM SentAreHeld == Spec => []SentIsHeld
<1>1. IInv => SentIsHeld
  <2> SUFFICES ASSUME IInv, NEW k \in Contacts, NEW m \in MsgId,
                      disk[k].status[m] \in {"sent", "read"} \/ mem[k].status[m] \in {"sent", "read"}
               PROVE  Stored(k[1], k[2], m)
    BY DEF SentIsHeld
  <2>1. OwnOk(k, disk[k]) /\ OwnOk(k, mem[k])
    BY ContactFacts DEF IInv, ClientOk, ConvsOk, ConvOk, HistOk
  <2> QED
    BY <2>1 DEF OwnOk
<1> QED
  BY Invariance, <1>1, PTL

(* No saved or remembered cursor is past a message of that peer that is    *)
(* not acknowledged, whatever crashes or fails between the two.            *)
THEOREM CursorsSkipNothing == Spec => []CursorSkipsNothing
<1>1. IInv => CursorSkipsNothing
  <2> SUFFICES ASSUME IInv, NEW k \in Contacts, NEW q \in queue, q.to = k[1], q.from = k[2],
                      q.id <= disk[k].cursor \/ q.id <= mem[k].cursor
               PROVE  q.acked
    BY DEF CursorSkipsNothing
  <2>1. CursorOk(k, disk[k]) /\ CursorOk(k, mem[k])
    BY ContactFacts DEF IInv, ClientOk, ConvsOk, ConvOk, HistOk
  <2> QED
    BY <2>1 DEF CursorOk
<1> QED
  BY Invariance, <1>1, PTL

(* What is acknowledged has been handled by its recipient. *)
LEMMA AckedIsKnown ==
  ASSUME IInv, NEW q \in queue, q.acked
  PROVE  q.mid \in shown \cup cut \cup Unsaved(q.to)
<1>1. PICK c \in Client : c = q.to
  BY DEF IInv, TypeOK, QueueTypeOK, Row
<1>2. q.mid \in Handled(c)
  BY <1>1 DEF IInv, SharedOk
<1>3. q.mid \in shown \cup cut \cup Unsaved(c)
  BY <1>2 DEF IInv, ClientOk, OpenedOk
<1> QED
  BY <1>1, <1>3

-----------------------------------------------------------------------------
(***************************************************************************)
(* A run without a crash or a failing save: whatever is received is in the *)
(* file, and only what is no text is lost.                                 *)
(***************************************************************************)
Calm == crashes = 0 =>
  /\ cut \subseteq Foreign
  /\ \A k \in Contacts : Received(mem[k]) \subseteq shown

(* What a step may add to the memory and to the losses, unless it fails. *)
Tame ==
  crashes' = crashes =>
    /\ \A m \in cut' : m \in cut \cup Foreign \/ \E c \in Client : m \in Unsaved(c)
    /\ \A k \in Contacts :
         Received(mem'[k]) \subseteq Received(mem[k]) \cup Received(disk[k]) \cup shown'
    /\ shown \subseteq shown'

LEMMA SavedTame ==
  ASSUME IInv, NEW k \in Contacts, NEW c, NEW h, NEW j, Saved(c, k, h, j)
  PROVE  Tame
<1>1. /\ mem' = [mem EXCEPT ![k] = h] /\ shown' = shown \cup Received(h) /\ cut' = cut
      /\ mem \in [Contacts -> History]
  BY DEF Saved, Save, IInv, TypeOK
<1>2. \A x \in Contacts : mem'[x] = IF x = k THEN h ELSE mem[x]
  BY <1>1
<1> QED
  BY <1>1, <1>2 DEF Tame

LEMMA RememberTame ==
  ASSUME IInv, NEW k \in Contacts, NEW h, Remember(k, h), UNCHANGED cut,
         Received(h) \subseteq Received(mem[k])
  PROVE  Tame
<1>1. /\ mem' = [mem EXCEPT ![k] = h] /\ shown' = shown /\ cut' = cut
      /\ mem \in [Contacts -> History]
  BY DEF Remember, IInv, TypeOK
<1>2. \A x \in Contacts : mem'[x] = IF x = k THEN h ELSE mem[x]
  BY <1>1
<1> QED
  BY <1>1, <1>2 DEF Tame

(* A failing step has been counted. *)
LEMMA MishapTame ==
  ASSUME IInv, Mishap
  PROVE  Tame
<1>1. crashes \in Nat /\ crashes' = crashes + 1
  BY DEF IInv, TypeOK, Mishap
<1> QED
  BY <1>1 DEF Tame

LEMMA FailTame ==
  ASSUME IInv, NEW c, NEW k, NEW h, SaveFails(c, k, h) \/ SaveEnds(c, h)
  PROVE  Tame
  BY MishapTame DEF SaveFails, SaveEnds

LEMMA ReturnTame ==
  ASSUME IInv, NEW c \in Client, Conv(c) \in Contacts, NEW h, c \in Terminal => h = Hist(c),
         Return(c, h), \A m \in cut' : m \in cut \cup Foreign
  PROVE  Tame
<1>1. PICK k \in Contacts : k = Conv(c)
  OBVIOUS
<1>2. /\ mem' = [mem EXCEPT ![k] = IF c \in Terminal THEN mem[k] ELSE disk[k]]
      /\ shown' = shown /\ mem \in [Contacts -> History]
  BY <1>1 DEF Return, Hist, IInv, TypeOK
<1>3. \A x \in Contacts : mem'[x] = mem[x] \/ mem'[x] = disk[x]
  BY <1>2
<1> QED
  BY <1>2, <1>3 DEF Tame

LEMMA QuitTame ==
  ASSUME IInv, NEW c \in Client, NEW X, X \subseteq Foreign, Quit(c, X)
  PROVE  Tame
<1>1. /\ mem' = [k \in Contacts |-> IF k[1] = c THEN disk[k] ELSE mem[k]]
      /\ cut' = cut \cup X \cup Unsaved(c) /\ shown' = shown
  BY DEF Quit
<1>2. \A x \in Contacts : mem'[x] = mem[x] \/ mem'[x] = disk[x]
  BY <1>1
<1> QED
  BY <1>1, <1>2 DEF Tame

LEMMA StandTame ==
  ASSUME UNCHANGED <<mem, shown, cut>>
  PROVE  Tame
  BY DEF Tame

LEMMA UnreadableTame ==
  ASSUME IInv, NEW c \in Client, job[c].pc # "idle", NEW m, NEW h, c \in Terminal => h = Hist(c),
         Unreadable(c, m, h)
  PROVE  Tame
<1>1. m \in Foreign /\ {m} \subseteq Foreign
  BY DEF Unreadable
<1>2. CASE Return(c, h) /\ cut' = cut \cup {m}
  BY <1>1, <1>2, Running, ReturnTame
<1>3. CASE Quit(c, {m})
  BY <1>1, <1>3, QuitTame
<1> QED
  BY <1>2, <1>3 DEF Unreadable

LEMMA DeliverTame ==
  ASSUME IInv, NEW c \in Client, job[c].pc # "idle", NEW m, NEW via, NEW j, Deliver(c, m, via, j)
  PROVE  Tame
<1>1. PICK k \in Contacts : k = Conv(c) /\ k[1] = c
  BY Running
<1>2. PICK h : h = IF job[c].pc = "paste" THEN Loaded(k) ELSE mem[k]
  OBVIOUS
<1>3. PICK g : g = [h EXCEPT !.inbox = Append(@, [mid |-> m, via |-> via])]
  OBVIOUS
<1>4. \/ Remember(k, h) /\ UNCHANGED cut
      \/ Saved(c, k, g, j) \/ SaveFails(c, k, g) \/ SaveEnds(c, g)
  BY <1>1, <1>2, <1>3 DEF Deliver
<1>5. Received(h) = Received(mem[k])
  BY <1>1, <1>2, LoadedFacts
<1> QED
  BY <1>4, <1>5, SavedTame, RememberTame, FailTame

LEMMA StartTame ==
  ASSUME IInv, NEW c \in Client, NEW p \in Client, <<c, p>> \in Contacts, Start(c, p)
  PROVE  Tame
<1>1. PICK k \in Contacts : k = <<c, p>> /\ k[1] = c
  OBVIOUS
<1>2. CASE StartPoll(c, p)
  <2>1. PICK h : h = Loaded(k)
    OBVIOUS
  <2>2. Remember(k, h) /\ Received(h) = Received(mem[k]) /\ UNCHANGED cut
    BY <1>1, <1>2, <2>1, LoadedFacts DEF StartPoll
  <2> QED
    BY <2>2, RememberTame
<1>3. CASE DeleteHistory(c, p)
  BY <1>1, <1>3, SavedTame DEF DeleteHistory
<1>4. ASSUME NEW m \in MsgId, Compose(c, p, m) PROVE Tame
  BY <1>1, <1>4, SavedTame, FailTame DEF Compose
<1>5. ASSUME NEW m \in MsgId, PasteSend(c, p, m) PROVE Tame
  BY <1>1, <1>5, SavedTame, FailTame DEF PasteSend
<1>6. ASSUME NEW m \in MsgId, PasteOpen(c, p, m) PROVE Tame
  BY <1>6, StandTame DEF PasteOpen
<1>7. ASSUME NEW m \in MsgId, PasteErr(c, p, m) PROVE Tame
  <2>1. PICK X : X = {}
    OBVIOUS
  <2>2. Quit(c, X) /\ X \subseteq Foreign
    BY <1>7, <2>1 DEF PasteErr
  <2> QED
    BY <2>2, QuitTame
<1> QED
  BY <1>2, <1>3, <1>4, <1>5, <1>6, <1>7 DEF Start

LEMMA SendTame ==
  ASSUME IInv, NEW c \in Client, SendText(c)
  PROVE  Tame
<1>1. job[c].pc # "idle"
  BY DEF SendText, SubmitOk, SubmitErr
<1>2. CASE SubmitOk(c)
  <2>1. \E h, j : Saved(c, Conv(c), h, j) \/ SaveFails(c, Conv(c), h)
    BY <1>2 DEF SubmitOk
  <2> QED
    BY <1>1, <2>1, Running, SavedTame, FailTame
<1>3. CASE SubmitErr(c)
  BY <1>1, <1>3, Running, ReturnTame DEF SubmitErr
<1> QED
  BY <1>2, <1>3 DEF SendText

LEMMA PollTame ==
  ASSUME IInv, NEW c \in Client, Poll(c)
  PROVE  Tame
<1>1. job[c].pc # "idle"
  BY DEF Poll, StatusRead, StatusSkip, RetryOk, RetryErr, StatusDone, FetchOk, FetchErr,
         Open, OpenStale, OpenErr, Store, StoreErr, AckOk, AckErr, FinishPoll
<1>2. PICK k \in Contacts : k = Conv(c) /\ k[1] = c /\ Hist(c) = mem[k] /\ mem[k] \in History
  BY <1>1, Running, ReceivedFacts
<1>3. ASSUME NEW m \in MsgId, StatusRead(c, m) PROVE Tame
  <2>1. PICK h : h = [mem[k] EXCEPT !.status[m] = "read"]
    OBVIOUS
  <2>2. Remember(k, h) /\ UNCHANGED cut
    BY <1>2, <1>3, <2>1 DEF StatusRead
  <2>3. Received(h) = Received(mem[k])
    BY <1>2, <2>1, StatusFields DEF Status
  <2> QED
    BY <2>2, <2>3, RememberTame
<1>4. ASSUME NEW m \in MsgId, StatusSkip(c, m) PROVE Tame
  BY <1>4, StandTame DEF StatusSkip
<1>5. ASSUME NEW m \in MsgId, RetryOk(c, m) PROVE Tame
  BY <1>2, <1>5, SavedTame, FailTame DEF RetryOk
<1>6. ASSUME NEW m \in MsgId, RetryErr(c, m) PROVE Tame
  BY <1>6, StandTame DEF RetryErr
<1>7. CASE StatusDone(c)
  BY <1>2, <1>7, SavedTame, FailTame, StandTame DEF StatusDone
<1>8. CASE FetchOk(c) \/ Open(c) \/ OpenStale(c)
  BY <1>8, StandTame DEF FetchOk, Open, OpenStale
<1>9. CASE FetchErr(c) \/ AckErr(c)
  BY <1>2, <1>9, ReturnTame DEF FetchErr, AckErr
<1>10. CASE OpenErr(c)
  <2>1. CASE Return(c, Hist(c)) /\ UNCHANGED cut
    BY <1>2, <2>1, ReturnTame
  <2>2. CASE Quit(c, {})
    BY <2>2, QuitTame
  <2> QED
    BY <1>10, <2>1, <2>2 DEF OpenErr
<1>11. CASE Store(c)
  BY <1>1, <1>11, DeliverTame DEF Store
<1>12. CASE StoreErr(c)
  BY <1>1, <1>12, UnreadableTame DEF StoreErr
<1>13. CASE AckOk(c)
  <2>1. PICK n : n = IF Oldest(job[c].page).id > mem[k].cursor
                     THEN Oldest(job[c].page).id ELSE mem[k].cursor
    OBVIOUS
  <2>2. PICK h : h = [mem[k] EXCEPT !.cursor = n]
    OBVIOUS
  <2>3. Remember(k, h) /\ UNCHANGED cut
    BY <1>2, <1>13, <2>1, <2>2 DEF AckOk
  <2>4. Received(h) = Received(mem[k])
    BY <1>2, <2>2 DEF History, Received
  <2> QED
    BY <2>3, <2>4, RememberTame
<1>14. CASE FinishPoll(c)
  <2>1. CASE job[c].dirty
    BY <1>2, <1>14, <2>1, SavedTame, FailTame DEF FinishPoll
  <2>2. CASE ~job[c].dirty
    BY <1>2, <1>14, <2>2, ReturnTame DEF FinishPoll
  <2> QED
    BY <2>1, <2>2
<1> QED
  BY <1>3, <1>4, <1>5, <1>6, <1>7, <1>8, <1>9, <1>10, <1>11, <1>12, <1>13, <1>14 DEF Poll

LEMMA NextTame ==
  ASSUME IInv, Next
  PROVE  Tame
<1>1. ASSUME NEW k \in Contacts, Start(k[1], k[2]) PROVE Tame
  <2>1. PICK c \in Client, p \in Client : c = k[1] /\ p = k[2]
    BY ContactFacts
  <2>2. <<c, p>> \in Contacts /\ Start(c, p)
    BY <1>1, <2>1, ContactFacts
  <2> QED
    BY <2>2, StartTame
<1>2. ASSUME NEW c \in Client, SendText(c) \/ Poll(c) PROVE Tame
  BY <1>2, SendTame, PollTame
<1>3. ASSUME NEW c \in Client, Paste(c) PROVE Tame
  <2>1. job[c].pc # "idle"
    BY <1>3 DEF Paste, PasteStore, PasteStoreErr
  <2>2. CASE PasteStore(c)
    BY <2>1, <2>2, DeliverTame DEF PasteStore
  <2>3. CASE PasteStoreErr(c)
    <3>1. PICK h : h = Loaded(Conv(c))
      OBVIOUS
    <3>2. \E m \in job[c].todo : Unreadable(c, m, h)
      BY <2>3, <3>1 DEF PasteStoreErr
    <3>3. c \in Terminal => h = Hist(c)
      BY <3>1 DEF Loaded, Conv, Hist
    <3> QED
      BY <2>1, <3>2, <3>3, UnreadableTame
  <2> QED
    BY <1>3, <2>2, <2>3 DEF Paste
<1>4. ASSUME NEW c \in Client, Crash(c) PROVE Tame
  BY <1>4, MishapTame DEF Crash
<1> QED
  BY <1>1, <1>2, <1>3, <1>4 DEF Next

(* Crashes are only counted up. *)
Counted == crashes' \in {crashes, crashes + 1}

LEMMA SaveCounts ==
  ASSUME NEW c, NEW k, NEW h, NEW j, Saved(c, k, h, j) \/ SaveFails(c, k, h) \/ SaveEnds(c, h)
  PROVE  Counted
  BY DEF Saved, SaveFails, SaveEnds, Mishap, Counted

LEMMA CrashesGrow ==
  ASSUME Next
  PROVE  Counted
<1>1. ASSUME NEW c, NEW m, NEW via, NEW j, Deliver(c, m, via, j) PROVE Counted
  BY <1>1, SaveCounts DEF Deliver, Counted
<1>2. ASSUME NEW c, NEW p, Start(c, p) PROVE Counted
  BY <1>2, SaveCounts DEF Start, StartPoll, DeleteHistory, Compose, PasteSend, PasteOpen, PasteErr, Counted
<1>3. ASSUME NEW c, SendText(c) PROVE Counted
  BY <1>3, SaveCounts DEF SendText, SubmitOk, SubmitErr, Counted
<1>4. ASSUME NEW c, NEW m, StatusRead(c, m) \/ StatusSkip(c, m) \/ RetryOk(c, m) \/ RetryErr(c, m)
      PROVE  Counted
  BY <1>4, SaveCounts DEF StatusRead, StatusSkip, RetryOk, RetryErr, Counted
<1>5. ASSUME NEW c, StatusDone(c) \/ FinishPoll(c) PROVE Counted
  BY <1>5, SaveCounts DEF StatusDone, FinishPoll, Counted
<1>6. ASSUME NEW c, Store(c) \/ PasteStore(c) PROVE Counted
  BY <1>1, <1>6 DEF Store, PasteStore
<1>7. ASSUME NEW c, \/ FetchOk(c) \/ FetchErr(c) \/ Open(c) \/ OpenStale(c) \/ OpenErr(c)
                    \/ StoreErr(c) \/ PasteStoreErr(c) \/ AckOk(c) \/ AckErr(c)
      PROVE  Counted
  BY <1>7 DEF FetchOk, FetchErr, Open, OpenStale, OpenErr, StoreErr, PasteStoreErr, Unreadable,
              AckOk, AckErr, Counted
<1>8. ASSUME NEW c, Crash(c) PROVE Counted
  BY <1>8 DEF Crash, Mishap, Counted
<1> QED
  BY <1>2, <1>3, <1>4, <1>5, <1>6, <1>7, <1>8 DEF Next, Poll, Paste

LEMMA CalmKeeps ==
  ASSUME IInv, IInv', Calm, Next
  PROVE  Calm'
<1> SUFFICES ASSUME crashes' = 0
             PROVE  /\ cut' \subseteq Foreign
                    /\ \A k \in Contacts : Received(mem'[k]) \subseteq shown'
  BY DEF Calm, Received
<1>1. crashes = 0
  <2>1. crashes \in Nat /\ crashes' \in {crashes, crashes + 1}
    BY CrashesGrow DEF Counted, IInv, TypeOK
  <2> QED
    BY <2>1
<1>2. \A k \in Contacts : Received(mem[k]) \subseteq shown /\ Received(disk[k]) \subseteq shown
  BY <1>1, ContactFacts, ReceivedFacts DEF Calm
<1>3. \A c \in Client : Unsaved(c) = {}
  BY <1>2, UnsavedNow
<1>4. Tame
  BY NextTame
<1>5. cut' \subseteq Foreign
  BY <1>1, <1>3, <1>4 DEF Calm, Tame
<1>6. \A k \in Contacts : Received(mem'[k]) \subseteq shown'
  BY <1>1, <1>2, <1>4 DEF Tame
<1> QED
  BY <1>5, <1>6

LEMMA CalmAlways == Spec => []Calm
<1>1. Init => Calm
  <2> SUFFICES ASSUME Init PROVE Calm
    OBVIOUS
  <2>1. \A k \in Contacts : Received(mem[k]) = {}
    BY DEF Init, EmptyHistory, Received
  <2> QED
    BY <2>1 DEF Init, Calm
<1>2. IInv /\ IInv' /\ Calm /\ [Next]_vars => Calm'
  <2>1. ASSUME Calm, UNCHANGED vars PROVE Calm'
    BY <2>1 DEF Calm, vars, Received
  <2> QED
    BY <2>1, CalmKeeps
<1> QED
  BY <1>1, <1>2, Invariance, PTL DEF Spec

(* What is acknowledged at the relay has been in the history file, is in   *)
(* the memory of a running client, or was lost after it was decrypted; and *)
(* without a crash or a failing save only what another program made and    *)
(* could not be read as text is lost.                                      *)
THEOREM LostByMishap == Spec => []LostOnlyByMishap
<1>1. IInv /\ Calm => LostOnlyByMishap
  BY AckedIsKnown DEF Calm, LostOnlyByMishap
<1> QED
  BY Invariance, CalmAlways, <1>1, PTL

-----------------------------------------------------------------------------
(* A history shows what came through the relay in the order of the relay,  *)
(* after retries, crashes and failing saves as well.                       *)
THEOREM Ordered == Spec => []RelayOrder
<1>1. IInv => RelayOrder
  <2> SUFFICES ASSUME IInv, NEW k \in Contacts,
                      NEW i \in DOMAIN disk[k].inbox, NEW j \in DOMAIN disk[k].inbox, i < j,
                      disk[k].inbox[i].via = "relay", disk[k].inbox[j].via = "relay",
                      NEW p \in queue, NEW q \in queue,
                      p.mid = disk[k].inbox[i].mid, q.mid = disk[k].inbox[j].mid
               PROVE  p.id < q.id
    BY DEF RelayOrder
  <2>1. OrderOk(k, disk[k])
    BY ContactFacts DEF IInv, ClientOk, ConvsOk, ConvOk, HistOk
  <2> QED
    BY <2>1 DEF OrderOk
<1> QED
  BY Invariance, <1>1, PTL

(* No history file receives a message that any file had before: a message  *)
(* is shown once, although the relay, the ratchet and the file are updated *)
(* one after the other and any of the updates may be cut off.              *)
THEOREM ShownAtMostOnce == Spec => ShownOnce
<1>1. IInv /\ [Next]_vars =>
        [\A k \in Contacts : (Received(disk'[k]) \ Received(disk[k])) \cap shown = {}]_vars
  BY NextKeeps DEF StepOk, SavesOk
<1> QED
  BY <1>1, Invariance, PTL DEF Spec, ShownOnce

(* No save takes a history file back: entries, cursor and statuses only go *)
(* on, unless the file is deleted.                                         *)
THEOREM FilesGrow == Spec => HistoryGrows
<1>1. IInv /\ [Next]_vars =>
        [\A k \in Contacts :
           \/ disk'[k] = EmptyHistory
           \/ /\ Received(disk[k]) \subseteq Received(disk'[k])
              /\ disk[k].cursor <= disk'[k].cursor
              /\ \A m \in MsgId : Rank(disk[k].status[m]) <= Rank(disk'[k].status[m])]_vars
  BY NextKeeps DEF StepOk, SavesOk, Ahead
<1> QED
  BY <1>1, Invariance, PTL DEF Spec, HistoryGrows
-----------------------------------------------------------------------------
(***************************************************************************)
(* ChatDelivery implements MessageChannel.  The parties of the channel are *)
(* looked at one by one.  What c owes its user (Owed) is moved by the      *)
(* steps of c alone (ReaderOk); nobody else's is touched, because every    *)
(* message has one recipient.                                              *)
(***************************************************************************)
(* A step of client c moves its own operation and its own memory ... *)
Own(c) ==
  /\ \E j : Goto(c, j)
  /\ \/ mem' = mem
     \/ \E k \in Contacts : k[1] = c /\ \E h : mem' = [mem EXCEPT ![k] = h]
     \/ mem' = [k \in Contacts |-> IF k[1] = c THEN disk[k] ELSE mem[k]]

(* ... may write one message, have the relay store one that was written or *)
(* acknowledge a row, and may learn that one was read.                     *)
Writes == \/ letter' = letter
          \/ \E m \in MsgId : \E k \in Contacts :
               letter[m] = NotWritten /\ letter' = [letter EXCEPT ![m] = k]

Relays(c) == \/ queue' = queue
             \/ \E i : MarkAcked(c, i)
             \/ \E p \in Client : \E m \in MsgId :
                  letter[m] # NotWritten /\ Submit(c, p, m, NoExpiry)

Learns(c) == \/ told' = told
             \/ \E m \in MsgId : "read" \in StatusAnswers(c, m) /\ told' = told \cup {m}

Parts(c) == Own(c) /\ Writes /\ Relays(c) /\ Learns(c)
-----------------------------------------------------------------------------
(* The ways in which an operation ends or goes on. *)
LEMMA SaveOwn ==
  ASSUME NEW c \in Client, NEW k \in Contacts, k[1] = c, NEW h, NEW j,
         Saved(c, k, h, j) \/ SaveFails(c, k, h) \/ SaveEnds(c, h)
  PROVE  Own(c)
<1>1. CASE Saved(c, k, h, j)
  BY <1>1 DEF Saved, Save, Own
<1>2. CASE SaveFails(c, k, h)
  BY <1>2 DEF SaveFails, Own
<1>3. CASE SaveEnds(c, h)
  BY <1>3 DEF SaveEnds, Quit, Own
<1> QED
  BY <1>1, <1>2, <1>3

LEMMA QuitOwn ==
  ASSUME NEW c \in Client, NEW S, Quit(c, S)
  PROVE  Own(c)
  BY DEF Quit, Own

LEMMA RememberOwn ==
  ASSUME NEW c \in Client, NEW k \in Contacts, k[1] = c, NEW h, Remember(k, h), NEW j, Goto(c, j)
  PROVE  Own(c)
  BY DEF Remember, Own

LEMMA ReturnOwn ==
  ASSUME NEW c \in Client, Conv(c) \in Contacts, Conv(c)[1] = c, NEW h, Return(c, h)
  PROVE  Own(c)
  BY DEF Return, Own

LEMMA GotoOwn ==
  ASSUME NEW c \in Client, NEW j, Goto(c, j), mem' = mem
  PROVE  Own(c)
  BY DEF Own

(* A client submits messages that it has written. *)
LEMMA AcceptedRelays ==
  ASSUME IInv, NEW c \in Client, job[c].pc \in {"submit", "retry"},
         NEW m \in job[c].todo, RelayAccepts(c, m) \/ UNCHANGED queueVars
  PROVE  Relays(c)
<1>1. job[c].peer \in Client /\ m \in MsgId /\ letter[m] = Conv(c) /\ Conv(c) \in Contacts
  BY Running DEF IInv, ClientOk, JobOk
<1>2. letter[m] # NotWritten
  BY <1>1, ContactFacts
<1>3. CASE UNCHANGED queueVars
  BY <1>3 DEF queueVars, Relays
<1>4. CASE RelayAccepts(c, m)
  BY <1>1, <1>2, <1>4 DEF RelayAccepts, Relays
<1> QED
  BY <1>3, <1>4
-----------------------------------------------------------------------------
LEMMA DeliverOwn ==
  ASSUME IInv, NEW c \in Client, job[c].pc # "idle", NEW m, NEW via, NEW j, Deliver(c, m, via, j)
  PROVE  Own(c)
<1>1. PICK k \in Contacts : k = Conv(c) /\ k[1] = c
  BY Running
<1>2. PICK h : h = IF job[c].pc = "paste" THEN Loaded(k) ELSE mem[k]
  OBVIOUS
<1>3. PICK g : g = [h EXCEPT !.inbox = Append(@, [mid |-> m, via |-> via])]
  OBVIOUS
<1>4. \/ Remember(k, h) /\ Goto(c, j)
      \/ Saved(c, k, g, j) \/ SaveFails(c, k, g) \/ SaveEnds(c, g)
  BY <1>1, <1>2, <1>3 DEF Deliver
<1> QED
  BY <1>1, <1>4, SaveOwn, RememberOwn

LEMMA UnreadableParts ==
  ASSUME NEW c \in Client, Conv(c) \in Contacts, Conv(c)[1] = c, NEW m, NEW h,
         Unreadable(c, m, h)
  PROVE  Parts(c)
<1>1. Own(c)
  BY ReturnOwn, QuitOwn DEF Unreadable
<1> QED
  BY <1>1 DEF Unreadable, Parts, Writes, Relays, Learns, queueVars

LEMMA StartParts ==
  ASSUME IInv, NEW c \in Client, NEW p \in Client, <<c, p>> \in Contacts, Start(c, p)
  PROVE  Parts(c)
<1>1. PICK k \in Contacts : k = <<c, p>> /\ k[1] = c
  OBVIOUS
<1>2. CASE StartPoll(c, p)
  <2>1. Own(c)
    BY <1>1, <1>2, RememberOwn DEF StartPoll
  <2> QED
    BY <1>2, <2>1 DEF StartPoll, Parts, Writes, Relays, Learns, queueVars
<1>3. CASE DeleteHistory(c, p)
  <2>1. Own(c)
    BY <1>1, <1>3, SaveOwn DEF DeleteHistory
  <2> QED
    BY <1>3, <2>1 DEF DeleteHistory, Parts, Writes, Relays, Learns, queueVars
<1>4. ASSUME NEW m \in MsgId, Compose(c, p, m) PROVE Parts(c)
  <2>1. Own(c)
    BY <1>1, <1>4, SaveOwn DEF Compose
  <2> QED
    BY <1>1, <1>4, <2>1 DEF Compose, Parts, Writes, Relays, Learns, queueVars
<1>5. ASSUME NEW m \in MsgId, PasteSend(c, p, m) PROVE Parts(c)
  <2>1. Own(c)
    BY <1>1, <1>5, SaveOwn DEF PasteSend
  <2> QED
    BY <1>1, <1>5, <2>1 DEF PasteSend, Parts, Writes, Relays, Learns, queueVars
<1>6. ASSUME NEW m \in MsgId, PasteOpen(c, p, m) PROVE Parts(c)
  <2>1. Own(c)
    BY <1>6, GotoOwn DEF PasteOpen
  <2> QED
    BY <1>6, <2>1 DEF PasteOpen, Parts, Writes, Relays, Learns, queueVars
<1>7. ASSUME NEW m \in MsgId, PasteErr(c, p, m) PROVE Parts(c)
  <2>1. Own(c)
    BY <1>7, QuitOwn DEF PasteErr
  <2> QED
    BY <1>7, <2>1 DEF PasteErr, Parts, Writes, Relays, Learns, queueVars
<1> QED
  BY <1>2, <1>3, <1>4, <1>5, <1>6, <1>7 DEF Start

LEMMA SendParts ==
  ASSUME IInv, NEW c \in Client, SendText(c)
  PROVE  Parts(c)
<1>1. CASE SubmitOk(c)
  <2>1. PICK m \in job[c].todo : RelayAccepts(c, m) /\ \E h, j :
                     Saved(c, Conv(c), h, j) \/ SaveFails(c, Conv(c), h)
    BY <1>1 DEF SubmitOk
  <2>2. Conv(c) \in Contacts /\ Conv(c)[1] = c /\ job[c].pc = "submit"
    BY <1>1, Running DEF SubmitOk
  <2>3. Own(c) /\ Relays(c)
    BY <2>1, <2>2, SaveOwn, AcceptedRelays
  <2> QED
    BY <1>1, <2>3 DEF SubmitOk, Parts, Writes, Learns
<1>2. CASE SubmitErr(c)
  <2>1. PICK m \in job[c].todo : RelayAccepts(c, m) \/ UNCHANGED queueVars
    BY <1>2 DEF SubmitErr
  <2>2. Conv(c) \in Contacts /\ Conv(c)[1] = c /\ job[c].pc = "submit" /\ Return(c, Hist(c))
    BY <1>2, Running DEF SubmitErr
  <2>3. Own(c) /\ Relays(c)
    BY <2>1, <2>2, ReturnOwn, AcceptedRelays
  <2> QED
    BY <1>2, <2>3 DEF SubmitErr, Parts, Writes, Learns
<1> QED
  BY <1>1, <1>2 DEF SendText

LEMMA StatusParts ==
  ASSUME IInv, NEW c \in Client,
         StatusDone(c) \/ \E m \in MsgId : StatusRead(c, m) \/ StatusSkip(c, m)
  PROVE  Parts(c)
<1>1. ASSUME NEW m \in MsgId, StatusRead(c, m) PROVE Parts(c)
  <2>1. Conv(c) \in Contacts /\ Conv(c)[1] = c
    BY <1>1, Running DEF StatusRead
  <2>2. Own(c)
    BY <1>1, <2>1, RememberOwn DEF StatusRead
  <2> QED
    BY <1>1, <2>2 DEF StatusRead, Parts, Writes, Relays, Learns, queueVars
<1>2. ASSUME NEW m \in MsgId, StatusSkip(c, m) PROVE Parts(c)
  <2>1. Own(c)
    BY <1>2, GotoOwn DEF StatusSkip
  <2> QED
    BY <1>2, <2>1 DEF StatusSkip, Parts, Writes, Relays, Learns, queueVars
<1>3. CASE StatusDone(c)
  <2>1. Conv(c) \in Contacts /\ Conv(c)[1] = c
    BY <1>3, Running DEF StatusDone
  <2>2. Own(c)
    BY <1>3, <2>1, SaveOwn, GotoOwn DEF StatusDone
  <2> QED
    BY <1>3, <2>2 DEF StatusDone, Parts, Writes, Relays, Learns, queueVars
<1> QED
  BY <1>1, <1>2, <1>3

LEMMA RetryParts ==
  ASSUME IInv, NEW c \in Client, NEW m \in MsgId, RetryOk(c, m) \/ RetryErr(c, m)
  PROVE  Parts(c)
<1>1. job[c].pc = "retry" /\ m \in job[c].todo /\ (RelayAccepts(c, m) \/ UNCHANGED queueVars)
  BY DEF RetryOk, RetryErr
<1>2. Conv(c) \in Contacts /\ Conv(c)[1] = c
  BY <1>1, Running
<1>3. Own(c)
  <2>1. CASE RetryOk(c, m)
    BY <1>2, <2>1, SaveOwn DEF RetryOk
  <2>2. CASE RetryErr(c, m)
    BY <2>2, GotoOwn DEF RetryErr
  <2> QED
    BY <2>1, <2>2
<1>4. Relays(c)
  BY <1>1, AcceptedRelays
<1> QED
  BY <1>3, <1>4 DEF RetryOk, RetryErr, Parts, Writes, Learns

LEMMA PageParts ==
  ASSUME IInv, NEW c \in Client,
         \/ FetchOk(c) \/ FetchErr(c) \/ Open(c) \/ OpenStale(c) \/ OpenErr(c) \/ Store(c)
         \/ StoreErr(c) \/ AckOk(c) \/ AckErr(c) \/ FinishPoll(c)
  PROVE  Parts(c)
<1>1. Conv(c) \in Contacts /\ Conv(c)[1] = c
  BY Running DEF FetchOk, FetchErr, Open, OpenStale, OpenErr, Store, StoreErr, AckOk, AckErr,
                 FinishPoll
<1>2. CASE FetchOk(c) \/ Open(c) \/ OpenStale(c)
  <2>1. Own(c)
    BY <1>2, GotoOwn DEF FetchOk, Open, OpenStale
  <2> QED
    BY <1>2, <2>1 DEF FetchOk, Open, OpenStale, Parts, Writes, Relays, Learns, queueVars
<1>3. CASE FetchErr(c)
  <2>1. Own(c)
    BY <1>1, <1>3, ReturnOwn DEF FetchErr
  <2> QED
    BY <1>3, <2>1 DEF FetchErr, Parts, Writes, Relays, Learns, queueVars
<1>4. CASE OpenErr(c)
  <2>1. Own(c)
    BY <1>1, <1>4, ReturnOwn, QuitOwn DEF OpenErr
  <2> QED
    BY <1>4, <2>1 DEF OpenErr, Parts, Writes, Relays, Learns, queueVars
<1>5. CASE Store(c)
  <2>1. Own(c)
    BY <1>5, DeliverOwn DEF Store
  <2> QED
    BY <1>5, <2>1 DEF Store, Parts, Writes, Relays, Learns, queueVars
<1>6. CASE AckOk(c)
  <2>1. Own(c)
    BY <1>1, <1>6, RememberOwn DEF AckOk
  <2> QED
    BY <1>6, <2>1 DEF AckOk, Parts, Writes, Relays, Learns
<1>7. CASE AckErr(c)
  <2>1. Own(c)
    BY <1>1, <1>7, ReturnOwn DEF AckErr
  <2> QED
    BY <1>7, <2>1 DEF AckErr, Parts, Writes, Relays, Learns
<1>8. CASE FinishPoll(c)
  <2>1. Own(c)
    BY <1>1, <1>8, ReturnOwn, SaveOwn DEF FinishPoll
  <2> QED
    BY <1>8, <2>1 DEF FinishPoll, Parts, Writes, Relays, Learns, queueVars
<1>9. CASE StoreErr(c)
  BY <1>1, <1>9, UnreadableParts DEF StoreErr
<1> QED
  BY <1>2, <1>3, <1>4, <1>5, <1>6, <1>7, <1>8, <1>9

(* Every step is one of a single client, in each of its parts. *)
LEMMA NextParts ==
  ASSUME IInv, Next
  PROVE  \E c \in Client : StepOk(c) /\ Parts(c)
<1>1. ASSUME NEW k \in Contacts, Start(k[1], k[2]) PROVE \E c \in Client : StepOk(c) /\ Parts(c)
  <2>1. PICK c \in Client : c = k[1]
    BY ContactFacts
  <2>2. PICK p \in Client : p = k[2]
    BY ContactFacts
  <2>3. <<c, p>> \in Contacts /\ Start(c, p)
    BY <1>1, <2>1, <2>2, ContactFacts
  <2> QED
    BY <2>3, StartKeeps, StartParts
<1>2. ASSUME NEW c \in Client, SendText(c) PROVE StepOk(c) /\ Parts(c)
  BY <1>2, SubmitOkKeeps, SubmitErrKeeps, SendParts DEF SendText
<1>3. ASSUME NEW c \in Client, Poll(c) PROVE StepOk(c) /\ Parts(c)
  <2>1. Parts(c)
    BY <1>3, StatusParts, RetryParts, PageParts DEF Poll
  <2> QED
    BY <1>3, <2>1, PollKeeps
<1>4. ASSUME NEW c \in Client, Paste(c) PROVE StepOk(c) /\ Parts(c)
  <2>1. CASE PasteStore(c)
    <3>1. Own(c)
      BY <2>1, DeliverOwn DEF PasteStore
    <3>2. Parts(c)
      BY <2>1, <3>1 DEF PasteStore, Parts, Writes, Relays, Learns, queueVars
    <3> QED
      BY <2>1, <3>2, PasteStoreKeeps
  <2>2. CASE PasteStoreErr(c)
    <3>1. Conv(c) \in Contacts /\ Conv(c)[1] = c
      BY <2>2, Running DEF PasteStoreErr
    <3>2. Parts(c)
      BY <2>2, <3>1, UnreadableParts DEF PasteStoreErr
    <3> QED
      BY <2>2, <3>2, PasteStoreErrKeeps
  <2> QED
    BY <1>4, <2>1, <2>2 DEF Paste
<1>5. ASSUME NEW c \in Client, Crash(c) PROVE StepOk(c) /\ Parts(c)
  <2>1. Own(c)
    BY <1>5, QuitOwn DEF Crash
  <2>2. Parts(c)
    BY <1>5, <2>1 DEF Crash, Parts, Writes, Relays, Learns, queueVars
  <2> QED
    BY <1>5, <2>2, CrashKeeps
<1> QED
  BY <1>1, <1>2, <1>3, <1>4, <1>5 DEF Next
-----------------------------------------------------------------------------
(* What is opened and neither shown nor lost, by its owner. *)
LEMMA OpeningNow ==
  ASSUME NEW m
  PROVE  m \in Opening <=> \E d \in Client : m \in Owed(d)
  BY DEF Opening, Owed

LEMMA OpeningNext ==
  ASSUME NEW m
  PROVE  m \in Opening' <=> \E d \in Client : m \in Owed(d)'
  BY DEF Opening, Owed

(* A step of c leaves alone what others owe. *)
LEMMA OthersOwe ==
  ASSUME IInv, NEW c \in Client, Own(c), ReaderOk(c), NEW d \in Client, d # c
  PROVE  Owed(d)' = Owed(d)
<1>1. job'[d] = job[d] /\ \A k \in Contacts : k[1] = d => mem'[k] = mem[k]
  BY DEF Own, Goto, IInv, TypeOK
<1>2. InHand(d)' = InHand(d)
  BY <1>1 DEF InHand
<1>3. ASSUME NEW k \in Contacts, k[1] = d, NEW m \in Received(mem[k]) PROVE m \in shown' <=> m \in shown
  <2>1. letter[m][2] = d
    BY <1>3, ReceivedFacts
  <2>2. shown' = shown \/ \E S \in SUBSET Owed(c) : shown' = shown \cup S
    BY DEF ReaderOk
  <2> QED
    BY <2>1, <2>2, OwedFacts
<1>4. ASSUME NEW m \in Unsaved(d) PROVE m \in Unsaved(d)'
  <2>1. PICK k \in Contacts : m \notin shown /\ k[1] = d /\ m \in Received(mem[k])
    BY <1>4, UnsavedNow
  <2>2. PICK h : h = mem'[k]
    OBVIOUS
  <2> QED
    BY <1>1, <1>3, <2>1, <2>2, UnsavedNext
<1>5. ASSUME NEW m \in Unsaved(d)' PROVE m \in Unsaved(d)
  <2>1. PICK k \in Contacts : m \notin shown' /\ k[1] = d /\ m \in Received(mem'[k])
    BY <1>5, UnsavedWas
  <2>2. m \in Received(mem[k]) /\ m \notin shown
    BY <1>1, <1>3, <2>1
  <2> QED
    BY <2>1, <2>2, UnsavedIs
<1> QED
  BY <1>2, <1>4, <1>5 DEF Owed

(* The reader's part of a step. *)
LEMMA ReaderRefines ==
  ASSUME IInv, NEW c \in Client, Own(c), ReaderOk(c)
  PROVE  Channel!Open \/ Channel!Show \/ Channel!Lose
<1>1. ASSUME NEW m, NEW d \in Client, m \in Owed(d) PROVE d # c => m \in Owed(d)' /\ m \notin Owed(c)
  BY <1>1, OthersOwe, OwedFacts
<1>2. ASSUME NEW m, NEW d \in Client, m \in Owed(d)' PROVE d # c => m \in Owed(d) /\ m \notin Owed(c)
  BY <1>2, OthersOwe, OwedFacts
<1>3. ASSUME NEW S \in SUBSET Owed(c), Owed(c)' = Owed(c) \ S
      PROVE  S \in SUBSET Opening /\ Opening' = Opening \ S
  <2>1. S \in SUBSET Opening
    BY OpeningNow
  <2>2. ASSUME NEW m \in Opening \ S PROVE m \in Opening'
    BY <1>1, <1>3, <2>2, OpeningNow, OpeningNext
  <2>3. ASSUME NEW m \in Opening' PROVE m \in Opening \ S
    BY <1>2, <1>3, <2>3, OpeningNow, OpeningNext
  <2> QED
    BY <2>1, <2>2, <2>3
<1>4. CASE \E S \in SUBSET Owed(c) : Owed(c)' = Owed(c) \ S /\ shown' = shown \cup S /\ cut' = cut
  BY <1>3, <1>4 DEF Channel!Show
<1>5. CASE \E S \in SUBSET Owed(c) : Owed(c)' = Owed(c) \ S /\ cut' = cut \cup S /\ shown' = shown
  BY <1>3, <1>5 DEF Channel!Lose
<1>6. ASSUME NEW m \in MsgId, letter[m] # NotWritten, letter[m][2] = c, m \notin opened[c],
             Owed(c)' = Owed(c) \cup {m}, shown' = shown, cut' = cut
      PROVE  Channel!Open
  <2>1. m \notin Opening
    BY <1>6, OpeningNow, OwedFacts
  <2>2. m \notin shown \cup cut
    BY <1>6, InvFacts DEF SharedOk, Handled
  <2>3. ASSUME NEW n \in Opening \cup {m} PROVE n \in Opening'
    BY <1>1, <1>6, <2>3, OpeningNow, OpeningNext
  <2>4. ASSUME NEW n \in Opening' PROVE n \in Opening \cup {m}
    BY <1>2, <1>6, <2>4, OpeningNow, OpeningNext
  <2>5. Opening' = Opening \cup {m}
    BY <2>3, <2>4
  <2> QED
    BY <1>6, <2>1, <2>2, <2>5 DEF Channel!Open, Channel!Opened
<1> QED
  BY <1>4, <1>5, <1>6 DEF ReaderOk

(* The sender's part, the relay's, and what the sender is told. *)
LEMMA WriterRefines ==
  ASSUME TypeOK, Writes
  PROVE  LET composed == {m \in MsgId : letter[m] # NotWritten} IN
         composed' = composed \/ \E m \in MsgId \ composed : composed' = composed \cup {m}
<1>1. CASE letter' = letter
  BY <1>1
<1>2. ASSUME NEW m \in MsgId, NEW k \in Contacts, letter[m] = NotWritten,
             letter' = [letter EXCEPT ![m] = k]
      PROVE  {n \in MsgId : letter'[n] # NotWritten} = {n \in MsgId : letter[n] # NotWritten} \cup {m}
  BY <1>2, ContactFacts DEF TypeOK
<1> QED
  BY <1>1, <1>2 DEF Writes

LEMMA RelayRefines ==
  ASSUME TypeOK, NEW c \in Client, Relays(c)
  PROVE  LET held == {q.mid : q \in queue} IN
         held' = held \/ \E m \in MsgId : letter[m] # NotWritten /\ held' = held \cup {m}
<1>1. CASE queue' = queue
  BY <1>1
<1>2. ASSUME NEW i, MarkAcked(c, i) PROVE {q.mid : q \in queue'} = {q.mid : q \in queue}
  <2> DEFINE f(q) == IF q.id = i /\ q.to = c THEN [q EXCEPT !.acked = TRUE] ELSE q
  <2>1. queue' = {f(q) : q \in queue}
    BY <1>2 DEF MarkAcked
  <2>2. \A q \in queue : f(q).mid = q.mid
    BY DEF TypeOK, QueueTypeOK, Row
  <2> HIDE DEF f
  <2> QED
    BY <2>1, <2>2
<1>3. ASSUME NEW p \in Client, NEW m \in MsgId, letter[m] # NotWritten, Submit(c, p, m, NoExpiry)
      PROVE  \/ queue' = queue
             \/ {q.mid : q \in queue'} = {q.mid : q \in queue} \cup {m}
  <2>1. CASE UNCHANGED queueVars
    BY <2>1 DEF queueVars
  <2>2. CASE queue' = queue \cup {NewRow(c, p, m, NoExpiry)}
    <3>1. NewRow(c, p, m, NoExpiry).mid = m
      BY DEF NewRow
    <3> QED
      BY <2>2, <3>1
  <2> QED
    BY <1>3, <2>1, <2>2 DEF Submit
<1> QED
  BY <1>1, <1>2, <1>3 DEF Relays

(* "read" is said of messages whose recipient has opened them. *)
LEMMA ConfirmRefines ==
  ASSUME IInv, NEW c \in Client, Learns(c)
  PROVE  Channel!Confirm \/ told' = told
<1>1. ASSUME NEW m \in MsgId, "read" \in StatusAnswers(c, m), told' = told \cup {m}
      PROVE  Channel!Confirm
  <2>1. PICK q \in queue : q.mid = m /\ q.acked
    BY <1>1 DEF StatusAnswers
  <2>2. q.to \in Client
    BY InvFacts DEF Row
  <2>3. m \in shown \cup cut \cup Unsaved(q.to)
    BY <2>1, AckedIsKnown
  <2>4. m \in Opening \cup shown \cup cut
    BY <2>2, <2>3, OpeningNow DEF Owed
  <2> QED
    BY <1>1, <2>1, <2>4 DEF Channel!Confirm, Channel!Opened
<1> QED
  BY <1>1 DEF Learns
-----------------------------------------------------------------------------
LEMMA RefinesInit == Init => Channel!Init
<1> SUFFICES ASSUME Init PROVE Channel!Init
  OBVIOUS
<1>1. queue = {} /\ shown = {} /\ told = {} /\ cut = {} /\ letter = [m \in MsgId |-> NotWritten]
  BY DEF Init, QueueInit
<1>2. ASSUME NEW c \in Client PROVE InHand(c) = {}
  BY <1>2 DEF Init, InHand, Idle, NewJob
<1>3. ASSUME NEW c \in Client PROVE Unsaved(c) = {}
  <2>1. \A k \in Contacts : Received(mem[k]) = {}
    BY DEF Init, EmptyHistory, Received
  <2> QED
    BY <2>1, UnsavedNow
<1>4. Opening = {}
  BY <1>2, <1>3, OpeningNow DEF Owed
<1> QED
  BY <1>1, <1>4 DEF Channel!Init

LEMMA StutterRefines ==
  ASSUME UNCHANGED vars
  PROVE  UNCHANGED Channel!channelVars
<1>1. /\ queue' = queue /\ mem' = mem /\ job' = job /\ letter' = letter
      /\ shown' = shown /\ told' = told /\ cut' = cut
  BY DEF vars
<1>2. Opening' = Opening
  BY <1>1 DEF Opening, InHand, Unsaved, Received, Oldest
<1> QED
  BY <1>1, <1>2 DEF Channel!channelVars, Channel!reader

LEMMA RefinesStep ==
  ASSUME IInv, [Next]_vars
  PROVE  [Channel!Next]_(Channel!channelVars)
<1>1. CASE UNCHANGED vars
  BY <1>1, StutterRefines
<1>2. CASE Next
  <2>1. PICK c \in Client : StepOk(c) /\ Parts(c)
    BY <1>2, NextParts
  <2>2. TypeOK
    BY DEF IInv
  <2>3. Channel!Open \/ Channel!Show \/ Channel!Lose
    BY <2>1, ReaderRefines DEF StepOk, Parts
  <2>4. Channel!Compose \/ UNCHANGED {m \in MsgId : letter[m] # NotWritten}
    BY <2>1, <2>2, WriterRefines DEF Parts, Channel!Compose
  <2>5. Channel!Hold \/ UNCHANGED {q.mid : q \in queue}
    BY <2>1, <2>2, RelayRefines DEF Parts, Channel!Hold
  <2>6. Channel!Confirm \/ UNCHANGED told
    BY <2>1, ConfirmRefines DEF Parts
  <2> QED
    BY <2>3, <2>4, <2>5, <2>6 DEF Channel!Next
<1> QED
  BY <1>1, <1>2

(* The clients and the relay together keep the promise of the channel: a   *)
(* message is opened once and shown once at most, and its sender is told   *)
(* "read" only when the recipient has opened it.                           *)
THEOREM ImplementsChannel == Spec => ChannelSpec
<1>1. IInv /\ [Next]_vars => [Channel!Next]_(Channel!channelVars)
  BY RefinesStep
<1> QED
  BY RefinesInit, <1>1, Invariance, PTL DEF Spec, ChannelSpec, Channel!Spec
=============================================================================
