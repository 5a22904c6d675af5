------------------------- MODULE RelayServiceProofs -------------------------
(***************************************************************************)
(* RelayService, for any clients, addresses and bounds: the type           *)
(* invariant, and the invariants about retrieval and acknowledgement.      *)
(*                                                                         *)
(* AckedWasRetrieved and CursorMissesNothing are not inductive: a request  *)
(* in flight acts later on what its client knew when it was admitted.  IInv*)
(* adds what a retrieved row says about the table (ids are never reused)   *)
(* and what a request in flight relies on.                                 *)
(***************************************************************************)
EXTENDS RelayService, FiniteSetTheorems, TLAPS

-----------------------------------------------------------------------------
(* What the statements on the message table preserve. *)

(* The facts about the table that every statement preserves. *)
QueueInv == /\ QueueTypeOK /\ IsFiniteSet(queue)
            /\ OneRowPerSubmission /\ IdsAreKeys
            /\ 0 < nextId

(* The empty table satisfies them. *)
LEMMA QueueInitInv == QueueInit => QueueInv
  BY FS_EmptySet DEF QueueInit, QueueInv, QueueTypeOK, OneRowPerSubmission, IdsAreKeys

(* Acceptance keeps every row and adds at most one, under an id above all  *)
(* earlier ones, after which the row is stored.                            *)
LEMMA SubmitInv ==
  ASSUME QueueInv,
         NEW s \in Client, NEW r \in Client, NEW m \in MsgId,
         NEW e \in ExpiresAt,
         Submit(s, r, m, e)
  PROVE  /\ QueueInv'
         /\ queue \subseteq queue'
         /\ \A q \in queue' \ queue : q = NewRow(s, r, m, e)
         /\ nextId <= nextId'
         /\ Stored(s, r, m)'
<1>1. CASE Stored(s, r, m)
  <2>1. queue' = queue /\ nextId' = nextId
    BY <1>1 DEF Submit, queueVars
  <2> QED
    BY <2>1, <1>1 DEF QueueInv, QueueTypeOK, OneRowPerSubmission, IdsAreKeys, Stored
<1>2. CASE ~Stored(s, r, m)
  <2> DEFINE new == NewRow(s, r, m, e)
  <2>1. queue' = queue \cup {new} /\ nextId' = nextId + 1
    BY <1>2 DEF Submit
  <2>2. /\ new \in Row
        /\ new.id = nextId /\ new.from = s /\ new.to = r /\ new.mid = m
    BY DEF NewRow, Row, QueueInv, QueueTypeOK
  <2>3. QueueTypeOK'
    BY <2>1, <2>2 DEF QueueInv, QueueTypeOK
  <2>4. IsFiniteSet(queue')
    BY <2>1, FS_AddElement DEF QueueInv
  <2>5. OneRowPerSubmission'
    BY <1>2, <2>1, <2>2 DEF QueueInv, OneRowPerSubmission, Stored
  <2>6. IdsAreKeys'
    <3> HIDE DEF new
    <3>1. /\ nextId \in Nat /\ nextId' = nextId + 1 /\ new.id = nextId
          /\ \A q \in queue : q.id \in Nat /\ 0 < q.id /\ q.id < nextId
          /\ \A p, q \in queue : p.id = q.id => p = q
      BY <2>1, <2>2 DEF QueueInv, QueueTypeOK, IdsAreKeys, Row
    <3>2. 0 < nextId
      BY DEF QueueInv
    <3> QED
      BY <2>1, <3>1, <3>2 DEF IdsAreKeys
  <2>7. Stored(s, r, m)'
    BY <2>1, <2>2 DEF Stored
  <2> QED
    BY <2>1, <2>3, <2>4, <2>5, <2>6, <2>7 DEF QueueInv, QueueTypeOK
<1> QED
  BY <1>1, <1>2

(* Deleting rows keeps the facts, since no id is ever used again. *)
LEMMA DeleteInv ==
  ASSUME QueueInv, queue' \subseteq queue, nextId' = nextId
  PROVE  QueueInv'
  BY FS_Subset DEF QueueInv, QueueTypeOK, OneRowPerSubmission, IdsAreKeys

(* An acknowledgement changes at most the flag of the one row it names. *)
LEMMA MarkAckedInv ==
  ASSUME QueueInv, nextId' = nextId,
         NEW r \in Client, NEW i \in Nat,
         MarkAcked(r, i)
  PROVE  /\ QueueInv'
         /\ \A q \in queue' : \E p \in queue :
              q = IF p.id = i /\ p.to = r THEN [p EXCEPT !.acked = TRUE] ELSE p
         /\ \A p \in queue :
              (IF p.id = i /\ p.to = r THEN [p EXCEPT !.acked = TRUE] ELSE p) \in queue'
<1> DEFINE f(q) == IF q.id = i /\ q.to = r THEN [q EXCEPT !.acked = TRUE] ELSE q
<1>1. queue' = {f(q) : q \in queue}
  BY DEF MarkAcked
<1>2. \A q \in queue : q \in Row
  BY DEF QueueInv, QueueTypeOK
<1>3. \A q \in queue : /\ f(q) \in Row
                       /\ f(q).id = q.id /\ f(q).from = q.from
                       /\ f(q).to = q.to /\ f(q).mid = q.mid
  BY <1>2 DEF Row
<1>4. QueueTypeOK'
  BY <1>1, <1>3 DEF QueueInv, QueueTypeOK
<1>5. IsFiniteSet(queue')
  <2> DEFINE g == [q \in queue |-> f(q)]
  <2>1. g \in Surjection(queue, queue')
    BY <1>1 DEF Surjection
  <2> QED
    BY <2>1, FS_Surjection DEF QueueInv
<1>6. OneRowPerSubmission' /\ IdsAreKeys'
  <2> HIDE DEF f
  <2>1. \A q \in queue' : \E p \in queue : q = f(p)
    BY <1>1
  <2> QED
    BY <1>3, <2>1 DEF QueueInv, OneRowPerSubmission, IdsAreKeys
<1> QED
  BY <1>1, <1>4, <1>5, <1>6 DEF QueueInv

-----------------------------------------------------------------------------
(* A retrieved row is the original of the row with its id, if there is one *)
(* still, and its id is used up.                                           *)
RetrievedOnce ==
  \A p \in retrieved : /\ p.id < nextId
                       /\ \A q \in queue : q.id = p.id => Original(q) = p

(* A request in flight names rows its client was given.                    *)
CallsAreFounded ==
  \A k \in calls :
    /\ k.op = "ack" => \E p \in retrieved : p.id = k.id /\ p.to = k.by
    /\ k.op \in {"receive", "poll"} => k.cursor <= cursor[k.by]

CursorsInRange == \A c \in Client : cursor[c] < nextId

IInv == /\ TypeOK /\ QueueInv
        /\ RetrievedOnce /\ CallsAreFounded /\ CursorsInRange
        /\ AckedWasRetrieved /\ CursorMissesNothing

-----------------------------------------------------------------------------
(* What the fields of a row are. *)
LEMMA RowFields ==
  ASSUME NEW q \in Row
  PROVE  /\ q.id \in Nat /\ q.from \in Client /\ q.to \in Client /\ q.mid \in MsgId
         /\ q.expires \in Nat \cup {NoExpiry} /\ q.acked \in BOOLEAN
         /\ Original(q) \in Row
         /\ Original(q).id = q.id /\ Original(q).to = q.to
         /\ q.acked = FALSE => Original(q) = q
  BY DEF Row, Original, ExpiresAt

(* Acknowledging a row does not change its original. *)
LEMMA OriginalOfAcked ==
  ASSUME NEW q \in Row
  PROVE  LET a == [q EXCEPT !.acked = TRUE] IN
         /\ a \in Row /\ a.id = q.id /\ a.to = q.to /\ Original(a) = Original(q)
  BY DEF Row, Original

(* The requests of a client are requests. *)
LEMMA ClientCallType ==
  ASSUME TypeOK, NEW c \in Client, NEW k \in ClientCall(c)
  PROVE  /\ k \in Call /\ k.by = c
         /\ k.op = "ack" => \E p \in retrieved : p.id = k.id /\ p.to = c
         /\ k.op \in {"receive", "poll"} => k.cursor <= cursor[c]
<1>1. cursor[c] \in Nat /\ 0 <= cursor[c]
  BY DEF TypeOK
<1>2. \A p \in retrieved : p.id \in Nat
  BY RowFields DEF TypeOK
<1>3. CASE k \in [op : {"send"}, by : {c}, to : {n \in Name : <<c, n>> \in Traffic},
                 mid : MsgId, expires : Expiry]
  BY <1>3 DEF Call, SendCall
<1>4. CASE k \in [op : {"receive", "poll"}, by : {c}, cursor : {0, cursor[c]}]
  BY <1>1, <1>4 DEF Call, FetchCall
<1>5. CASE k \in [op : {"ack"}, by : {c}, id : {q.id : q \in {p \in retrieved : p.to = c}}]
  BY <1>2, <1>5 DEF Call, AckCall
<1> QED
  BY <1>3, <1>4, <1>5 DEF ClientCall

(* A page holds every pending row up to the last row it holds. *)
LEMMA PageIsAPrefix ==
  ASSUME NEW rows, IsFiniteSet(rows), \A q \in rows : q.id \in Nat,
         NEW r, NEW cur \in Nat,
         NEW p \in Page(rows, r, cur),
         NEW q \in Pending(rows, r, cur), q.id <= p.id
  PROVE  q \in Page(rows, r, cur)
<1> DEFINE pending == Pending(rows, r, cur)
           below(x) == {y \in pending : y.id <= x.id}
<1>1. pending \subseteq rows /\ IsFiniteSet(pending)
  BY FS_Subset DEF Pending
<1>2. p \in pending /\ Cardinality(below(p)) <= PageLimit
  BY DEF Page, FirstPage
<1>3. below(q) \subseteq below(p)
  BY <1>1, <1>2
<1>4. /\ IsFiniteSet(below(p)) /\ IsFiniteSet(below(q))
      /\ Cardinality(below(q)) <= Cardinality(below(p))
  BY <1>1, <1>3, FS_Subset
<1>5. Cardinality(below(q)) \in Nat /\ Cardinality(below(p)) \in Nat
  BY <1>4, FS_CardinalityType
<1>6. Cardinality(below(q)) <= PageLimit
  BY <1>2, <1>4, <1>5, PageLimitAssumption
<1> QED
  BY <1>6 DEF Page, FirstPage

-----------------------------------------------------------------------------
(* The table is empty and nobody has asked for anything. *)
LEMMA InitInv == Init => IInv
<1> SUFFICES ASSUME Init PROVE IInv
  OBVIOUS
<1> USE DEF Init
<1>1. TypeOK
  BY BoundsAssumption DEF TypeOK, QueueTypeOK, QueueInit, AccessTypeOK, AccessInit, Access
<1>2. QueueInv
  BY QueueInitInv
<1> QED
  BY <1>1, <1>2 DEF IInv, RetrievedOnce, CallsAreFounded, CursorsInRange,
     AckedWasRetrieved, CursorMissesNothing, QueueInit

(* Steps that leave the table and what clients know alone. *)
LEMMA QuietStep ==
  ASSUME IInv, TypeOK', UNCHANGED <<queueVars, retrieved, cursor>>, calls' \subseteq calls
  PROVE  IInv'
<1> USE DEF IInv, queueVars
<1>1. QueueInv'
  BY DEF QueueInv, QueueTypeOK, OneRowPerSubmission, IdsAreKeys
<1> QED
  BY <1>1 DEF RetrievedOnce, CallsAreFounded, CursorsInRange, AckedWasRetrieved,
     CursorMissesNothing

(* Admission: the request names rows its client was given. *)
LEMMA AdmitInv ==
  ASSUME IInv, NEW c \in Client, NEW k \in ClientCall(c), Admit(k)
  PROVE  IInv'
<1> USE DEF IInv, Admit, queueVars, accessVars
<1>1. /\ k \in Call /\ k.by = c
      /\ k.op = "ack" => \E p \in retrieved : p.id = k.id /\ p.to = c
      /\ k.op \in {"receive", "poll"} => k.cursor <= cursor[c]
  BY ClientCallType
<1>2. TypeOK'
  BY <1>1 DEF TypeOK, QueueTypeOK, AccessTypeOK
<1>3. QueueInv'
  BY DEF QueueInv, QueueTypeOK, OneRowPerSubmission, IdsAreKeys
<1>4. CallsAreFounded'
  BY <1>1 DEF CallsAreFounded
<1> QED
  BY <1>2, <1>3, <1>4 DEF RetrievedOnce, CursorsInRange, AckedWasRetrieved,
     CursorMissesNothing

(* Acceptance: the new row is above every id a client has been told of. *)
LEMMA SendInv ==
  ASSUME IInv, NEW k \in calls, HandleSend(k)
  PROVE  IInv'
<1> USE DEF IInv, HandleSend, Done, accessVars
<1>1. CASE UNCHANGED queueVars
  <2>1. TypeOK'
    BY <1>1 DEF TypeOK, QueueTypeOK, AccessTypeOK, queueVars
  <2> QED
    BY <1>1, <2>1, QuietStep
<1>2. ASSUME NEW r \in Resolve(k.to), Submit(k.by, r, k.mid, k.expires)
      PROVE  IInv'
  <2>1. /\ k.by \in Client /\ r \in Client /\ k.mid \in MsgId
        /\ k.expires \in ExpiresAt
    BY DEF TypeOK, Call, SendCall, FetchCall, AckCall, Resolve, Expiry, ExpiresAt
  <2> DEFINE new == NewRow(k.by, r, k.mid, k.expires)
  <2>2. /\ QueueInv' /\ queue \subseteq queue' /\ nextId <= nextId'
        /\ \A q \in queue' \ queue : q = new
    <3>1. QueueInv
      OBVIOUS
    <3> QED
      BY ONLY <1>2, <2>1, <3>1, SubmitInv DEF new
  <2>3. new.id = nextId /\ new.acked = FALSE
    BY DEF NewRow
  <2>4. TypeOK'
    BY <2>2 DEF TypeOK, QueueInv, AccessTypeOK
  <2>5. nextId \in Nat /\ nextId' \in Nat
    BY <2>2 DEF QueueInv, QueueTypeOK
  <2>6. \A p \in retrieved : p.id \in Nat
    BY RowFields DEF TypeOK
  <2> HIDE DEF new
  <2>7. RetrievedOnce'
    BY <2>2, <2>3, <2>5, <2>6 DEF RetrievedOnce
  <2>8. CallsAreFounded'
    BY DEF CallsAreFounded
  <2>9. CursorsInRange'
    BY <2>2, <2>5 DEF CursorsInRange, TypeOK
  <2>10. AckedWasRetrieved'
    BY <2>2, <2>3 DEF AckedWasRetrieved
  <2>11. CursorMissesNothing'
    <3>1. \A q \in queue' \ queue : ~(q.id <= cursor[q.to])
      <4> SUFFICES ASSUME NEW q \in queue' \ queue, q.id <= cursor[q.to] PROVE FALSE
        OBVIOUS
      <4>1. q.id = nextId /\ q.to \in Client
        BY <2>2, <2>3, RowFields DEF QueueInv, QueueTypeOK
      <4>2. cursor[q.to] \in Nat /\ cursor[q.to] < nextId
        BY <4>1 DEF TypeOK, CursorsInRange
      <4> QED
        BY <4>1, <4>2, <2>5
    <3> QED
      BY <3>1 DEF CursorMissesNothing
  <2> QED
    BY <2>2, <2>4, <2>7, <2>8, <2>9, <2>10, <2>11
<1> QED
  BY <1>1, <1>2

(* A page is returned from what remains of the table. *)
LEMMA AnswerInv ==
  ASSUME IInv, NEW k \in calls, k.op \in {"receive", "poll"},
         queue' \subseteq queue, nextId' = nextId,
         Answer(k.by, Page(queue', k.by, k.cursor)), Done(k),
         UNCHANGED <<accessVars, clock, sockets, changes>>
  PROVE  IInv'
<1> DEFINE page == Page(queue', k.by, k.cursor)
<1> USE DEF IInv, Done, accessVars
<1>1. k.by \in Client /\ k.cursor \in Nat
  BY DEF TypeOK, Call, SendCall, FetchCall, AckCall
<1>2. QueueInv'
  BY DeleteInv
<1>3. /\ page \subseteq queue' /\ page \subseteq queue
      /\ \A q \in page : q \in Row /\ q.acked = FALSE /\ q.to = k.by
  BY RowFields DEF Page, FirstPage, Pending, QueueInv, QueueTypeOK
<1>4. retrieved' = retrieved \cup page
  BY DEF Answer
<1>5. \/ cursor' = cursor
      \/ \E q \in page : q.id > cursor[k.by] /\ cursor' = [cursor EXCEPT ![k.by] = q.id]
  BY DEF Answer
<1>6. \A c \in Client : /\ cursor'[c] \in Nat /\ cursor[c] <= cursor'[c]
                        /\ cursor'[c] # cursor[c] =>
                             \E q \in page : c = k.by /\ cursor'[c] = q.id
  <2>1. cursor \in [Client -> Nat]
    BY DEF TypeOK
  <2>2. CASE cursor' = cursor
    BY <2>1, <2>2
  <2>3. ASSUME NEW q \in page, q.id > cursor[k.by],
               cursor' = [cursor EXCEPT ![k.by] = q.id]
        PROVE  \A c \in Client : /\ cursor'[c] \in Nat /\ cursor[c] <= cursor'[c]
                                 /\ cursor'[c] # cursor[c] => c = k.by /\ cursor'[c] = q.id
    <3>1. q.id \in Nat
      BY <1>3, RowFields
    <3> QED
      BY <1>1, <2>1, <2>3, <3>1
  <2> QED
    BY <1>5, <2>2, <2>3
<1>7. TypeOK'
  <2>1. cursor' \in [Client -> Nat]
    BY <1>1, <1>3, <1>5, RowFields DEF TypeOK
  <2>2. retrieved' \in SUBSET Row
    BY <1>3, <1>4 DEF TypeOK
  <2>3. QueueTypeOK'
    BY <1>2 DEF QueueInv
  <2> QED
    BY <2>1, <2>2, <2>3 DEF TypeOK, AccessTypeOK
<1>8. \A q \in page : Original(q) = q /\ q.id < nextId
  BY <1>3, RowFields DEF QueueInv, IdsAreKeys
<1> HIDE DEF page
<1>9. RetrievedOnce'
  <2>1. \A p \in page : \A q \in queue' : q.id = p.id => q = p
    BY <1>3 DEF QueueInv, IdsAreKeys
  <2> QED
    BY <1>4, <1>8, <2>1 DEF RetrievedOnce
<1>10. CallsAreFounded'
  <2> SUFFICES ASSUME NEW j \in calls', j.op \in {"receive", "poll"}
               PROVE  j.cursor <= cursor'[j.by]
    BY <1>4 DEF CallsAreFounded
  <2>1. j \in calls /\ j.by \in Client /\ j.cursor \in Nat /\ cursor[j.by] \in Nat
    BY DEF TypeOK, Call, SendCall, FetchCall, AckCall
  <2> QED
    BY <1>6, <2>1 DEF CallsAreFounded
<1>11. CursorsInRange'
  BY <1>6, <1>8 DEF CursorsInRange
<1>12. AckedWasRetrieved'
  BY <1>4 DEF AckedWasRetrieved
<1>13. CursorMissesNothing'
  <2> SUFFICES ASSUME NEW q \in queue', q.id <= cursor'[q.to]
               PROVE  Original(q) \in retrieved'
    BY DEF CursorMissesNothing
  <2>1. q \in queue /\ q \in Row /\ q.to \in Client /\ q.id \in Nat
    BY RowFields DEF QueueInv, QueueTypeOK
  <2>2. CASE q.id <= cursor[q.to]
    BY <1>4, <2>1, <2>2 DEF CursorMissesNothing
  <2>3. CASE q.acked
    BY <1>4, <2>1, <2>3 DEF AckedWasRetrieved
  <2>4. CASE ~(q.id <= cursor[q.to]) /\ ~q.acked
    <3>1. PICK p \in page : q.to = k.by /\ cursor'[q.to] = p.id
      BY <1>6, <2>1, <2>4
    <3>2. q.id > k.cursor
      <4>1. k.cursor <= cursor[q.to] /\ cursor[q.to] \in Nat
        BY <3>1, <1>1 DEF CallsAreFounded, TypeOK
      <4> QED
        BY <4>1, <1>1, <2>1, <2>4
    <3>3. q \in Pending(queue', k.by, k.cursor)
      BY <2>4, <3>1, <3>2 DEF Pending
    <3>4. \A r \in queue' : r.id \in Nat
      BY <1>2, RowFields DEF QueueInv, QueueTypeOK
    <3>5. q \in page
      BY <1>1, <1>2, <3>1, <3>3, <3>4, PageIsAPrefix DEF page, QueueInv
    <3> QED
      BY <1>4, <1>8, <3>5
  <2> QED
    BY <2>2, <2>3, <2>4
<1> QED
  BY <1>2, <1>7, <1>9, <1>10, <1>11, <1>12, <1>13

(* receive: what has expired is deleted, then a page is returned. *)
LEMMA ReceiveInv ==
  ASSUME IInv, NEW k \in calls, HandleReceive(k)
  PROVE  IInv'
<1>1. queue' = Unexpired(clock) /\ queue' \subseteq queue
  BY DEF HandleReceive, Unexpired
<1>2. Answer(k.by, Page(queue', k.by, k.cursor))
  BY <1>1 DEF HandleReceive
<1> QED
  BY <1>1, <1>2, AnswerInv DEF HandleReceive

(* The WebSocket: a page of the table as it is. *)
LEMMA PollInv ==
  ASSUME IInv, NEW k \in calls, HandlePoll(k)
  PROVE  IInv'
<1>1. queue' = queue /\ nextId' = nextId
  BY DEF HandlePoll, queueVars
<1>2. Answer(k.by, Page(queue', k.by, k.cursor))
  BY <1>1 DEF HandlePoll
<1> QED
  BY <1>1, <1>2, AnswerInv DEF HandlePoll

(* Acknowledgement: the row it reaches is the one its client was given. *)
LEMMA AckInv ==
  ASSUME IInv, NEW k \in calls, HandleAck(k)
  PROVE  IInv'
<1> USE DEF IInv, HandleAck, Done, accessVars
<1>1. CASE UNCHANGED queue
  <2>1. UNCHANGED queueVars
    BY <1>1 DEF queueVars
  <2>2. TypeOK'
    BY <2>1 DEF TypeOK, QueueTypeOK, AccessTypeOK, queueVars
  <2> QED
    BY <2>1, <2>2, QuietStep
<1>2. CASE MarkAcked(k.by, k.id)
  <2> DEFINE acked(p) == [p EXCEPT !.acked = TRUE]
  <2>1. k.by \in Client /\ k.id \in Nat
    BY DEF TypeOK, Call, SendCall, FetchCall, AckCall
  <2>2. /\ QueueInv'
        /\ \A q \in queue' : \E p \in queue :
             q = IF p.id = k.id /\ p.to = k.by THEN acked(p) ELSE p
    BY <1>2, <2>1, MarkAckedInv
  <2>3. \A p \in queue : /\ p \in Row
                         /\ acked(p).id = p.id /\ acked(p).to = p.to
                         /\ Original(acked(p)) = Original(p)
    BY OriginalOfAcked DEF QueueInv, QueueTypeOK
  <2> HIDE DEF acked
  <2>4. \A q \in queue' : \E p \in queue :
          /\ q.id = p.id /\ q.to = p.to /\ Original(q) = Original(p)
          /\ q = p \/ (p.id = k.id /\ p.to = k.by)
    BY <2>2, <2>3
  <2>5. PICK p0 \in retrieved : p0.id = k.id /\ p0.to = k.by
    BY DEF CallsAreFounded
  <2>6. TypeOK'
    BY <2>2 DEF TypeOK, QueueInv, AccessTypeOK
  <2>7. RetrievedOnce'
    BY <2>4 DEF RetrievedOnce
  <2>8. CallsAreFounded' /\ CursorsInRange'
    BY DEF CallsAreFounded, CursorsInRange
  <2>9. AckedWasRetrieved'
    <3> SUFFICES ASSUME NEW q \in queue', q.acked PROVE Original(q) \in retrieved
      BY DEF AckedWasRetrieved
    <3>1. PICK p \in queue : /\ q.id = p.id /\ q.to = p.to /\ Original(q) = Original(p)
                             /\ q = p \/ (p.id = k.id /\ p.to = k.by)
      BY <2>4
    <3>2. CASE q = p
      BY <3>2 DEF AckedWasRetrieved
    <3>3. CASE p.id = k.id /\ p.to = k.by
      BY <2>5, <3>1, <3>3 DEF RetrievedOnce
    <3> QED
      BY <3>1, <3>2, <3>3
  <2>10. CursorMissesNothing'
    BY <2>4 DEF CursorMissesNothing
  <2> QED
    BY <2>2, <2>6, <2>7, <2>8, <2>9, <2>10
<1> QED
  BY <1>1, <1>2

(* Access and the sockets only matter to what is admitted. *)
LEMMA OtherInv ==
  ASSUME IInv, NEW c \in Client,
         \/ OpenSocket(c) \/ CloseSocket(c) \/ Administer(c)
         \/ \E x \in Address : Enrol(c, x)
  PROVE  IInv'
<1> USE DEF IInv, queueVars, accessVars, requestVars
<1>1. CASE OpenSocket(c) \/ CloseSocket(c)
  <2>1. TypeOK'
    BY <1>1 DEF OpenSocket, CloseSocket, TypeOK, QueueTypeOK, AccessTypeOK
  <2> QED
    BY <1>1, <2>1, QuietStep DEF OpenSocket, CloseSocket
<1>2. CASE Administer(c)
  <2>1. AccessTypeOK'
    BY <1>2 DEF Administer, Approve, Revoke, DropDevice, TypeOK, AccessTypeOK, Access
  <2>2. TypeOK'
    BY <1>2, <2>1 DEF Administer, TypeOK, QueueTypeOK
  <2> QED
    BY <1>2, <2>2, QuietStep DEF Administer
<1>3. ASSUME NEW x \in Address, Enrol(c, x) PROVE IInv'
  <2>1. AccessTypeOK'
    BY <1>3 DEF Enrol, Register, TypeOK, AccessTypeOK, Access
  <2>2. TypeOK'
    BY <1>3, <2>1 DEF Enrol, TypeOK, QueueTypeOK
  <2> QED
    BY <1>3, <2>2, QuietStep DEF Enrol
<1> QED
  BY <1>1, <1>2, <1>3

-----------------------------------------------------------------------------
(* Every step preserves the inductive invariant. *)
LEMMA StepInv == IInv /\ [Next]_vars => IInv'
<1> SUFFICES ASSUME IInv, [Next]_vars PROVE IInv'
  OBVIOUS
<1>1. ASSUME NEW c \in Client, NEW k \in ClientCall(c), Admit(k) PROVE IInv'
  BY <1>1, AdmitInv
<1>2. ASSUME NEW k \in calls, Handle(k) PROVE IInv'
  <2>1. CASE Cancel(k)
    <3>1. TypeOK'
      BY <2>1 DEF Cancel, Done, IInv, TypeOK, QueueTypeOK, AccessTypeOK, queueVars, accessVars
    <3> QED
      BY <2>1, <3>1, QuietStep DEF Cancel, Done
  <2> QED
    BY <1>2, <2>1, SendInv, ReceiveInv, PollInv, AckInv DEF Handle
<1>3. ASSUME NEW c \in Client,
             \/ OpenSocket(c) \/ CloseSocket(c) \/ Administer(c)
             \/ \E x \in Address : Enrol(c, x)
      PROVE  IInv'
  BY <1>3, OtherInv
<1>4. CASE Restart \/ Tick
  <2>1. TypeOK'
    BY <1>4, BoundsAssumption DEF Restart, Tick, IInv, TypeOK, QueueTypeOK, AccessTypeOK,
       queueVars, accessVars
  <2> QED
    BY <1>4, <2>1, QuietStep DEF Restart, Tick
<1>5. CASE UNCHANGED vars
  <2>1. TypeOK'
    BY <1>5 DEF vars, IInv, TypeOK, QueueTypeOK, AccessTypeOK
  <2> QED
    BY <1>5, <2>1, QuietStep DEF vars, queueVars
<1> QED
  BY <1>1, <1>2, <1>3, <1>4, <1>5 DEF Next

(* The inductive invariant holds in every reachable state of the relay. *)
THEOREM Invariance == Spec => []IInv
  BY InitInv, StepInv, PTL DEF Spec

(* Every variable of the relay keeps its type, whatever the bounds.        *)
THEOREM TypeCorrect == Spec => []TypeOK
  BY Invariance, PTL DEF IInv

(* Submission is idempotent: the table never holds two rows for a sender,  *)
(* recipient and message id (INSERT OR IGNORE, messages.rs:79).            *)
THEOREM OneRow == Spec => []OneRowPerSubmission
  BY Invariance, PTL DEF IInv, QueueInv

(* Server ids stay unique although rows are deleted.                       *)
THEOREM UniqueIds == Spec => []IdsAreKeys
  BY Invariance, PTL DEF IInv, QueueInv

(* An acknowledgement, however late, only reaches a row its client was     *)
(* given (messages.rs:206 with the AUTOINCREMENT of database.rs:20).       *)
THEOREM AcksAreFounded == Spec => []AckedWasRetrieved
  BY Invariance, PTL DEF IInv

(* Going on from the cursor misses nothing, for every number of clients,   *)
(* every page limit and every interleaving of requests (messages.rs:120).  *)
THEOREM CursorsAreSafe == Spec => []CursorMissesNothing
  BY Invariance, PTL DEF IInv

(* No request, restart, revocation or acknowledgement removes a message    *)
(* before its expiry time (messages.rs:115).                               *)
THEOREM NothingDeletedEarly == Spec => NoSilentDeletion
<1>1. IInv /\ [Next]_vars => [Kept]_vars
  <2> SUFFICES ASSUME IInv, Next PROVE Kept
    BY DEF vars
  <2>1. CASE queue \subseteq queue'
    BY <2>1 DEF Kept
  <2>2. ASSUME NEW k \in calls, HandleReceive(k) PROVE Kept
    <3>1. \A q \in queue : q.expires \in Nat \cup {NoExpiry}
      BY RowFields DEF IInv, TypeOK, QueueTypeOK
    <3>2. clock \in Nat
      BY BoundsAssumption DEF IInv, TypeOK
    <3> QED
      BY <2>2, <3>1, <3>2 DEF HandleReceive, Unexpired, Kept
  <2>3. ASSUME NEW k \in calls, HandleAck(k), MarkAcked(k.by, k.id) PROVE Kept
    <3>1. k.by \in Client /\ k.id \in Nat
      BY <2>3 DEF HandleAck, IInv, TypeOK, Call, SendCall, FetchCall, AckCall
    <3>2. \A p \in queue :
            (IF p.id = k.id /\ p.to = k.by THEN [p EXCEPT !.acked = TRUE] ELSE p) \in queue'
      BY <2>3, <3>1, MarkAckedInv DEF HandleAck, IInv
    <3>3. \A p \in queue : Original([p EXCEPT !.acked = TRUE]) = Original(p)
      BY OriginalOfAcked DEF IInv, QueueInv, QueueTypeOK
    <3> QED
      BY <3>2, <3>3 DEF Kept
  <2>4. ASSUME NEW k \in calls, HandleSend(k) PROVE queue \subseteq queue'
    BY <2>4 DEF HandleSend, Submit, queueVars
  <2>5. ASSUME NEW k \in calls,
               \/ HandleSend(k) \/ HandlePoll(k) \/ Cancel(k)
               \/ HandleAck(k) /\ ~MarkAcked(k.by, k.id)
        PROVE  queue \subseteq queue'
    BY <2>4, <2>5 DEF HandlePoll, Cancel, HandleAck, queueVars
  <2>6. ASSUME NEW c \in Client,
               \/ \E k \in ClientCall(c) : Admit(k)
               \/ OpenSocket(c) \/ CloseSocket(c) \/ Administer(c)
               \/ \E x \in Address : Enrol(c, x)
        PROVE  queue \subseteq queue'
    BY <2>6 DEF Admit, OpenSocket, CloseSocket, Administer, Enrol, queueVars
  <2>7. CASE Restart \/ Tick
    BY <2>1, <2>7 DEF Restart, Tick, queueVars
  <2> QED
    BY <2>1, <2>2, <2>3, <2>5, <2>6, <2>7 DEF Next, Handle
<1> QED
  BY <1>1, Invariance, PTL DEF Spec, NoSilentDeletion
=============================================================================
