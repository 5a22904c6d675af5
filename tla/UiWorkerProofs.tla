--------------------------- MODULE UiWorkerProofs ---------------------------
(***************************************************************************)
(* UiWorker, for any profiles, contacts, queue and page sizes: the type    *)
(* invariant, LoadingIsOutstanding, WorksInShownProfile and                *)
(* ShownIsConversation.                                                    *)
(*                                                                         *)
(* The argument: while no commands cross there is at most one under way,   *)
(* because a chat command makes the window load and a loading window       *)
(* submits none; so the window still is as it was when the command was     *)
(* submitted, and the history as it was when the command was carried out.  *)
(***************************************************************************)
EXTENDS UiWorker, SequenceTheorems, TLAPS

(* The commands under way, and how many they are. *)
Pending ==
  {queue[i] : i \in DOMAIN queue} \cup ({running} \ {None}) \cup {events[i].cmd : i \in DOMAIN events}

Worked == IF running = None THEN 0 ELSE 1
Single == Len(queue) + Worked + Len(events) <= 1

Underway(ops) == \E c \in Pending : c.op \in ops

(* A command about a contact names it; only loading is done for the first  *)
(* time.                                                                   *)
CommandOk(c) ==
  /\ c.op # "initialize" => c.peer \in Peer
  /\ c.first => c.op \in {"load", "poll"}

CommandsOk == \A c \in Pending : CommandOk(c)

(* What an answer does: the worker changes its session, or the window its  *)
(* list.                                                                   *)
Unlocks(e) == e.ok /\ e.cmd.op = "initialize"
Deletes(e) == e.ok /\ e.cmd.op = "delete"
Shows(e) == e.ok /\ e.cmd.op \in ChatOp \ {"delete"}

Loads == ui.loading => dropped \/ Underway(ChatOp)

(* The last unlocking that the worker has answered is the session's.       *)
SessionOk ==
  /\ \A i \in DOMAIN events :
       Unlocks(events[i]) /\ (\A j \in DOMAIN events : Unlocks(events[j]) => j <= i) =>
         session = events[i].cmd.profile
  /\ (\A i \in DOMAIN events : ~Unlocks(events[i])) /\ ui.ready => session = ui.name

(* Without a crossing, an unlocking is under way alone, and a chat command *)
(* is for the session.                                                     *)
UnlockOk ==
  "unlock" \notin crossed =>
    /\ Underway({"initialize"}) => Single /\ ~ui.ready
    /\ \A c \in Pending : c.op # "initialize" => ui.ready
    /\ \A c \in Pending : c.op \in ChatOp => session = c.shown
    /\ ~ui.ready => ui.contact = None /\ ~ui.selected

(* Without a crossing, the window waits for the one command under way.     *)
Awaited(c) ==
  c.op \in ChatOp =>
    /\ ui.loading /\ ui.contact = c.peer
    /\ c.op \notin {"send", "receive"} => ui.historyLoading
    /\ c.op = "older" => c.before = ui.cursor

WaitOk == crossed = {} => Single /\ \A c \in Pending : Awaited(c)

(* A stretch of a history. *)
Stretch(page, cursor, h) ==
  /\ cursor + Len(page) <= Len(h)
  /\ page = SubSeq(h, cursor + 1, cursor + Len(page))

Replacing ==
  \/ \E c \in Pending : c.first
  \/ \E i \in DOMAIN events : Deletes(events[i])

ListOk ==
  crossed = {} /\ ui.selected /\ ui.contact # None /\ ~unloaded /\ ~Replacing =>
    Stretch(ui.messages, ui.cursor, history[<<session, ui.contact>>])

(* An answer holds a stretch of the history, that of an older page up to   *)
(* where the list begins.                                                  *)
PageOk(e) ==
  Shows(e) =>
    /\ Stretch(e.page, e.cursor, history[<<session, e.cmd.peer>>])
    /\ e.cmd.op = "older" => unloaded \/ ~ui.selected \/ e.cursor + Len(e.page) = ui.cursor

PagesOk == crossed = {} => \A i \in DOMAIN events : PageOk(events[i])

IInv ==
  /\ TypeOK /\ CommandsOk /\ Loads
  /\ SessionOk /\ UnlockOk /\ WaitOk /\ ListOk /\ PagesOk

-----------------------------------------------------------------------------
(* Stretches of a history, and the pages the worker answers with. *)
LEMMA StretchGrows ==
  ASSUME NEW h \in Seq(Nat), NEW t \in Seq(Nat), NEW page \in Seq(Nat), NEW cursor \in Nat,
         Stretch(page, cursor, h)
  PROVE  Stretch(page, cursor, h \o t)
<1>1. Len(h \o t) = Len(h) + Len(t) /\ Len(h) \in Nat /\ Len(t) \in Nat /\ Len(page) \in Nat
  BY ConcatProperties, LenProperties
<1>2. CASE Len(page) = 0
  <2>1. SubSeq(h, cursor + 1, cursor + Len(page)) = << >>
    BY <1>2, SubSeqEmpty
  <2>2. SubSeq(h \o t, cursor + 1, cursor + Len(page)) = << >>
    BY <1>2, SubSeqEmpty
  <2> QED
    BY <1>1, <2>1, <2>2 DEF Stretch
<1>3. CASE Len(page) > 0
  <2>1. cursor + 1 \in 1 .. Len(h) /\ cursor + Len(page) \in 1 .. Len(h)
    BY <1>1, <1>3 DEF Stretch
  <2>2. SubSeq(h \o t, cursor + 1, cursor + Len(page)) = SubSeq(h, cursor + 1, cursor + Len(page))
    BY <2>1, SubSeqOfConcat1
  <2> QED
    BY <1>1, <2>2 DEF Stretch
<1> QED
  BY <1>1, <1>2, <1>3

LEMMA StretchJoins ==
  ASSUME NEW h \in Seq(Nat), NEW p \in Seq(Nat), NEW q \in Seq(Nat), NEW c \in Nat,
         Stretch(p, c, h), Stretch(q, c + Len(p), h)
  PROVE  Stretch(p \o q, c, h)
<1>1. Len(p \o q) = Len(p) + Len(q) /\ Len(h) \in Nat /\ Len(p) \in Nat /\ Len(q) \in Nat
  BY ConcatProperties, LenProperties
<1>2. c + Len(p) + Len(q) <= Len(h)
  BY <1>1 DEF Stretch
<1>3. c + 1 \in 1 .. Len(h) + 1 /\ c + Len(p) \in (c + 1) - 1 .. Len(h)
      /\ c + Len(p) + Len(q) \in c + Len(p) .. Len(h)
  BY <1>1, <1>2
<1>4. SubSeq(h, c + 1, c + Len(p)) \o SubSeq(h, c + Len(p) + 1, c + Len(p) + Len(q))
        = SubSeq(h, c + 1, c + Len(p) + Len(q))
  BY <1>3, ConcatAdjacentSubSeq
<1>5. c + Len(p \o q) = c + Len(p) + Len(q)
  BY <1>1
<1> QED
  BY <1>2, <1>4, <1>5 DEF Stretch

LEMMA PageIs ==
  ASSUME NEW h \in Seq(Nat), NEW cmd \in Command
  PROVE  LET e == Page(h, cmd)
         IN  /\ e \in Event /\ e.cmd = cmd /\ e.ok
             /\ Stretch(e.page, e.cursor, h)
             /\ e.cursor + Len(e.page) = PageEnd(h, cmd)
<1>1. Len(h) \in Nat /\ cmd.before \in Nat /\ PageSize \in Nat
  BY LenProperties, UiAssumption DEF Command
<1> DEFINE s == PageStart(h, cmd)
           t == PageEnd(h, cmd)
<1>2. t \in Nat /\ t <= Len(h) /\ s \in Nat /\ s <= t
  BY <1>1 DEF PageEnd, PageStart
<1>3. /\ Page(h, cmd).page = SubSeq(h, s + 1, t) /\ Page(h, cmd).cursor = s
      /\ Page(h, cmd).cmd = cmd /\ Page(h, cmd).ok = TRUE
  BY DEF Page, Answer, Error
<1> HIDE DEF s, t
<1>4. \A i \in s + 1 .. t : h[i] \in Nat
  BY <1>1, <1>2, ElementOfSeq
<1>5. SubSeq(h, s + 1, t) \in Seq(Nat) /\ Len(SubSeq(h, s + 1, t)) = t - s
  <2>1. s + 1 \in Int /\ t \in Int
    BY <1>2
  <2>2. /\ SubSeq(h, s + 1, t) \in Seq(Nat)
        /\ Len(SubSeq(h, s + 1, t)) = IF s + 1 <= t THEN t - (s + 1) + 1 ELSE 0
    BY <1>4, <2>1, SubSeqProperties
  <2> QED
    BY <1>2, <2>2
<1>6. Page(h, cmd) \in Event
  <2>1. Answer(cmd, None) \in Event
    <3>1. Error(cmd) \in Event
      BY EmptySeq DEF Error, Event
    <3> QED
      BY <3>1 DEF Answer, Event
  <2>2. ASSUME NEW p \in Seq(Nat), NEW b \in BOOLEAN
        PROVE  [Answer(cmd, None) EXCEPT !.page = p, !.cursor = s, !.more = b] \in Event
    BY <1>2, <2>1 DEF Event
  <2>3. /\ Page(h, cmd) = [Answer(cmd, None) EXCEPT !.page = SubSeq(h, s + 1, t), !.cursor = s,
                                                   !.more = (s > 0)]
        /\ (s > 0) \in BOOLEAN
    <3>1. (s > 0) \in BOOLEAN
      OBVIOUS
    <3> QED
      BY <3>1, Zenon DEF Page, s, t
  <2> QED
    BY <1>5, <2>2, <2>3, Zenon
<1>7. s + (t - s) = t
  BY <1>2
<1> QED
  BY <1>2, <1>3, <1>5, <1>6, <1>7 DEF Stretch, t

-----------------------------------------------------------------------------
(* The commands under way. *)
LEMMA ConcatOfThree ==
  ASSUME NEW S, NEW q \in Seq(S), NEW r \in Seq(S), NEW a \in Seq(S)
  PROVE  /\ DOMAIN (q \o r \o a) = 1 .. Len(q) + Len(r) + Len(a)
         /\ \A i \in 1 .. Len(q) + Len(r) + Len(a) :
              (q \o r \o a)[i] = IF i <= Len(q) THEN q[i]
                                 ELSE IF i <= Len(q) + Len(r) THEN r[i - Len(q)]
                                 ELSE a[i - (Len(q) + Len(r))]
<1>1. /\ q \o r \in Seq(S) /\ Len(q \o r) = Len(q) + Len(r)
      /\ \A i \in 1 .. Len(q) + Len(r) :
           (q \o r)[i] = IF i <= Len(q) THEN q[i] ELSE r[i - Len(q)]
  BY ConcatProperties
<1>2. PICK w \in Seq(S) : w = q \o r
  BY <1>1
<1>3. /\ w \o a \in Seq(S) /\ Len(w \o a) = Len(w) + Len(a)
      /\ \A i \in 1 .. Len(w) + Len(a) : (w \o a)[i] = IF i <= Len(w) THEN w[i] ELSE a[i - Len(w)]
  BY ConcatProperties
<1>4. Len(q) \in Nat /\ Len(r) \in Nat /\ Len(a) \in Nat /\ DOMAIN (w \o a) = 1 .. Len(w \o a)
  BY <1>3, LenProperties
<1> QED
  BY <1>1, <1>2, <1>3, <1>4

LEMMA OutstandingIs ==
  ASSUME TypeOK
  PROVE  /\ \A i \in DOMAIN Outstanding : Outstanding[i] \in Pending
         /\ \A c \in Pending : \E i \in DOMAIN Outstanding : Outstanding[i] = c
<1>1. queue \in Seq(Command) /\ events \in Seq(Event) /\ running \in Command \cup {None}
  BY DEF TypeOK
<1>2. PICK r \in Seq(Command) :
        /\ r = IF running = None THEN <<>> ELSE <<running>>
        /\ \A i \in DOMAIN r : running # None /\ r[i] = running
        /\ running # None => Len(r) = 1 /\ r[1] = running
  <2>1. CASE running = None
    <3>1. <<>> \in Seq(Command) /\ DOMAIN <<>> = {}
      BY EmptySeq
    <3> QED
      BY <2>1, <3>1
  <2>2. CASE running # None
    <3>1. /\ <<running>> \in Seq(Command) /\ DOMAIN <<running>> = {1}
          /\ Len(<<running>>) = 1 /\ <<running>>[1] = running
      BY <1>1, <2>2
    <3> QED
      BY <2>2, <3>1
  <2> QED
    BY <2>1, <2>2
<1>3. /\ Len(events) \in Nat /\ DOMAIN events = 1 .. Len(events)
      /\ \A i \in 1 .. Len(events) : events[i] \in Event
  BY <1>1, LenProperties, ElementOfSeq
<1>4. PICK a \in Seq(Command) :
        /\ a = [i \in DOMAIN events |-> events[i].cmd]
        /\ Len(a) = Len(events) /\ \A i \in 1 .. Len(a) : a[i] = events[i].cmd
  <2>1. \A i \in 1 .. Len(events) : events[i].cmd \in Command
    BY <1>3 DEF Event
  <2> DEFINE a == [i \in DOMAIN events |-> events[i].cmd]
  <2>2. a \in [1 .. Len(events) -> Command]
    BY <1>3, <2>1
  <2>3. a \in Seq(Command)
    BY <1>3, <2>2, SeqDef
  <2>4. DOMAIN a = 1 .. Len(events) /\ \A i \in 1 .. Len(events) : a[i] = events[i].cmd
    BY <1>3
  <2> HIDE DEF a
  <2>5. Len(a) = Len(events)
    BY <1>3, <2>3, <2>4, LenProperties
  <2> QED
    BY <2>3, <2>4, <2>5 DEF a
<1>5. Outstanding = queue \o r \o a
  BY <1>2, <1>4 DEF Outstanding
<1>6. /\ DOMAIN Outstanding = 1 .. Len(queue) + Len(r) + Len(a)
      /\ \A i \in 1 .. Len(queue) + Len(r) + Len(a) :
           Outstanding[i] = IF i <= Len(queue) THEN queue[i]
                            ELSE IF i <= Len(queue) + Len(r) THEN r[i - Len(queue)]
                            ELSE a[i - (Len(queue) + Len(r))]
  BY <1>1, <1>5, ConcatOfThree
<1>7. /\ Len(queue) \in Nat /\ DOMAIN queue = 1 .. Len(queue)
      /\ Len(r) \in Nat /\ DOMAIN r = 1 .. Len(r)
      /\ Len(a) \in Nat
  BY <1>1, LenProperties
<1>8. ASSUME NEW i \in DOMAIN Outstanding
      PROVE  Outstanding[i] \in Pending
  <2>1. CASE i <= Len(queue)
    <3>1. Outstanding[i] = queue[i] /\ i \in DOMAIN queue
      BY <1>6, <1>7, <2>1
    <3> QED
      BY <3>1 DEF Pending
  <2>2. CASE i > Len(queue) /\ i <= Len(queue) + Len(r)
    <3>1. Outstanding[i] = r[i - Len(queue)] /\ i - Len(queue) \in DOMAIN r
      BY <1>6, <1>7, <2>2
    <3> QED
      BY <1>2, <3>1 DEF Pending
  <2>3. CASE i > Len(queue) + Len(r)
    <3>1. PICK j \in 1 .. Len(a) : Outstanding[i] = a[j]
      BY <1>6, <1>7, <2>3
    <3> QED
      BY <1>3, <1>4, <3>1 DEF Pending
  <2> QED
    BY <1>6, <1>7, <2>1, <2>2, <2>3
<1>9. ASSUME NEW c \in Pending
      PROVE  \E i \in DOMAIN Outstanding : Outstanding[i] = c
  <2>1. CASE \E j \in DOMAIN queue : c = queue[j]
    <3>1. PICK j \in 1 .. Len(queue) : c = queue[j]
      BY <1>7, <2>1
    <3>2. j \in DOMAIN Outstanding /\ Outstanding[j] = c
      BY <1>6, <1>7, <3>1
    <3> QED
      BY <3>2
  <2>2. CASE c = running /\ running # None
    <3>1. Len(queue) + 1 \in DOMAIN Outstanding /\ Outstanding[Len(queue) + 1] = r[1]
      BY <1>2, <1>6, <1>7, <2>2
    <3> QED
      BY <1>2, <2>2, <3>1
  <2>3. CASE \E j \in DOMAIN events : c = events[j].cmd
    <3>1. PICK j \in 1 .. Len(a) : c = a[j]
      BY <1>3, <1>4, <2>3
    <3>2. /\ Len(queue) + Len(r) + j \in DOMAIN Outstanding
          /\ Outstanding[Len(queue) + Len(r) + j] = a[j]
      BY <1>6, <1>7, <3>1
    <3> QED
      BY <3>1, <3>2
  <2> QED
    BY <2>1, <2>2, <2>3 DEF Pending
<1> QED
  BY <1>8, <1>9

LEMMA UnansweredIs ==
  ASSUME TypeOK
  PROVE  \A ops : Unanswered(ops) <=> Underway(ops)
<1>1. ASSUME NEW ops, Unanswered(ops)
      PROVE  Underway(ops)
  BY <1>1, OutstandingIs DEF Unanswered, Underway
<1>2. ASSUME NEW ops, Underway(ops)
      PROVE  Unanswered(ops)
  <2>1. PICK c \in Pending : c.op \in ops
    BY <1>2 DEF Underway
  <2>2. PICK i \in DOMAIN Outstanding : Outstanding[i] = c
    BY OutstandingIs
  <2> QED
    BY <2>1, <2>2 DEF Unanswered
<1> QED
  BY <1>1, <1>2

LEMMA CountIs ==
  ASSUME TypeOK
  PROVE  /\ Len(queue) \in Nat /\ Len(events) \in Nat /\ Worked \in {0, 1}
         /\ DOMAIN queue = 1 .. Len(queue) /\ DOMAIN events = 1 .. Len(events)
         /\ \A i \in DOMAIN queue : queue[i] \in Command
         /\ \A i \in DOMAIN events : events[i] \in Event /\ events[i].cmd \in Command
         /\ Pending \subseteq Command
         /\ Pending = {} => Len(queue) = 0 /\ Len(events) = 0 /\ running = None
<1>1. queue \in Seq(Command) /\ events \in Seq(Event) /\ running \in Command \cup {None}
  BY DEF TypeOK
<1>2. /\ Len(queue) \in Nat /\ Len(events) \in Nat /\ Worked \in {0, 1}
      /\ DOMAIN queue = 1 .. Len(queue) /\ DOMAIN events = 1 .. Len(events)
  BY <1>1, LenProperties DEF Worked
<1>3. /\ \A i \in DOMAIN queue : queue[i] \in Command
      /\ \A i \in DOMAIN events : events[i] \in Event
  BY <1>1, <1>2, ElementOfSeq
<1>4. \A i \in DOMAIN events : events[i].cmd \in Command
  BY <1>3 DEF Event
<1>5. Pending \subseteq Command
  BY <1>1, <1>3, <1>4 DEF Pending
<1>6. Len(queue) # 0 => queue[1] \in Pending
  BY <1>2 DEF Pending
<1>7. Len(events) # 0 => events[1].cmd \in Pending
  BY <1>2 DEF Pending
<1>8. running # None => running \in Pending
  BY DEF Pending
<1> QED
  BY <1>2, <1>3, <1>4, <1>5, <1>6, <1>7, <1>8

LEMMA SingleOnly ==
  ASSUME TypeOK, Single, NEW c \in Pending, NEW d \in Pending
  PROVE  c = d
<1>1. /\ Len(queue) \in Nat /\ Len(events) \in Nat /\ Worked \in {0, 1}
      /\ DOMAIN queue = 1 .. Len(queue) /\ DOMAIN events = 1 .. Len(events)
  BY CountIs
<1>2. Worked = 0 <=> running = None
  BY DEF Worked
<1>3. CASE Len(queue) = 1
  BY <1>1, <1>2, <1>3 DEF Single, Pending
<1>4. CASE Worked = 1
  BY <1>1, <1>2, <1>4 DEF Single, Pending
<1>5. CASE Len(events) = 1
  BY <1>1, <1>2, <1>5 DEF Single, Pending
<1>6. CASE Len(queue) = 0 /\ Worked = 0 /\ Len(events) = 0
  BY <1>1, <1>2, <1>6 DEF Single, Pending
<1> QED
  BY <1>1, <1>3, <1>4, <1>5, <1>6 DEF Single

(* What the steps of the channels do to the commands under way. *)
LEMMA PendingSame ==
  ASSUME queue' = queue, running' = running, events' = events
  PROVE  Pending' = Pending /\ Single' = Single
  BY DEF Pending, Single, Worked

LEMMA PendingQueued ==
  ASSUME TypeOK, NEW cmd \in Command,
         queue' = Append(queue, cmd), running' = running, events' = events
  PROVE  Pending' = Pending \cup {cmd} /\ (Pending = {} => Single')
<1>1. queue \in Seq(Command) /\ Len(queue) \in Nat /\ DOMAIN queue = 1 .. Len(queue)
  BY CountIs DEF TypeOK
<1>2. /\ Len(queue') = Len(queue) + 1 /\ DOMAIN queue' = 1 .. Len(queue) + 1
      /\ \A i \in 1 .. Len(queue) : queue'[i] = queue[i]
      /\ queue'[Len(queue) + 1] = cmd
  BY <1>1
<1>3. {queue'[i] : i \in DOMAIN queue'} = {queue[i] : i \in DOMAIN queue} \cup {cmd}
  BY <1>1, <1>2
<1>4. Pending' = Pending \cup {cmd}
  BY <1>3 DEF Pending
<1>5. Pending = {} => Single'
  BY <1>1, <1>2, CountIs DEF Single, Worked
<1> QED
  BY <1>4, <1>5

LEMMA PendingReceived ==
  ASSUME TypeOK, running = None, queue # <<>>,
         running' = Head(queue), queue' = Tail(queue), events' = events
  PROVE  Pending' = Pending /\ (Single => Single')
<1>1. queue \in Seq(Command) /\ Len(queue) \in Nat /\ DOMAIN queue = 1 .. Len(queue)
  BY CountIs DEF TypeOK
<1>2. /\ running' = queue[1] /\ running' \in Command
      /\ queue' \in Seq(Command) /\ Len(queue') = Len(queue) - 1 /\ Len(queue) > 0
      /\ \A i \in 1 .. Len(queue) - 1 : queue'[i] = queue[i + 1]
  BY <1>1, HeadTailProperties
<1>3. DOMAIN queue' = 1 .. Len(queue) - 1
  BY <1>2, LenProperties
<1>4. {queue[i] : i \in DOMAIN queue} = {queue'[i] : i \in DOMAIN queue'} \cup {running'}
  <2>1. ASSUME NEW i \in DOMAIN queue
        PROVE  queue[i] = running' \/ \E j \in DOMAIN queue' : queue[i] = queue'[j]
    <3>1. CASE i = 1
      BY <1>2, <3>1
    <3>2. CASE i # 1
      <4>1. i - 1 \in DOMAIN queue' /\ queue'[i - 1] = queue[(i - 1) + 1] /\ (i - 1) + 1 = i
        BY <1>1, <1>2, <1>3, <3>2
      <4> QED
        BY <4>1
    <3> QED
      BY <3>1, <3>2
  <2>2. \A j \in DOMAIN queue' : j + 1 \in DOMAIN queue /\ queue'[j] = queue[j + 1]
    BY <1>1, <1>2, <1>3
  <2>3. 1 \in DOMAIN queue
    BY <1>1, <1>2
  <2> QED
    BY <1>2, <2>1, <2>2, <2>3
<1>5. running' # None
  BY <1>2, NoneAssumption
<1>6. Pending' = Pending
  BY <1>4, <1>5 DEF Pending
<1>7. Single => Single'
  BY <1>2, <1>5, CountIs DEF Single, Worked
<1> QED
  BY <1>6, <1>7

LEMMA PendingReplied ==
  ASSUME TypeOK, running # None, NEW e \in Event, e.cmd = running,
         events' = Append(events, e), running' = None, queue' = queue
  PROVE  Pending' = Pending /\ (Single => Single')
<1>1. events \in Seq(Event) /\ Len(events) \in Nat /\ DOMAIN events = 1 .. Len(events)
  BY CountIs DEF TypeOK
<1>2. /\ Len(events') = Len(events) + 1 /\ DOMAIN events' = 1 .. Len(events) + 1
      /\ \A i \in 1 .. Len(events) : events'[i] = events[i]
      /\ events'[Len(events) + 1] = e
  BY <1>1
<1>3. {events'[i].cmd : i \in DOMAIN events'} = {events[i].cmd : i \in DOMAIN events} \cup {running}
  BY <1>1, <1>2
<1>4. Pending' = Pending
  BY <1>3 DEF Pending
<1>5. Single => Single'
  BY <1>2, CountIs DEF Single, Worked
<1> QED
  BY <1>4, <1>5

LEMMA PendingApplied ==
  ASSUME TypeOK, events # <<>>, events' = Tail(events), running' = running, queue' = queue
  PROVE  /\ Pending = Pending' \cup {Head(events).cmd}
         /\ Single => Pending' = {} /\ Single'
<1>1. events \in Seq(Event) /\ Len(events) \in Nat /\ DOMAIN events = 1 .. Len(events)
  BY CountIs DEF TypeOK
<1>2. /\ Head(events) = events[1]
      /\ events' \in Seq(Event) /\ Len(events') = Len(events) - 1 /\ Len(events) > 0
      /\ \A i \in 1 .. Len(events) - 1 : events'[i] = events[i + 1]
  BY <1>1, HeadTailProperties
<1>3. DOMAIN events' = 1 .. Len(events) - 1
  BY <1>2, LenProperties
<1>4. {events[i].cmd : i \in DOMAIN events}
        = {events'[i].cmd : i \in DOMAIN events'} \cup {Head(events).cmd}
  <2>1. ASSUME NEW i \in DOMAIN events
        PROVE  i = 1 \/ \E j \in DOMAIN events' : events[i] = events'[j]
    <3>1. CASE i # 1
      <4>1. i - 1 \in DOMAIN events' /\ events'[i - 1] = events[(i - 1) + 1] /\ (i - 1) + 1 = i
        BY <1>1, <1>2, <1>3, <3>1
      <4> QED
        BY <4>1
    <3> QED
      BY <3>1
  <2>2. \A j \in DOMAIN events' : j + 1 \in DOMAIN events /\ events'[j] = events[j + 1]
    BY <1>1, <1>2, <1>3
  <2>3. 1 \in DOMAIN events
    BY <1>1, <1>2
  <2> QED
    BY <1>2, <2>1, <2>2, <2>3
<1>5. Pending = Pending' \cup {Head(events).cmd}
  BY <1>4 DEF Pending
<1>6. ASSUME Single
      PROVE  Pending' = {} /\ Single'
  <2>1. Len(queue) = 0 /\ Worked = 0 /\ Len(events') = 0
    BY <1>1, <1>2, <1>6, CountIs DEF Single
  <2>2. running = None
    BY <2>1 DEF Worked
  <2>3. DOMAIN queue' = {} /\ DOMAIN events' = {}
    BY <1>3, <1>2, <2>1, CountIs
  <2> QED
    BY <2>1, <2>2, <2>3 DEF Pending, Single, Worked
<1> QED
  BY <1>5, <1>6

-----------------------------------------------------------------------------
(* What prepare and apply leave of the window. *)
SameList(u, v) ==
  /\ v.name = u.name /\ v.ready = u.ready /\ v.contact = u.contact
  /\ v.messages = u.messages /\ v.cursor = u.cursor

LEMMA PreparedIs ==
  ASSUME NEW u \in UiState, NEW cmd \in Command
  PROVE  LET v == Prepared(u, cmd)
         IN  /\ v \in UiState /\ SameList(u, v)
             /\ cmd.op \notin ChatOp => v = u
             /\ cmd.op \in ChatOp => v.loading
             /\ cmd.op \in ChatOp \ {"send", "receive"} => v.historyLoading
             /\ cmd.op \in {"load", "poll"} => v.selected
             /\ cmd.op \notin {"load", "poll"} => v.selected = u.selected
<1>1. CASE cmd.op \in {"load", "poll"}
  <2>1. Prepared(u, cmd) = [u EXCEPT !.newChat = FALSE, !.selected = TRUE,
                                     !.loading = TRUE, !.historyLoading = TRUE]
    BY <1>1 DEF Prepared
  <2> QED
    BY <1>1, <2>1 DEF UiState, SameList, ChatOp
<1>2. CASE cmd.op \in {"older", "delete"}
  <2>1. Prepared(u, cmd) = [u EXCEPT !.loading = TRUE, !.historyLoading = TRUE]
    BY <1>2 DEF Prepared
  <2> QED
    BY <1>2, <2>1 DEF UiState, SameList, ChatOp
<1>3. CASE cmd.op \in {"send", "receive"}
  <2>1. Prepared(u, cmd) = [u EXCEPT !.loading = TRUE, !.historyLoading = FALSE]
    BY <1>3 DEF Prepared
  <2> QED
    BY <1>3, <2>1 DEF UiState, SameList, ChatOp
<1>4. CASE cmd.op \notin ChatOp
  <2>1. Prepared(u, cmd) = u
    BY <1>4 DEF Prepared, ChatOp
  <2> QED
    BY <1>4, <2>1 DEF SameList, ChatOp
<1> QED
  BY <1>1, <1>2, <1>3, <1>4 DEF ChatOp

LEMMA StoppedIs ==
  ASSUME NEW u \in UiState
  PROVE  LET v == Stopped(u)
         IN  /\ v \in UiState /\ SameList(u, v) /\ v.selected = u.selected
             /\ ~v.loading /\ ~v.historyLoading
  BY DEF Stopped, UiState, SameList

(* An event's answer replaces the list, puts a page before it, or leaves   *)
(* it alone.                                                               *)
LEMMA ApplyIs ==
  ASSUME NEW u \in UiState, NEW e \in Event
  PROVE  LET v == Apply(u, e)
         IN  /\ v \in UiState
             /\ ~e.ok => v = Stopped(u)
             /\ e.ok /\ e.cmd.op = "initialize" =>
                  /\ v.name = e.cmd.profile /\ v.ready
                  /\ v.loading = u.loading /\ v.historyLoading = u.historyLoading
                  /\ v.selected = u.selected
             /\ e.ok /\ e.cmd.op # "initialize" =>
                  v.name = u.name /\ v.ready = u.ready /\ ~v.loading /\ ~v.historyLoading
             /\ e.ok /\ e.cmd.op = "verify" => ~v.selected
             /\ e.ok /\ e.cmd.op = "delete" => v.contact = None /\ ~v.selected
             /\ e.ok /\ e.cmd.op \in ChatOp \ {"delete"} =>
                  /\ v.contact = u.contact /\ v.selected = u.selected
                  /\ v.cursor = e.cursor
                  /\ v.messages = IF e.cmd.op = "older" THEN e.page \o u.messages ELSE e.page
<1>1. /\ e.cmd.op \in Op /\ e.ok \in BOOLEAN /\ e.page \in Seq(Nat) /\ e.cursor \in Nat
      /\ e.more \in BOOLEAN /\ e.contact \in Peer \cup {None} /\ e.cmd.profile \in Profile
  BY DEF Event, Command
<1>2. CASE ~e.ok
  <2>1. Apply(u, e) = Stopped(u)
    BY <1>2 DEF Apply
  <2> QED
    BY <1>2, <2>1, StoppedIs
<1>3. CASE e.ok /\ e.cmd.op = "initialize"
  <2>1. Apply(u, e) = ProfileReady(u, e)
    BY <1>3 DEF Apply
  <2> QED
    BY <1>1, <1>3, <2>1 DEF ProfileReady, UiState, ChatOp
<1>4. CASE e.ok /\ e.cmd.op = "verify"
  <2>1. Apply(u, e) = ContactAdded(u, e)
    BY <1>4 DEF Apply
  <2> QED
    BY <1>1, <1>4, <2>1 DEF ContactAdded, Stopped, UiState, ChatOp
<1>5. CASE e.ok /\ e.cmd.op \in ChatOp
  <2>1. PICK page \in Seq(Nat) : page = IF e.cmd.op = "older" THEN e.page \o u.messages ELSE e.page
    <3>1. u.messages \in Seq(Nat)
      BY DEF UiState
    <3>2. e.page \o u.messages \in Seq(Nat)
      BY <1>1, <3>1, ConcatProperties
    <3> QED
      BY <1>1, <3>2
  <2>2. PICK w \in UiState :
          /\ w = Stopped(u) /\ SameList(u, w) /\ w.selected = u.selected
          /\ ~w.loading /\ ~w.historyLoading
    BY StoppedIs
  <2>3. PICK x \in UiState :
          /\ x = [w EXCEPT !.messages = page, !.cursor = e.cursor, !.more = e.more]
          /\ x.name = u.name /\ x.ready = u.ready /\ x.contact = u.contact
          /\ x.selected = u.selected /\ ~x.loading /\ ~x.historyLoading
          /\ x.messages = page /\ x.cursor = e.cursor
    <3>1. [w EXCEPT !.messages = page, !.cursor = e.cursor, !.more = e.more] \in UiState
      BY <1>1, <2>1 DEF UiState
    <3> QED
      BY <1>1, <2>1, <2>2, <3>1 DEF UiState, SameList
  <2>4. Updated(u, e) = x
    <3>1. w.messages = u.messages
      BY <2>2 DEF SameList
    <3> QED
      BY <2>1, <2>2, <2>3, <3>1, Zenon DEF Updated
  <2>5. CASE e.cmd.op = "delete"
    <3>1. Apply(u, e) = ChatDeleted(u, e)
      BY <1>5, <2>5 DEF Apply
    <3>2. Apply(u, e) = [x EXCEPT !.contact = None, !.selected = FALSE, !.newChat = FALSE]
      BY <2>4, <3>1 DEF ChatDeleted
    <3>3. PICK y \in UiState :
            /\ y = [x EXCEPT !.contact = None, !.selected = FALSE, !.newChat = FALSE]
            /\ y.name = x.name /\ y.ready = x.ready /\ y.contact = None /\ ~y.selected
            /\ ~y.loading /\ ~y.historyLoading
      <4>1. [x EXCEPT !.contact = None, !.selected = FALSE, !.newChat = FALSE] \in UiState
        BY DEF UiState
      <4> QED
        BY <2>3, <4>1 DEF UiState
    <3>4. e.cmd.op \notin {"initialize", "verify"}
      BY <2>5
    <3> QED
      BY <1>5, <2>3, <2>5, <3>2, <3>3, <3>4
  <2>6. CASE e.cmd.op # "delete"
    <3>1. Apply(u, e) = Updated(u, e)
      BY <1>5, <2>6 DEF Apply, ChatOp
    <3>2. Apply(u, e) = x
      BY <2>4, <3>1
    <3>3. e.cmd.op \notin {"initialize", "verify", "delete"}
      BY <1>5, <2>6 DEF ChatOp
    <3>4. x.messages = IF e.cmd.op = "older" THEN e.page \o u.messages ELSE e.page
      BY <2>1, <2>3, Zenon
    <3> QED
      BY <1>5, <2>3, <3>2, <3>3, <3>4, Zenon
  <2> QED
    BY <2>5, <2>6
<1> QED
  BY <1>1, <1>2, <1>3, <1>4, <1>5 DEF Op, ChatOp

-----------------------------------------------------------------------------
(* A callback or the timer submits a command. *)
IssueOk(cmd) ==
  /\ CommandOk(cmd)
  /\ cmd.op = "initialize" => ~ui.ready
  /\ cmd.op \in ChatOp => ~ui.loading /\ ui.contact = cmd.peer /\ cmd.shown = ui.name
  /\ cmd.op \in {"load", "poll"} => ui.selected \/ cmd.first
  /\ cmd.op = "older" => cmd.before = ui.cursor

Marked(cmd) ==
  /\ ui' \in UiState /\ SameList(ui, ui')
  /\ cmd.op \notin ChatOp => ui' = ui
  /\ cmd.op \in {"load", "poll"} => ui'.selected
  /\ cmd.op \notin {"load", "poll"} => ui'.selected = ui.selected
  /\ cmd.op \in ChatOp /\ HasRoom =>
       ui'.loading /\ (cmd.op \notin {"send", "receive"} => ui'.historyLoading)
  /\ cmd.op \in ChatOp /\ ~HasRoom => ~ui'.loading \/ dropped'

Issue(cmd) ==
  /\ cmd \in Command /\ IssueOk(cmd) /\ Marked(cmd)
  /\ queue' = IF HasRoom THEN Append(queue, cmd) ELSE queue
  /\ crossed' = IF HasRoom THEN crossed \cup Crossing(cmd) ELSE crossed
  /\ dropped' \in BOOLEAN /\ (dropped => dropped')
  /\ unloaded' \in BOOLEAN /\ (unloaded => unloaded')
  /\ cmd.op \in ChatOp /\ cmd.first /\ ~HasRoom => unloaded'
  /\ drained' \in {drained, None} /\ issued' \in Nat
  /\ UNCHANGED <<running, events, session, disk>>

LEMMA SubmitIssues ==
  ASSUME TypeOK, NEW cmd \in Command, IssueOk(cmd), Submit(cmd)
  PROVE  Issue(cmd)
<1>1. cmd # None /\ (IsChat(cmd) <=> cmd.op \in ChatOp)
  BY NoneAssumption DEF IsChat
<1>2. ui \in UiState /\ issued \in Nat /\ dropped \in BOOLEAN /\ unloaded \in BOOLEAN
  BY DEF TypeOK
<1>3. PICK v \in UiState : v = Prepared(ui, cmd)
  BY <1>2, PreparedIs
<1>4. ui' = IF HasRoom \/ cmd.op \notin ChatOp THEN v ELSE Stopped(v)
  BY <1>1, <1>3 DEF Submit
<1>5. Marked(cmd)
  BY <1>2, <1>3, <1>4, PreparedIs, StoppedIs DEF Marked, SameList, ChatOp
<1>6. unloaded' = (unloaded \/ (cmd.op \in ChatOp /\ cmd.first /\ ~HasRoom))
  BY <1>1 DEF Submit
<1>7. unloaded' \in BOOLEAN /\ (unloaded => unloaded')
      /\ (cmd.op \in ChatOp /\ cmd.first /\ ~HasRoom => unloaded')
  BY <1>6
<1>8. dropped' = dropped /\ drained' = drained /\ issued' = issued + 1
  BY DEF Submit
<1>9. /\ queue' = IF HasRoom THEN Append(queue, cmd) ELSE queue
      /\ crossed' = IF HasRoom THEN crossed \cup Crossing(cmd) ELSE crossed
      /\ UNCHANGED <<running, events, session, disk>>
  BY DEF Submit
<1>10. dropped' \in BOOLEAN /\ (dropped => dropped') /\ drained' \in {drained, None} /\ issued' \in Nat
  BY <1>2, <1>8
<1> QED
  BY <1>5, <1>7, <1>9, <1>10, Zenon DEF Issue

LEMMA PollIssues ==
  ASSUME TypeOK, TimerPolls
  PROVE  \E cmd : Issue(cmd)
<1> DEFINE cmd == NewCommand("poll", ui.name, ui.contact)
<1>1. ui \in UiState /\ issued \in Nat /\ dropped \in BOOLEAN /\ unloaded \in BOOLEAN
  BY DEF TypeOK
<1>2. ui.contact \in Peer
  BY <1>1 DEF TimerPolls, PollDue, UiState
<1>3. /\ cmd \in Command /\ cmd.op = "poll" /\ cmd.peer = ui.contact /\ cmd.shown = ui.name
      /\ cmd.first = FALSE
  BY <1>1, <1>2 DEF NewCommand, Command, UiState, Op, ChatOp
<1>4. IssueOk(cmd)
  BY <1>2, <1>3 DEF IssueOk, CommandOk, TimerPolls, PollDue
<1>5. ui' = Prepared(ui, cmd) /\ dropped' = (dropped \/ ~HasRoom)
  BY DEF TimerPolls
<1>6. /\ queue' = IF HasRoom THEN Append(queue, cmd) ELSE queue
      /\ crossed' = IF HasRoom THEN crossed \cup Crossing(cmd) ELSE crossed
      /\ unloaded' = unloaded /\ drained' = None /\ issued' = issued
      /\ UNCHANGED <<running, events, session, disk>>
  BY DEF TimerPolls
<1> HIDE DEF cmd
<1>7. Marked(cmd)
  BY <1>1, <1>3, <1>5, PreparedIs DEF Marked, ChatOp
<1> QED
  BY <1>1, <1>3, <1>4, <1>5, <1>6, <1>7 DEF Issue

LEMMA NewCommandIs ==
  ASSUME NEW op \in Op, NEW p \in Profile, NEW c \in Peer \cup {None}
  PROVE  /\ NewCommand(op, p, c) \in Command
         /\ NewCommand(op, p, c).op = op /\ NewCommand(op, p, c).shown = p
         /\ NewCommand(op, p, c).peer = c /\ ~NewCommand(op, p, c).first
<1>1. (op = "poll") \in BOOLEAN
  OBVIOUS
<1> QED
  BY <1>1 DEF NewCommand, Command

LEMMA CallbackIssues ==
  ASSUME TypeOK,
         \/ \E p \in Profile : InitializeProfile(p)
         \/ \E c \in Peer : VerifyAddContact(c)
         \/ SelectContact \/ DeleteChat \/ LoadOlderHistory \/ SendMessage \/ ReceivePasted
  PROVE  \E cmd : Issue(cmd)
<1>1. /\ ui \in UiState /\ ui.name \in Profile /\ ui.contact \in Peer \cup {None}
      /\ ui.cursor \in Nat /\ ui.relay \in BOOLEAN /\ ui.loading \in BOOLEAN
  BY DEF TypeOK, UiState
<1>2. ASSUME NEW p \in Profile, InitializeProfile(p)
      PROVE  \E cmd : Issue(cmd)
  <2> DEFINE cmd == NewCommand("initialize", p, None)
  <2>0. "initialize" \in Op
    BY DEF Op, ChatOp
  <2>1. /\ cmd \in Command
        /\ cmd.op = "initialize" /\ cmd.shown = p /\ ~cmd.first
    BY <1>1, <2>0, NewCommandIs
  <2> HIDE DEF cmd
  <2>2. ~ui.ready /\ Submit(cmd)
    BY <1>2 DEF cmd, InitializeProfile
  <2>3. IssueOk(cmd)
    BY <1>1, <2>1, <2>2 DEF IssueOk, CommandOk, ChatOp
  <2> QED
    BY <2>1, <2>2, <2>3, SubmitIssues
<1>3. ASSUME NEW c \in Peer, VerifyAddContact(c)
      PROVE  \E cmd : Issue(cmd)
  <2> DEFINE cmd == NewCommand("verify", ui.name, c)
  <2>0. "verify" \in Op
    BY DEF Op, ChatOp
  <2>1. /\ cmd \in Command
        /\ cmd.op = "verify" /\ cmd.peer = c /\ cmd.shown = ui.name /\ ~cmd.first
    BY <1>1, <2>0, NewCommandIs
  <2> HIDE DEF cmd
  <2> QED
    BY <1>3, <2>1, SubmitIssues DEF cmd, VerifyAddContact, IssueOk, CommandOk, ChatOp
<1>4. ASSUME SelectContact
      PROVE  \E cmd : Issue(cmd)
  <2>1. PICK op \in {"poll", "load"} : op = IF ui.relay THEN "poll" ELSE "load"
    OBVIOUS
  <2>2. ui.contact # None /\ ~ui.loading
        /\ Submit([NewCommand(op, ui.name, ui.contact) EXCEPT !.first = TRUE])
    BY <1>4, <2>1 DEF SelectContact
  <2> DEFINE cmd == NewCommand(op, ui.name, ui.contact)
  <2>0. op \in Op
    BY DEF Op, ChatOp
  <2>3. /\ cmd \in Command
        /\ cmd.op = op /\ cmd.peer = ui.contact /\ cmd.shown = ui.name
    BY <1>1, <2>0, NewCommandIs
  <2> HIDE DEF cmd
  <2>4. PICK d \in Command : d = [cmd EXCEPT !.first = TRUE]
    BY <2>3 DEF Command
  <2>5. d.op = op /\ d.peer = ui.contact /\ d.shown = ui.name /\ d.first
    BY <2>3, <2>4 DEF Command
  <2>6. IssueOk(d)
    BY <1>1, <2>2, <2>5 DEF IssueOk, CommandOk, ChatOp
  <2> QED
    BY <2>2, <2>4, <2>6, SubmitIssues DEF cmd
<1>5. ASSUME DeleteChat
      PROVE  \E cmd : Issue(cmd)
  <2> DEFINE cmd == NewCommand("delete", ui.name, ui.contact)
  <2>0. "delete" \in Op
    BY DEF Op, ChatOp
  <2>1. /\ cmd \in Command
        /\ cmd.op = "delete" /\ cmd.peer = ui.contact /\ cmd.shown = ui.name /\ ~cmd.first
    BY <1>1, <2>0, NewCommandIs
  <2> HIDE DEF cmd
  <2> QED
    BY <1>1, <1>5, <2>1, SubmitIssues DEF cmd, DeleteChat, IssueOk, CommandOk, ChatOp
<1>6. ASSUME LoadOlderHistory
      PROVE  \E cmd : Issue(cmd)
  <2> DEFINE cmd == NewCommand("older", ui.name, ui.contact)
  <2>0. "older" \in Op
    BY DEF Op, ChatOp
  <2>1. /\ cmd \in Command
        /\ cmd.op = "older" /\ cmd.peer = ui.contact /\ cmd.shown = ui.name /\ ~cmd.first
    BY <1>1, <2>0, NewCommandIs
  <2> HIDE DEF cmd
  <2>2. PICK d \in Command : d = [cmd EXCEPT !.before = ui.cursor]
    BY <1>1, <2>1 DEF Command
  <2>3. /\ d.op = "older" /\ d.peer = ui.contact /\ d.shown = ui.name /\ ~d.first
        /\ d.before = ui.cursor
    BY <2>1, <2>2 DEF Command
  <2>4. ui.contact # None /\ ~ui.loading /\ Submit(d)
    BY <1>6, <2>2 DEF cmd, LoadOlderHistory, ListShown, ChatOpen
  <2> QED
    BY <1>1, <2>3, <2>4, SubmitIssues DEF IssueOk, CommandOk, ChatOp
<1>7. ASSUME SendMessage
      PROVE  \E cmd : Issue(cmd)
  <2> DEFINE cmd == NewCommand("send", ui.name, ui.contact)
  <2>0. "send" \in Op
    BY DEF Op, ChatOp
  <2>1. /\ cmd \in Command
        /\ cmd.op = "send" /\ cmd.peer = ui.contact /\ cmd.shown = ui.name /\ ~cmd.first
    BY <1>1, <2>0, NewCommandIs
  <2> HIDE DEF cmd
  <2>2. PICK d \in Command : d = [cmd EXCEPT !.relay = ui.relay]
    BY <1>1, <2>1 DEF Command
  <2>3. d.op = "send" /\ d.peer = ui.contact /\ d.shown = ui.name /\ ~d.first
    BY <2>1, <2>2 DEF Command
  <2>4. ui.contact # None /\ ~ui.loading /\ Submit(d)
    BY <1>7, <2>2 DEF cmd, SendMessage, InputShown
  <2> QED
    BY <1>1, <2>3, <2>4, SubmitIssues DEF IssueOk, CommandOk, ChatOp
<1>8. ASSUME ReceivePasted
      PROVE  \E cmd : Issue(cmd)
  <2> DEFINE cmd == NewCommand("receive", ui.name, ui.contact)
  <2>0. "receive" \in Op
    BY DEF Op, ChatOp
  <2>1. /\ cmd \in Command
        /\ cmd.op = "receive" /\ cmd.peer = ui.contact /\ cmd.shown = ui.name /\ ~cmd.first
    BY <1>1, <2>0, NewCommandIs
  <2> HIDE DEF cmd
  <2> QED
    BY <1>1, <1>8, <2>1, SubmitIssues DEF cmd, ReceivePasted, InputShown, IssueOk, CommandOk, ChatOp
<1> QED
  BY <1>2, <1>3, <1>4, <1>5, <1>6, <1>7, <1>8

(* Steps that change at most the name, before the profile is ready, and    *)
(* what is laid over the conversation.                                     *)
Look ==
  /\ ui' \in UiState
  /\ ui'.ready = ui.ready /\ ui'.contact = ui.contact /\ ui'.selected = ui.selected
  /\ ui'.loading = ui.loading /\ ui'.historyLoading = ui.historyLoading
  /\ ui'.messages = ui.messages /\ ui'.cursor = ui.cursor
  /\ ui.ready => ui'.name = ui.name
  /\ drained' \in (0 .. Len(events)) \cup {None}
  /\ UNCHANGED <<queue, running, events, session, disk, issued, crossed, dropped, unloaded>>

LEMMA Looks ==
  ASSUME TypeOK,
         \/ \E p \in Profile : SelectProfile(p)
         \/ NewChat \/ ChooseTransport \/ ReturnToExistingChat
         \/ DrainEvents \/ TimerReturns
  PROVE  Look
<1>1. ui \in UiState /\ drained \in (0 .. Len(events)) \cup {None} /\ Len(events) \in Nat
  BY CountIs DEF TypeOK
<1>2. ASSUME NEW p \in Profile, SelectProfile(p)
      PROVE  Look
  BY <1>1, <1>2 DEF SelectProfile, OnUi, Look, UiState
<1>3. CASE NewChat
  BY <1>1, <1>3 DEF NewChat, OnUi, Look, UiState
<1>4. CASE ChooseTransport
  <2>1. PICK b \in BOOLEAN : b = ~ui.relay
    OBVIOUS
  <2>2. ui' = [ui EXCEPT !.relay = b]
    BY <1>4, <2>1, Zenon DEF ChooseTransport
  <2>3. drained' = drained
        /\ UNCHANGED <<queue, running, events, session, disk, issued, crossed, dropped, unloaded>>
    BY <1>4 DEF ChooseTransport, OnUi
  <2> QED
    BY <1>1, <2>2, <2>3 DEF Look, UiState
<1>5. CASE ReturnToExistingChat
  BY <1>1, <1>5 DEF ReturnToExistingChat, OnUi, Look, UiState
<1>6. CASE DrainEvents
  BY <1>1, <1>6 DEF DrainEvents, Look
<1>7. CASE TimerReturns
  BY <1>1, <1>7 DEF TimerReturns, Look
<1> QED
  BY <1>2, <1>3, <1>4, <1>5, <1>6, <1>7

(* The worker answers its command. *)
Conversations == Profile \X Peer

HistoriesOk ==
  /\ entries \in Nat /\ history \in [Conversations -> Seq(1 .. entries)]
  /\ session \in Profile \cup {None} /\ saved \in [Profile -> SUBSET Peer]

Replied(e) ==
  /\ running # None /\ e \in Event /\ e.cmd = running /\ Reply(e)
  /\ HistoriesOk'
  /\ IF Unlocks(e) THEN session' = e.cmd.profile ELSE session' = session
  /\ Deletes(e) \/ \A x \in Conversations : \E t \in Seq(Nat) : history'[x] = history[x] \o t
  /\ Shows(e) =>
       /\ session \in Profile
       /\ Stretch(e.page, e.cursor, history'[<<session, e.cmd.peer>>])
       /\ e.cmd.op = "older" =>
            e.cursor + Len(e.page) = PageEnd(history[<<session, e.cmd.peer>>], e.cmd)

LEMMA ErrorIs ==
  ASSUME NEW cmd \in Command
  PROVE  Error(cmd) \in Event /\ Error(cmd).cmd = cmd /\ ~Error(cmd).ok
  BY EmptySeq DEF Error, Event

LEMMA AnswerIs ==
  ASSUME NEW cmd \in Command, NEW c \in Peer \cup {None}
  PROVE  Answer(cmd, c) \in Event /\ Answer(cmd, c).cmd = cmd
<1>1. Error(cmd) \in Event /\ Error(cmd).cmd = cmd
  BY ErrorIs
<1> QED
  BY <1>1 DEF Answer, Event

LEMMA HistoriesNat ==
  ASSUME HistoriesOk
  PROVE  \A x \in Conversations : history[x] \in Seq(Nat) /\ history[x] \o <<>> = history[x]
<1>1. ASSUME NEW x \in Conversations
      PROVE  history[x] \in Seq(Nat) /\ history[x] \o <<>> = history[x]
  <2>1. history[x] \in Seq(1 .. entries) /\ 1 .. entries \subseteq Nat
    BY DEF HistoriesOk
  <2>2. history[x] \in Seq(Nat)
    BY <2>1, SeqMonotonic
  <2> QED
    BY <2>2, ConcatEmptySeq
<1> QED
  BY <1>1

(* Nothing was added when no history changes. *)
LEMMA NoneAdded ==
  ASSUME HistoriesOk, history' = history
  PROVE  \A x \in Conversations : \E t \in Seq(Nat) : history'[x] = history[x] \o t
<1>1. <<>> \in Seq(Nat)
  BY EmptySeq
<1> QED
  BY <1>1, HistoriesNat

LEMMA SomeAdded ==
  ASSUME HistoriesOk, session \in Profile, running.peer \in Peer,
         NEW n \in 0 .. 1, Adds(n), session' = session, saved' = saved
  PROVE  /\ HistoriesOk'
         /\ Grown(n) \in Seq(Nat) /\ history'[Conversation] = Grown(n)
         /\ \A x \in Conversations : \E t \in Seq(Nat) : history'[x] = history[x] \o t
<1> DEFINE t == [i \in 1 .. n |-> entries + i]
<1>1. n \in Nat /\ entries \in Nat /\ entries' = entries + n /\ entries' \in Nat
  BY DEF HistoriesOk, Adds
<1>2. t \in [1 .. n -> 1 .. entries'] /\ 1 .. entries' \subseteq Nat
  BY <1>1
<1>3. t \in Seq(1 .. entries')
  BY <1>1, <1>2, SeqDef
<1>4. t \in Seq(Nat)
  BY <1>2, <1>3, SeqMonotonic
<1>5. Conversation \in Conversations
  BY DEF Conversation, Conversations
<1>6. \A x \in Conversations : history[x] \in Seq(1 .. entries')
  <2>1. ASSUME NEW x \in Conversations
        PROVE  history[x] \in Seq(1 .. entries')
    <3>1. history[x] \in Seq(1 .. entries) /\ 1 .. entries \subseteq 1 .. entries'
      BY <1>1 DEF HistoriesOk
    <3> QED
      BY <3>1, SeqMonotonic
  <2> QED
    BY <2>1
<1> HIDE DEF t
<1>7. Grown(n) = history[Conversation] \o t
  BY DEF Grown, t
<1>8. Grown(n) \in Seq(1 .. entries')
  BY <1>3, <1>5, <1>6, <1>7, ConcatProperties
<1>9. history' = [history EXCEPT ![Conversation] = Grown(n)]
  BY DEF Adds
<1>10. DOMAIN history = Conversations
  BY DEF HistoriesOk
<1>11. history' \in [Conversations -> Seq(1 .. entries')]
  <2>1. \A x \in Conversations : history'[x] \in Seq(1 .. entries')
    BY <1>5, <1>6, <1>8, <1>9, <1>10
  <2>2. history' = [x \in Conversations |-> history'[x]]
    BY <1>9, <1>10
  <2> QED
    BY <2>1, <2>2
<1>12. \A x \in Conversations : \E u \in Seq(Nat) : history'[x] = history[x] \o u
  <2>1. <<>> \in Seq(Nat)
    BY EmptySeq
  <2>2. \A x \in Conversations : history'[x] = IF x = Conversation THEN history[x] \o t ELSE history[x]
    BY <1>5, <1>7, <1>9, <1>10
  <2> QED
    BY <1>4, <2>1, <2>2, HistoriesNat
<1>13. Grown(n) \in Seq(Nat)
  BY <1>2, <1>8, SeqMonotonic
<1>14. history'[Conversation] = Grown(n)
  BY <1>5, <1>9, <1>10
<1> QED
  BY <1>1, <1>11, <1>12, <1>13, <1>14 DEF HistoriesOk

LEMMA FinishReplies ==
  ASSUME TypeOK, CommandsOk, Finish
  PROVE  \E e : Replied(e)
<1>1. HistoriesOk
  BY DEF TypeOK, HistoriesOk, Conversations
<1>2. running # None
  BY DEF Finish, InitializeDone, VerifyDone, PageDone, DeleteDone, ChatDone, Fails, Working
<1>3. running \in Command /\ CommandOk(running) /\ running.profile \in Profile
  <2>1. running \in Command /\ running \in Pending
    BY <1>2 DEF TypeOK, Pending
  <2> QED
    BY <2>1 DEF CommandsOk, Command
<1>4. CASE InitializeDone
  <2>1. PICK c \in Peer \cup {None} : Reply(Answer(running, c))
    BY <1>1, <1>3, <1>4 DEF InitializeDone, HistoriesOk
  <2>2. Answer(running, c) \in Event /\ Answer(running, c).cmd = running
    BY <1>3, AnswerIs
  <2>3. Answer(running, c).ok
    BY DEF Answer, Error
  <2>4. /\ running.op = "initialize" /\ session' = running.profile
        /\ history' = history /\ saved' = saved /\ entries' = entries
    BY <1>4 DEF InitializeDone, disk
  <2>5. HistoriesOk'
    BY <1>1, <1>3, <2>4 DEF HistoriesOk
  <2> QED
    BY <1>1, <1>2, <2>1, <2>2, <2>3, <2>4, <2>5, NoneAdded DEF Replied, Unlocks, Deletes, Shows, ChatOp
<1>5. CASE VerifyDone
  <2>1. /\ running.op = "verify" /\ session' = session /\ history' = history /\ entries' = entries
        /\ Reply(Answer(running, running.peer))
        /\ saved' = [saved EXCEPT ![running.profile] = @ \cup {running.peer}]
    BY <1>5 DEF VerifyDone
  <2>2. running.peer \in Peer
    BY <1>3, <2>1 DEF CommandOk
  <2>3. /\ Answer(running, running.peer) \in Event
        /\ Answer(running, running.peer).cmd = running
    BY <1>3, <2>2, AnswerIs
  <2>4. HistoriesOk'
    BY <1>1, <1>3, <2>1, <2>2 DEF HistoriesOk
  <2> QED
    BY <1>1, <1>2, <2>1, <2>3, <2>4, NoneAdded DEF Replied, Unlocks, Deletes, Shows, ChatOp
<1>6. CASE PageDone
  <2>1. /\ running.op \in {"load", "older"} /\ session # None
        /\ session' = session /\ history' = history /\ entries' = entries /\ saved' = saved
        /\ Reply(Page(history[Conversation], running))
    BY <1>6 DEF PageDone, Working, disk
  <2>2. session \in Profile /\ running.peer \in Peer
    BY <1>1, <1>3, <2>1 DEF CommandOk, HistoriesOk
  <2>3. Conversation = <<session, running.peer>> /\ Conversation \in Conversations
    BY <2>2 DEF Conversation, Conversations
  <2>4. history[Conversation] \in Seq(Nat)
    BY <1>1, <2>3, HistoriesNat
  <2>5. PICK e : /\ e = Page(history[Conversation], running)
                 /\ e \in Event /\ e.cmd = running /\ e.ok
                 /\ Stretch(e.page, e.cursor, history[Conversation])
                 /\ e.cursor + Len(e.page) = PageEnd(history[Conversation], running)
    BY <1>3, <2>4, PageIs
  <2>6. HistoriesOk'
    BY <1>1, <2>1 DEF HistoriesOk
  <2> QED
    BY <1>1, <1>2, <2>1, <2>2, <2>3, <2>5, <2>6, NoneAdded DEF Replied, Unlocks, Deletes, Shows, ChatOp
<1>7. CASE DeleteDone
  <2>1. /\ running.op = "delete" /\ session # None
        /\ session' = session /\ entries' = entries /\ saved' = saved
        /\ history' = [history EXCEPT ![Conversation] = <<>>]
        /\ Reply(Answer(running, None))
    BY <1>7 DEF DeleteDone, Working
  <2>2. Answer(running, None) \in Event /\ Answer(running, None).cmd = running
    BY <1>3, AnswerIs
  <2>3. Answer(running, None).ok
    BY DEF Answer, Error
  <2>4. HistoriesOk'
    <3>1. <<>> \in Seq(1 .. entries)
      BY EmptySeq
    <3> QED
      BY <1>1, <2>1, <3>1 DEF HistoriesOk
  <2> QED
    BY <1>2, <2>1, <2>2, <2>3, <2>4 DEF Replied, Unlocks, Deletes, Shows
<1>8. CASE ChatDone
  <2>1. /\ running.op \in {"send", "receive", "poll"} /\ session # None
        /\ running.peer \in saved[session] /\ session' = session /\ saved' = saved
    BY <1>8 DEF ChatDone, Working
  <2>2. PICK n \in 0 .. 1 :
          Adds(n) /\ (Reply(Page(Grown(n), running)) \/ Reply(Error(running)))
    BY <1>8 DEF ChatDone
  <2>3. session \in Profile /\ running.peer \in Peer
    BY <1>1, <1>3, <2>1 DEF HistoriesOk, CommandOk
  <2>4. /\ HistoriesOk' /\ Grown(n) \in Seq(Nat) /\ history'[Conversation] = Grown(n)
        /\ \A x \in Conversations : \E t \in Seq(Nat) : history'[x] = history[x] \o t
    BY <1>1, <2>1, <2>2, <2>3, SomeAdded
  <2>5. Conversation = <<session, running.peer>>
    BY DEF Conversation
  <2>6. CASE Reply(Page(Grown(n), running))
    <3>1. PICK e : /\ e = Page(Grown(n), running)
                   /\ e \in Event /\ e.cmd = running /\ e.ok
                   /\ Stretch(e.page, e.cursor, Grown(n))
      BY <1>3, <2>4, PageIs
    <3> QED
      BY <1>2, <2>1, <2>3, <2>4, <2>5, <2>6, <3>1 DEF Replied, Unlocks
  <2>7. CASE Reply(Error(running))
    BY <1>2, <1>3, <2>1, <2>4, <2>7, ErrorIs DEF Replied, Unlocks, Deletes, Shows
  <2> QED
    BY <2>2, <2>6, <2>7
<1>9. CASE Fails
  <2>1. /\ Reply(Error(running)) /\ session' = session
        /\ history' = history /\ entries' = entries /\ saved' = saved
    BY <1>9 DEF Fails, disk
  <2>2. HistoriesOk'
    BY <1>1, <2>1 DEF HistoriesOk
  <2> QED
    BY <1>1, <1>2, <1>3, <2>1, <2>2, NoneAdded, ErrorIs DEF Replied, Unlocks, Deletes, Shows
<1> QED
  BY <1>4, <1>5, <1>6, <1>7, <1>8, <1>9 DEF Finish

-----------------------------------------------------------------------------
(* Every step is of one of six kinds. *)
LEMMA StepKinds ==
  ASSUME TypeOK, CommandsOk, [Next]_vars
  PROVE  \/ UNCHANGED vars
         \/ \E cmd : Issue(cmd)
         \/ Look
         \/ Receive
         \/ \E e : Replied(e)
         \/ ApplyEvent
<1>1. CASE UNCHANGED vars
  BY <1>1
<1>2. CASE LoginPage
  BY <1>2, CallbackIssues, Looks DEF LoginPage
<1>3. CASE Contacts
  BY <1>3, CallbackIssues, Looks DEF Contacts
<1>4. CASE Chat
  BY <1>4, CallbackIssues, Looks DEF Chat
<1>5. CASE Timer
  BY <1>5, PollIssues, Looks DEF Timer
<1>6. CASE Receive
  BY <1>6
<1>7. CASE Finish
  BY <1>7, FinishReplies
<1> QED
  BY <1>1, <1>2, <1>3, <1>4, <1>5, <1>6, <1>7 DEF Next

(* What each kind does to the commands under way. *)
LEMMA IssuePending ==
  ASSUME TypeOK, NEW cmd, Issue(cmd)
  PROVE  /\ Pending \subseteq Pending' /\ Pending' \subseteq Pending \cup {cmd}
         /\ HasRoom => Pending' = Pending \cup {cmd} /\ (Pending = {} => Single')
         /\ ~HasRoom => Pending' = Pending /\ Single' = Single
<1>1. cmd \in Command /\ running' = running /\ events' = events
  BY DEF Issue
<1>2. CASE HasRoom
  <2>1. queue' = Append(queue, cmd)
    BY <1>2 DEF Issue
  <2> QED
    BY <1>1, <1>2, <2>1, PendingQueued
<1>3. CASE ~HasRoom
  <2>1. queue' = queue
    BY <1>3 DEF Issue
  <2> QED
    BY <1>1, <1>3, <2>1, PendingSame
<1> QED
  BY <1>2, <1>3

LEMMA QuietPending ==
  ASSUME TypeOK, UNCHANGED vars \/ Look \/ Receive \/ \E e : Replied(e)
  PROVE  Pending' = Pending /\ (Single => Single')
<1>1. CASE UNCHANGED vars
  BY <1>1, PendingSame DEF vars
<1>2. CASE Look
  BY <1>2, PendingSame DEF Look
<1>3. CASE Receive
  BY <1>3, PendingReceived DEF Receive
<1>4. CASE \E e : Replied(e)
  BY <1>4, PendingReplied DEF Replied, Reply
<1> QED
  BY <1>1, <1>2, <1>3, <1>4

LEMMA ApplyPending ==
  ASSUME TypeOK, ApplyEvent
  PROVE  /\ events # <<>> /\ Head(events) \in Event /\ Head(events) = events[1] /\ 1 \in DOMAIN events
         /\ Head(events).cmd \in Pending /\ Head(events).cmd \in Command
         /\ Pending = Pending' \cup {Head(events).cmd}
         /\ Single => Pending' = {} /\ Single' /\ Len(events) = 1 /\ DOMAIN events' = {}
<1>1. events \in Seq(Event) /\ Len(events) \in Nat /\ drained \in 0 .. Len(events) /\ drained > 0
      /\ DOMAIN events = 1 .. Len(events)
  BY CountIs DEF ApplyEvent, TypeOK
<1>2. events # <<>> /\ Len(events) > 0
  BY <1>1, EmptySeq
<1>3. /\ Head(events) \in Event /\ Head(events) = events[1]
      /\ Tail(events) \in Seq(Event) /\ Len(Tail(events)) = Len(events) - 1
  BY <1>1, <1>2, HeadTailProperties
<1>4. events' = Tail(events) /\ queue' = queue /\ running' = running
  BY DEF ApplyEvent
<1>5. /\ Pending = Pending' \cup {Head(events).cmd}
      /\ Single => Pending' = {} /\ Single'
  BY <1>2, <1>4, PendingApplied
<1>6. Head(events).cmd \in Command
  BY <1>3 DEF Event
<1>7. Single => Len(events) = 1
  BY <1>1, <1>2, CountIs DEF Single
<1>8. DOMAIN Tail(events) = 1 .. Len(events) - 1
  BY <1>3, LenProperties
<1> QED
  BY <1>1, <1>2, <1>3, <1>4, <1>5, <1>6, <1>7, <1>8

LEMMA TypeKept ==
  ASSUME TypeOK, CommandsOk, [Next]_vars
  PROVE  TypeOK'
<1>0. Len(events) \in Nat /\ Len(queue) \in Nat /\ QueueSize \in Nat /\ queue \in Seq(Command)
      /\ events \in Seq(Event)
  BY CountIs, UiAssumption DEF TypeOK
<1>1. CASE UNCHANGED vars
  BY <1>1 DEF vars, TypeOK
<1>2. ASSUME NEW cmd, Issue(cmd)
      PROVE  TypeOK'
  <2>1. queue' \in Seq(Command) /\ Len(queue') <= QueueSize
    <3>1. CASE HasRoom
      BY <1>0, <1>2, <3>1 DEF Issue, HasRoom
    <3>2. CASE ~HasRoom
      BY <1>0, <1>2, <3>2 DEF Issue, TypeOK
    <3> QED
      BY <3>1, <3>2
  <2>2. crossed' \subseteq {"unlock", "verify"}
    <3>1. Crossing(cmd) \subseteq {"unlock", "verify"}
      BY DEF Crossing
    <3> QED
      BY <1>2, <3>1 DEF Issue, TypeOK
  <2>3. ui' \in UiState /\ dropped' \in BOOLEAN /\ unloaded' \in BOOLEAN /\ issued' \in Nat
    BY <1>2 DEF Issue, Marked
  <2>4. /\ running' = running /\ events' = events /\ session' = session
        /\ history' = history /\ saved' = saved /\ entries' = entries
        /\ drained' \in {drained, None}
    BY <1>2 DEF Issue, disk
  <2> QED
    BY <2>1, <2>2, <2>3, <2>4 DEF TypeOK
<1>3. CASE Look
  BY <1>3 DEF Look, TypeOK, disk
<1>4. CASE Receive
  <2>1. Head(queue) \in Command /\ Tail(queue) \in Seq(Command) /\ Len(Tail(queue)) = Len(queue) - 1
    BY <1>0, <1>4, HeadTailProperties DEF Receive
  <2> QED
    BY <1>0, <1>4, <2>1 DEF Receive, TypeOK, disk
<1>5. ASSUME NEW e, Replied(e)
      PROVE  TypeOK'
  <2>1. e \in Event /\ events' = Append(events, e)
    BY <1>5 DEF Replied, Reply
  <2>2. events' \in Seq(Event) /\ Len(events') = Len(events) + 1
    BY <1>0, <2>1
  <2>3. /\ running' = None /\ ui' = ui /\ queue' = queue /\ drained' = drained /\ issued' = issued
        /\ crossed' = crossed /\ dropped' = dropped /\ unloaded' = unloaded /\ HistoriesOk'
    BY <1>5 DEF Replied, Reply
  <2>4. drained' \in (0 .. Len(events')) \cup {None}
    BY <1>0, <2>2, <2>3 DEF TypeOK
  <2> QED
    BY <2>2, <2>3, <2>4 DEF TypeOK, HistoriesOk, Conversations
<1>6. CASE ApplyEvent
  <2>1. events # <<>> /\ Head(events) \in Event
    BY <1>6, ApplyPending
  <2>2. ui' \in UiState
    <3>1. ui \in UiState /\ ui' = Apply(ui, Head(events))
      BY <1>6 DEF ApplyEvent, TypeOK
    <3> QED
      BY <2>1, <3>1, ApplyIs
  <2>3. events' \in Seq(Event) /\ Len(events') = Len(events) - 1
    BY <1>0, <1>6, <2>1, HeadTailProperties DEF ApplyEvent
  <2>4. drained' \in 0 .. Len(events')
    BY <1>0, <1>6, <2>3 DEF ApplyEvent, TypeOK
  <2>5. unloaded' \in BOOLEAN
    BY <1>6 DEF ApplyEvent
  <2> QED
    BY <1>6, <2>2, <2>3, <2>4, <2>5 DEF ApplyEvent, TypeOK, disk
<1> QED
  BY <1>1, <1>2, <1>3, <1>4, <1>5, <1>6, StepKinds

LEMMA CommandsKept ==
  ASSUME TypeOK, CommandsOk, [Next]_vars
  PROVE  CommandsOk'
<1>1. ASSUME NEW cmd, Issue(cmd)
      PROVE  CommandsOk'
  BY <1>1, IssuePending DEF CommandsOk, Issue, IssueOk
<1>2. CASE UNCHANGED vars \/ Look \/ Receive \/ \E e : Replied(e)
  BY <1>2, QuietPending DEF CommandsOk
<1>3. CASE ApplyEvent
  BY <1>3, ApplyPending DEF CommandsOk
<1> QED
  BY <1>1, <1>2, <1>3, StepKinds

LEMMA LoadsKept ==
  ASSUME TypeOK, CommandsOk, Loads, [Next]_vars
  PROVE  Loads'
<1>1. ASSUME NEW cmd, Issue(cmd)
      PROVE  Loads'
  <2>1. Marked(cmd) /\ (dropped => dropped')
    BY <1>1 DEF Issue
  <2>2. CASE cmd.op \in ChatOp
    BY <1>1, <2>1, <2>2, IssuePending DEF Marked, Loads, Underway
  <2>3. CASE cmd.op \notin ChatOp
    BY <1>1, <2>1, <2>3, IssuePending DEF Marked, Loads, Underway
  <2> QED
    BY <2>2, <2>3
<1>2. CASE UNCHANGED vars \/ Look \/ Receive \/ \E e : Replied(e)
  <2>1. ui'.loading = ui.loading /\ dropped' = dropped
    BY <1>2 DEF vars, Look, Receive, Replied, Reply
  <2> QED
    BY <1>2, <2>1, QuietPending DEF Loads, Underway
<1>3. CASE ApplyEvent
  <2>1. PICK e \in Event : e = Head(events) /\ Pending = Pending' \cup {e.cmd}
    BY <1>3, ApplyPending
  <2>2. ui \in UiState /\ ui' = Apply(ui, e) /\ dropped' = dropped
    BY <1>3, <2>1 DEF ApplyEvent, TypeOK
  <2>3. CASE Unlocks(e)
    <3>1. ui'.loading = ui.loading
      BY <2>2, <2>3, ApplyIs DEF Unlocks
    <3>2. e.cmd.op \notin ChatOp
      BY <2>3 DEF Unlocks, ChatOp
    <3> QED
      BY <2>1, <2>2, <3>1, <3>2 DEF Loads, Underway
  <2>4. CASE ~Unlocks(e)
    <3>1. ~ui'.loading
      BY <2>2, <2>4, ApplyIs, StoppedIs DEF Unlocks
    <3> QED
      BY <3>1 DEF Loads
  <2> QED
    BY <2>3, <2>4
<1> QED
  BY <1>1, <1>2, <1>3, StepKinds

LEMMA EventsAppended ==
  ASSUME TypeOK, NEW e \in Event, events' = Append(events, e)
  PROVE  /\ Len(events) \in Nat /\ DOMAIN events = 1 .. Len(events)
         /\ DOMAIN events' = 1 .. Len(events) + 1 /\ events'[Len(events) + 1] = e
         /\ \A i \in DOMAIN events : events'[i] = events[i]
<1>1. events \in Seq(Event) /\ Len(events) \in Nat /\ DOMAIN events = 1 .. Len(events)
  BY CountIs DEF TypeOK
<1> QED
  BY <1>1

LEMMA EventsApplied ==
  ASSUME TypeOK, ApplyEvent
  PROVE  /\ Len(events) \in Nat /\ DOMAIN events = 1 .. Len(events)
         /\ DOMAIN events' = 1 .. Len(events) - 1
         /\ \A i \in DOMAIN events' : events'[i] = events[i + 1]
<1>1. events \in Seq(Event) /\ Len(events) \in Nat /\ DOMAIN events = 1 .. Len(events)
  BY CountIs DEF TypeOK
<1>2. events # <<>> /\ events' = Tail(events)
  BY ApplyPending DEF ApplyEvent
<1>3. /\ events' \in Seq(Event) /\ Len(events') = Len(events) - 1
      /\ \A i \in 1 .. Len(events') : events'[i] = events[i + 1]
  BY <1>1, <1>2, HeadTailProperties
<1> QED
  BY <1>1, <1>3, LenProperties

LEMMA SessionKept ==
  ASSUME TypeOK, CommandsOk, SessionOk, [Next]_vars
  PROVE  SessionOk'
<1>1. CASE (\E cmd : Issue(cmd)) \/ Look \/ Receive \/ UNCHANGED vars
  <2>1. /\ events' = events /\ session' = session
        /\ ui'.ready = ui.ready /\ (ui.ready => ui'.name = ui.name)
    BY <1>1 DEF Issue, Marked, SameList, Look, Receive, vars
  <2> QED
    BY <2>1 DEF SessionOk
<1>2. ASSUME NEW e, Replied(e)
      PROVE  SessionOk'
  <2>1. e \in Event /\ events' = Append(events, e) /\ ui' = ui
    BY <1>2 DEF Replied, Reply
  <2> DEFINE n == Len(events)
  <2>2. /\ n \in Nat /\ DOMAIN events = 1 .. n
        /\ DOMAIN events' = 1 .. n + 1 /\ events'[n + 1] = e
        /\ \A i \in DOMAIN events : events'[i] = events[i]
    BY <2>1, EventsAppended
  <2> HIDE DEF n
  <2>3. CASE Unlocks(e)
    <3>1. session' = e.cmd.profile
      BY <1>2, <2>3 DEF Replied
    <3>2. ASSUME NEW i \in DOMAIN events',
                 \A j \in DOMAIN events' : Unlocks(events'[j]) => j <= i
          PROVE  session' = events'[i].cmd.profile
      <4>1. i = n + 1
        BY <2>2, <2>3, <3>2
      <4> QED
        BY <2>2, <3>1, <4>1
    <3>3. \E i \in DOMAIN events' : Unlocks(events'[i])
      BY <2>2, <2>3
    <3> QED
      BY <3>2, <3>3 DEF SessionOk
  <2>4. CASE ~Unlocks(e)
    <3>1. session' = session
      BY <1>2, <2>4 DEF Replied
    <3>2. ASSUME NEW i \in DOMAIN events', Unlocks(events'[i]),
                 \A j \in DOMAIN events' : Unlocks(events'[j]) => j <= i
          PROVE  session' = events'[i].cmd.profile
      <4>1. i \in DOMAIN events /\ events'[i] = events[i]
        BY <2>2, <2>4, <3>2
      <4>2. \A j \in DOMAIN events : Unlocks(events[j]) => j <= i
        BY <2>2, <3>2
      <4> QED
        BY <3>1, <3>2, <4>1, <4>2 DEF SessionOk
    <3>3. (\A i \in DOMAIN events' : ~Unlocks(events'[i])) => \A i \in DOMAIN events : ~Unlocks(events[i])
      BY <2>2
    <3> QED
      BY <2>1, <3>1, <3>2, <3>3 DEF SessionOk
  <2> QED
    BY <2>3, <2>4
<1>3. CASE ApplyEvent
  <2>1. PICK e \in Event : e = events[1] /\ 1 \in DOMAIN events /\ ui' = Apply(ui, e)
    BY <1>3, ApplyPending DEF ApplyEvent
  <2>2. session' = session /\ ui \in UiState
    BY <1>3 DEF ApplyEvent, TypeOK
  <2> DEFINE n == Len(events)
  <2>3. /\ n \in Nat /\ DOMAIN events = 1 .. n
        /\ DOMAIN events' = 1 .. n - 1
        /\ \A i \in DOMAIN events' : events'[i] = events[i + 1]
    BY <1>3, EventsApplied
  <2> HIDE DEF n
  <2>4. ASSUME NEW j \in DOMAIN events, j # 1
        PROVE  j - 1 \in DOMAIN events' /\ events'[j - 1] = events[j]
    <3>1. j - 1 \in DOMAIN events' /\ (j - 1) + 1 = j
      BY <2>3, <2>4
    <3> QED
      BY <2>3, <3>1
  <2>5. ASSUME NEW i \in DOMAIN events', Unlocks(events'[i]),
               \A j \in DOMAIN events' : Unlocks(events'[j]) => j <= i
        PROVE  session' = events'[i].cmd.profile
    <3>1. i + 1 \in DOMAIN events /\ events'[i] = events[i + 1] /\ i \in Nat
      BY <2>3
    <3>2. ASSUME NEW j \in DOMAIN events, Unlocks(events[j])
          PROVE  j <= i + 1
      <4>1. CASE j = 1
        BY <3>1, <4>1
      <4>2. CASE j # 1
        <5>1. j - 1 <= i /\ j \in Nat
          BY <2>3, <2>4, <2>5, <3>2, <4>2
        <5> QED
          BY <3>1, <5>1
      <4> QED
        BY <4>1, <4>2
    <3> QED
      BY <2>2, <2>5, <3>1, <3>2 DEF SessionOk
  <2>6. ASSUME \A i \in DOMAIN events' : ~Unlocks(events'[i]), ui'.ready
        PROVE  session' = ui'.name
    <3>1. \A j \in DOMAIN events : Unlocks(events[j]) => j = 1
      BY <2>4, <2>6
    <3>2. CASE Unlocks(e)
      <4>1. ui'.name = e.cmd.profile
        BY <2>1, <2>2, <3>2, ApplyIs DEF Unlocks
      <4>2. \A j \in DOMAIN events : Unlocks(events[j]) => j <= 1
        BY <2>3, <3>1
      <4> QED
        BY <2>1, <2>2, <3>2, <4>1, <4>2 DEF SessionOk
    <3>3. CASE ~Unlocks(e)
      <4>1. ui'.name = ui.name /\ ui'.ready = ui.ready
        BY <2>1, <2>2, <3>3, ApplyIs, StoppedIs DEF Unlocks, SameList
      <4>2. \A j \in DOMAIN events : ~Unlocks(events[j])
        BY <2>1, <3>1, <3>3
      <4> QED
        BY <2>2, <2>6, <4>1, <4>2 DEF SessionOk
    <3> QED
      BY <3>2, <3>3
  <2> QED
    BY <2>5, <2>6 DEF SessionOk
<1> QED
  BY <1>1, <1>2, <1>3, StepKinds

(* A submission crosses unless the window has no unlocking or verification *)
(* under way, and for one of those nothing at all.                         *)
LEMMA CrossingIs ==
  ASSUME TypeOK, NEW cmd
  PROVE  /\ "unlock" \notin Crossing(cmd) =>
              IF cmd.op = "initialize" THEN Pending = {}
              ELSE ~Underway({"initialize"}) /\ ui.ready
         /\ "verify" \notin Crossing(cmd) =>
              IF cmd.op = "verify" THEN Pending = {} ELSE ~Underway({"verify"})
<1>1. ~Underway(Op) => Pending = {}
  BY CountIs DEF Underway, Command
<1>2. \A ops : Unanswered(ops) <=> Underway(ops)
  BY UnansweredIs
<1>3. "unlock" \notin Crossing(cmd) =>
        IF cmd.op = "initialize" THEN ~Unanswered(Op)
        ELSE ~Unanswered({"initialize"}) /\ ui.ready
  BY DEF Crossing
<1>4. "verify" \notin Crossing(cmd) =>
        IF cmd.op = "verify" THEN ~Unanswered(Op) ELSE ~Unanswered({"verify"})
  BY DEF Crossing
<1> QED
  BY <1>1, <1>2, <1>3, <1>4

(* The profile the worker has open, when none is being unlocked. *)
LEMMA SessionIs ==
  ASSUME TypeOK, SessionOk, ui.ready, ~Underway({"initialize"})
  PROVE  session = ui.name /\ session \in Profile
<1>1. \A i \in DOMAIN events : ~Unlocks(events[i])
  BY DEF Unlocks, Underway, Pending
<1> QED
  BY <1>1 DEF SessionOk, TypeOK, UiState

LEMMA UnlockKept ==
  ASSUME TypeOK, CommandsOk, SessionOk, UnlockOk, [Next]_vars
  PROVE  UnlockOk'
<1>1. ASSUME NEW cmd, Issue(cmd), "unlock" \notin crossed'
      PROVE  UnlockOk'
  <2>1. /\ Marked(cmd) /\ IssueOk(cmd) /\ session' = session /\ "unlock" \notin crossed
        /\ HasRoom => "unlock" \notin Crossing(cmd)
    BY <1>1 DEF Issue
  <2>2. ui'.ready = ui.ready /\ ui'.contact = ui.contact
    BY <2>1 DEF Marked, SameList
  <2>3. ASSUME ~ui.ready
        PROVE  ui'.contact = None /\ ~ui'.selected
    <3>1. ui.contact = None /\ ~ui.selected
      BY <2>1, <2>3 DEF UnlockOk
    <3>2. cmd.op \notin ChatOp
      <4>1. cmd.op \in ChatOp => cmd.peer \in Peer /\ ui.contact = cmd.peer
        BY <2>1 DEF IssueOk, CommandOk, ChatOp
      <4> QED
        BY <3>1, <4>1, NoneAssumption
    <3> QED
      BY <2>1, <3>1, <3>2 DEF Marked
  <2>4. CASE HasRoom /\ cmd.op = "initialize"
    <3>1. Pending' = {cmd} /\ Single'
      BY <1>1, <2>1, <2>4, CrossingIs, IssuePending
    <3> QED
      BY <2>1, <2>2, <2>3, <2>4, <3>1 DEF UnlockOk, IssueOk, ChatOp
  <2>5. CASE HasRoom /\ cmd.op # "initialize"
    <3>1. Pending' = Pending \cup {cmd} /\ ~Underway({"initialize"}) /\ ui.ready
      BY <1>1, <2>1, <2>5, CrossingIs, IssuePending
    <3>2. session = ui.name
      BY <3>1, SessionIs
    <3>3. cmd.op \in ChatOp => session = cmd.shown
      BY <2>1, <3>2 DEF IssueOk
    <3> QED
      BY <2>1, <2>2, <2>5, <3>1, <3>3 DEF UnlockOk, Underway
  <2>6. CASE ~HasRoom
    <3>1. Pending' = Pending /\ Single' = Single
      BY <1>1, <2>6, IssuePending
    <3> QED
      BY <2>1, <2>2, <2>3, <3>1 DEF UnlockOk, Underway
  <2> QED
    BY <2>4, <2>5, <2>6
<1>2. CASE Look \/ Receive \/ UNCHANGED vars
  <2>1. /\ crossed' = crossed /\ session' = session /\ ui'.ready = ui.ready
        /\ ui'.contact = ui.contact /\ ui'.selected = ui.selected
    BY <1>2 DEF Look, Receive, vars
  <2>2. Pending' = Pending /\ (Single => Single')
    BY <1>2, QuietPending
  <2> QED
    BY <2>1, <2>2 DEF UnlockOk, Underway
<1>3. ASSUME NEW e, Replied(e), "unlock" \notin crossed'
      PROVE  UnlockOk'
  <2>1. crossed' = crossed /\ ui' = ui /\ e.cmd \in Pending
    BY <1>3 DEF Replied, Reply, Pending
  <2>2. Pending' = Pending /\ (Single => Single')
    BY <1>3, QuietPending
  <2>3. ASSUME NEW c \in Pending, c.op \in ChatOp
        PROVE  session' = c.shown
    <3>1. session = c.shown
      BY <1>3, <2>1, <2>3 DEF UnlockOk
    <3>2. ~Unlocks(e)
      <4>1. ASSUME Unlocks(e)
            PROVE  c = e.cmd
        BY <1>3, <2>1, <4>1, SingleOnly DEF UnlockOk, Underway, Unlocks
      <4> QED
        BY <2>3, <4>1 DEF Unlocks, ChatOp
    <3> QED
      BY <1>3, <3>1, <3>2 DEF Replied
  <2> QED
    BY <1>3, <2>1, <2>2, <2>3 DEF UnlockOk, Underway
<1>4. ASSUME ApplyEvent, "unlock" \notin crossed'
      PROVE  UnlockOk'
  <2>1. PICK e \in Event :
          /\ e = Head(events) /\ e.cmd \in Pending /\ Pending = Pending' \cup {e.cmd}
          /\ Single => Pending' = {} /\ Single'
    BY <1>4, ApplyPending
  <2>2. /\ ui \in UiState /\ ui' = Apply(ui, e) /\ "unlock" \notin crossed
        /\ session' = session
    BY <1>4, <2>1 DEF ApplyEvent, TypeOK
  <2>3. CASE e.cmd.op = "initialize"
    <3>1. Pending' = {} /\ ~ui.ready
      BY <2>1, <2>2, <2>3 DEF UnlockOk, Underway
    <3>2. ui.contact = None /\ ~ui.selected
      BY <2>2, <3>1 DEF UnlockOk
    <3>3. ~ui'.ready => ui'.contact = None /\ ~ui'.selected
      <4>1. CASE e.ok
        BY <2>2, <2>3, <4>1, ApplyIs
      <4>2. CASE ~e.ok
        <5>1. ui' = Stopped(ui)
          BY <2>2, <4>2, ApplyIs
        <5> QED
          BY <2>2, <3>2, <5>1, StoppedIs DEF SameList
      <4> QED
        BY <4>1, <4>2
    <3> QED
      BY <3>1, <3>3 DEF UnlockOk, Underway
  <2>4. CASE e.cmd.op # "initialize"
    <3>1. ui.ready /\ ~Underway({"initialize"})
      BY <2>1, <2>2, <2>4 DEF UnlockOk
    <3>2. ui'.ready
      <4>1. CASE e.ok
        BY <2>2, <2>4, <3>1, <4>1, ApplyIs
      <4>2. CASE ~e.ok
        <5>1. ui' = Stopped(ui)
          BY <2>2, <4>2, ApplyIs
        <5> QED
          BY <2>2, <3>1, <5>1, StoppedIs DEF SameList
      <4> QED
        BY <4>1, <4>2
    <3> QED
      BY <2>1, <2>2, <3>1, <3>2 DEF UnlockOk, Underway
  <2> QED
    BY <2>3, <2>4
<1>5. "unlock" \in crossed' => UnlockOk'
  BY DEF UnlockOk
<1> QED
  BY <1>1, <1>2, <1>3, <1>4, <1>5, StepKinds

(* Without a crossing, what is submitted is under way alone. *)
LEMMA IssuedAlone ==
  ASSUME TypeOK, WaitOk, NEW cmd, Issue(cmd), HasRoom, crossed' = {}
  PROVE  Pending = {}
<1>1. crossed = {} /\ Crossing(cmd) = {} /\ IssueOk(cmd) /\ cmd \in Command
  BY DEF Issue
<1>2. cmd.op \in Op
  BY <1>1 DEF Command
<1>3. CASE cmd.op \in {"initialize", "verify"}
  BY <1>1, <1>3, CrossingIs
<1>4. CASE cmd.op \in ChatOp
  <2>1. ~Underway({"initialize"}) /\ ~Underway({"verify"})
    BY <1>1, <1>4, CrossingIs DEF ChatOp
  <2>2. \A c \in Pending : c.op \notin ChatOp
    BY <1>1, <1>4 DEF WaitOk, Awaited, IssueOk
  <2>3. \A c \in Pending : c.op \in Op
    BY CountIs DEF Command
  <2> QED
    BY <2>1, <2>2, <2>3 DEF Underway, Op
<1> QED
  BY <1>2, <1>3, <1>4 DEF Op

LEMMA WaitKept ==
  ASSUME TypeOK, CommandsOk, WaitOk, [Next]_vars
  PROVE  WaitOk'
<1>1. ASSUME NEW cmd, Issue(cmd), crossed' = {}
      PROVE  WaitOk'
  <2>1. crossed = {} /\ Marked(cmd) /\ IssueOk(cmd)
    BY <1>1 DEF Issue
  <2>2. ui'.contact = ui.contact /\ ui'.cursor = ui.cursor
    BY <2>1 DEF Marked, SameList
  <2>3. CASE HasRoom
    <3>1. Pending' = {cmd} /\ Single'
      BY <1>1, <2>3, IssuedAlone, IssuePending
    <3>2. Awaited(cmd)'
      BY <2>1, <2>2, <2>3 DEF Marked, IssueOk, Awaited, ChatOp
    <3> QED
      BY <3>1, <3>2 DEF WaitOk
  <2>4. CASE ~HasRoom
    <3>1. Pending' = Pending /\ Single' = Single
      BY <1>1, <2>4, IssuePending
    <3>2. CASE cmd.op \in ChatOp
      BY <2>1, <3>1, <3>2 DEF WaitOk, Awaited, IssueOk
    <3>3. CASE cmd.op \notin ChatOp
      <4>1. ui' = ui
        BY <2>1, <3>3 DEF Marked
      <4> QED
        BY <2>1, <3>1, <4>1 DEF WaitOk, Awaited
    <3> QED
      BY <3>2, <3>3
  <2> QED
    BY <2>3, <2>4
<1>2. CASE UNCHANGED vars \/ Look \/ Receive \/ \E e : Replied(e)
  <2>1. /\ crossed' = crossed /\ ui'.loading = ui.loading /\ ui'.historyLoading = ui.historyLoading
        /\ ui'.contact = ui.contact /\ ui'.cursor = ui.cursor
    BY <1>2 DEF vars, Look, Receive, Replied, Reply
  <2>2. Pending' = Pending /\ (Single => Single')
    BY <1>2, QuietPending
  <2> QED
    BY <2>1, <2>2 DEF WaitOk, Awaited
<1>3. CASE ApplyEvent
  <2>1. crossed' = crossed
    BY <1>3 DEF ApplyEvent
  <2>2. Single => Pending' = {} /\ Single'
    BY <1>3, ApplyPending
  <2> QED
    BY <2>1, <2>2 DEF WaitOk
<1>4. crossed' # {} => WaitOk'
  BY DEF WaitOk
<1> QED
  BY <1>1, <1>2, <1>3, <1>4, StepKinds

(* A list that is shown belongs to a session, and has its numbers. *)
LEMMA ListTypes ==
  ASSUME TypeOK, SessionOk, UnlockOk, crossed = {}, ui.selected, ui.contact # None
  PROVE  /\ ui.ready /\ ~Underway({"initialize"})
         /\ <<session, ui.contact>> \in Conversations
         /\ ui.messages \in Seq(Nat) /\ ui.cursor \in Nat
         /\ history[<<session, ui.contact>>] \in Seq(Nat)
<1>1. ui.ready /\ ~Underway({"initialize"})
  BY DEF UnlockOk
<1>2. session \in Profile
  BY <1>1, SessionIs
<1>3. ui.contact \in Peer /\ ui.messages \in Seq(Nat) /\ ui.cursor \in Nat
  BY DEF TypeOK, UiState
<1>4. <<session, ui.contact>> \in Conversations
  BY <1>2, <1>3 DEF Conversations
<1>5. HistoriesOk
  BY DEF TypeOK, HistoriesOk, Conversations
<1> QED
  BY <1>1, <1>3, <1>4, <1>5, HistoriesNat

LEMMA ListKept ==
  ASSUME IInv, [Next]_vars
  PROVE  ListOk'
<1>0. TypeOK /\ CommandsOk /\ SessionOk /\ UnlockOk /\ WaitOk /\ ListOk /\ PagesOk
  BY DEF IInv
<1>1. ASSUME NEW cmd, Issue(cmd)
      PROVE  ListOk'
  <2>1. /\ Marked(cmd) /\ IssueOk(cmd) /\ events' = events /\ session' = session
        /\ history' = history /\ (unloaded => unloaded')
        /\ cmd.op \in ChatOp /\ cmd.first /\ ~HasRoom => unloaded'
        /\ crossed' = {} => crossed = {}
    BY <1>1 DEF Issue, disk
  <2>2. /\ ui'.contact = ui.contact /\ ui'.cursor = ui.cursor /\ ui'.messages = ui.messages
    BY <2>1 DEF Marked, SameList
  <2>3. ~Replacing' => ~Replacing /\ (HasRoom => ~cmd.first)
    BY <1>0, <1>1, <2>1, IssuePending DEF Replacing
  <2>4. ui'.selected /\ ~unloaded' /\ ~Replacing' => ui.selected
    BY <2>1, <2>3 DEF Marked, IssueOk, ChatOp
  <2> QED
    BY <1>0, <2>1, <2>2, <2>3, <2>4 DEF ListOk
<1>2. CASE Look \/ Receive \/ UNCHANGED vars
  <2>1. /\ crossed' = crossed /\ events' = events /\ session' = session /\ history' = history
        /\ unloaded' = unloaded /\ ui'.selected = ui.selected /\ ui'.contact = ui.contact
        /\ ui'.cursor = ui.cursor /\ ui'.messages = ui.messages
    BY <1>2 DEF Look, Receive, vars, disk
  <2>2. Pending' = Pending
    BY <1>0, <1>2, QuietPending
  <2> QED
    BY <1>0, <2>1, <2>2 DEF ListOk, Replacing
<1>3. ASSUME NEW e, Replied(e), crossed' = {}, ui'.selected, ui'.contact # None,
             ~unloaded', ~Replacing'
      PROVE  Stretch(ui'.messages, ui'.cursor, history'[<<session', ui'.contact>>])
  <2>1. /\ crossed' = crossed /\ ui' = ui /\ unloaded' = unloaded /\ e \in Event
        /\ events' = Append(events, e) /\ e.cmd \in Pending
    BY <1>3 DEF Replied, Reply, Pending
  <2>2. Pending' = Pending
    BY <1>0, <1>3, QuietPending
  <2>3. ~Replacing /\ ~Deletes(e)
    BY <1>0, <1>3, <2>1, <2>2, EventsAppended DEF Replacing
  <2>4. Stretch(ui.messages, ui.cursor, history[<<session, ui.contact>>])
    BY <1>0, <1>3, <2>1, <2>3 DEF ListOk
  <2>5. /\ ~Underway({"initialize"}) /\ <<session, ui.contact>> \in Conversations
        /\ ui.messages \in Seq(Nat) /\ ui.cursor \in Nat
        /\ history[<<session, ui.contact>>] \in Seq(Nat)
    BY <1>0, <1>3, <2>1, ListTypes
  <2>6. session' = session
    BY <1>3, <2>1, <2>5 DEF Replied, Underway, Unlocks
  <2>7. PICK t \in Seq(Nat) : history'[<<session, ui.contact>>] = history[<<session, ui.contact>>] \o t
    BY <1>3, <2>3, <2>5 DEF Replied
  <2> QED
    BY <2>1, <2>4, <2>5, <2>6, <2>7, StretchGrows
<1>4. ASSUME ApplyEvent, crossed' = {}, ui'.selected, ui'.contact # None,
             ~unloaded', ~Replacing'
      PROVE  Stretch(ui'.messages, ui'.cursor, history'[<<session', ui'.contact>>])
  <2>1. crossed = {} /\ Single
    BY <1>0, <1>4 DEF ApplyEvent, WaitOk
  <2>2. PICK e \in Event :
          /\ e = Head(events) /\ e = events[1] /\ DOMAIN events = {1} /\ e.cmd \in Pending
          /\ Pending = {e.cmd}
    BY <1>0, <1>4, <2>1, ApplyPending, CountIs
  <2>3. /\ ui \in UiState /\ ui' = Apply(ui, e) /\ session' = session /\ history' = history
        /\ unloaded' = (LoadFailed(e) \/ (unloaded /\ ~LoadDone(e)))
    BY <1>0, <1>4, <2>2 DEF ApplyEvent, TypeOK, disk
  <2>4. CommandOk(e.cmd) /\ Awaited(e.cmd) /\ PageOk(e) /\ e.cmd \in Command
    BY <1>0, <2>1, <2>2, CountIs DEF CommandsOk, WaitOk, PagesOk
  <2>5. CASE ~e.ok
    <3>1. ui' = Stopped(ui)
      BY <2>3, <2>5, ApplyIs
    <3>2. /\ ui'.selected = ui.selected /\ ui'.contact = ui.contact
          /\ ui'.messages = ui.messages /\ ui'.cursor = ui.cursor
      BY <2>3, <3>1, StoppedIs DEF SameList
    <3>3. ~unloaded /\ ~e.cmd.first
      BY <1>4, <2>3, <2>4, <2>5 DEF LoadFailed, LoadDone, CommandOk
    <3>4. ~Replacing
      BY <2>2, <2>5, <3>3 DEF Replacing, Deletes
    <3> QED
      BY <1>0, <1>4, <2>1, <2>3, <3>2, <3>3, <3>4 DEF ListOk
  <2>6. CASE Unlocks(e)
    <3>1. ui'.selected = ui.selected
      BY <2>3, <2>6, ApplyIs DEF Unlocks
    <3>2. ~ui.selected
      BY <1>0, <2>1, <2>2, <2>6 DEF UnlockOk, Underway, Unlocks
    <3> QED
      BY <1>4, <3>1, <3>2
  <2>7. CASE e.ok /\ e.cmd.op \in {"verify", "delete"}
    BY <1>4, <2>3, <2>7, ApplyIs
  <2>8. CASE Shows(e)
    <3>1. /\ ui'.selected = ui.selected /\ ui'.contact = ui.contact /\ ui'.cursor = e.cursor
          /\ ui'.messages = IF e.cmd.op = "older" THEN e.page \o ui.messages ELSE e.page
      BY <2>3, <2>8, ApplyIs DEF Shows
    <3>2. /\ ui.contact = e.cmd.peer
          /\ Stretch(e.page, e.cursor, history[<<session, ui.contact>>])
          /\ e.page \in Seq(Nat) /\ e.cursor \in Nat
      BY <2>4, <2>8 DEF Awaited, PageOk, Shows, Event
    <3>3. CASE e.cmd.op # "older"
      BY <2>3, <3>1, <3>2, <3>3
    <3>4. CASE e.cmd.op = "older"
      <4>1. ~unloaded
        BY <1>4, <2>3, <3>4 DEF LoadDone
      <4>2. ~Replacing
        BY <2>2, <2>4, <3>4 DEF Replacing, CommandOk, Deletes
      <4>3. Stretch(ui.messages, ui.cursor, history[<<session, ui.contact>>])
        BY <1>0, <1>4, <2>1, <3>1, <4>1, <4>2 DEF ListOk
      <4>4. e.cursor + Len(e.page) = ui.cursor
        BY <1>4, <2>4, <2>8, <3>1, <3>4, <4>1 DEF PageOk
      <4>5. ui.messages \in Seq(Nat) /\ history[<<session, ui.contact>>] \in Seq(Nat)
        BY <1>0, <1>4, <2>1, <3>1, ListTypes
      <4>6. Stretch(e.page \o ui.messages, e.cursor, history[<<session, ui.contact>>])
        BY <3>2, <4>3, <4>4, <4>5, StretchJoins
      <4> QED
        BY <2>3, <3>1, <3>4, <4>6
    <3> QED
      BY <3>3, <3>4
  <2>9. e.cmd.op \in Op
    BY <2>4 DEF Command
  <2> QED
    BY <2>5, <2>6, <2>7, <2>8, <2>9 DEF Unlocks, Shows, Op, ChatOp
<1> QED
  BY <1>0, <1>1, <1>2, <1>3, <1>4, StepKinds DEF ListOk

LEMMA PagesKept ==
  ASSUME IInv, [Next]_vars
  PROVE  PagesOk'
<1>0. TypeOK /\ CommandsOk /\ SessionOk /\ UnlockOk /\ WaitOk /\ ListOk /\ PagesOk
  BY DEF IInv
<1>1. ASSUME NEW cmd, Issue(cmd), crossed' = {}, NEW i \in DOMAIN events', NEW e, e = events'[i]
      PROVE  PageOk(e)'
  <2>1. /\ Marked(cmd) /\ IssueOk(cmd) /\ events' = events /\ session' = session
        /\ history' = history /\ (unloaded => unloaded') /\ crossed = {}
    BY <1>1 DEF Issue, disk
  <2>2. ui'.cursor = ui.cursor
    BY <2>1 DEF Marked, SameList
  <2>3. e = events[i] /\ e.cmd \in Pending /\ PageOk(e)
    BY <1>0, <1>1, <2>1 DEF PagesOk, Pending
  <2>4. Shows(e) => ui.loading
    BY <1>0, <2>1, <2>3 DEF WaitOk, Awaited, Shows
  <2>5. Shows(e) => ui'.selected = ui.selected
    BY <2>1, <2>4 DEF Marked, IssueOk, ChatOp
  <2> QED
    BY <2>1, <2>2, <2>3, <2>5 DEF PageOk
<1>2. CASE Look \/ Receive \/ UNCHANGED vars
  <2>1. /\ crossed' = crossed /\ events' = events /\ session' = session /\ history' = history
        /\ unloaded' = unloaded /\ ui'.selected = ui.selected /\ ui'.cursor = ui.cursor
    BY <1>2 DEF Look, Receive, vars, disk
  <2> QED
    BY <1>0, <2>1 DEF PagesOk, PageOk
<1>3. ASSUME NEW e, Replied(e), crossed' = {}, NEW i \in DOMAIN events'
      PROVE  e = events'[i] /\ PageOk(e)'
  <2>1. /\ crossed = {} /\ ui' = ui /\ unloaded' = unloaded /\ e \in Event /\ running # None
        /\ events' = Append(events, e) /\ e.cmd = running /\ e.cmd \in Pending
    BY <1>3 DEF Replied, Reply, Pending
  <2>2. Single /\ Len(events) = 0 /\ DOMAIN events = {}
    BY <1>0, <2>1, CountIs DEF WaitOk, Single, Worked
  <2>3. events'[i] = e
    BY <1>0, <1>3, <2>1, <2>2, EventsAppended
  <2>4. ASSUME Shows(e)
        PROVE  /\ Stretch(e.page, e.cursor, history'[<<session', e.cmd.peer>>])
               /\ e.cmd.op = "older" => unloaded \/ ~ui.selected \/ e.cursor + Len(e.page) = ui.cursor
    <3>1. ~Unlocks(e)
      BY <2>4 DEF Shows, Unlocks, ChatOp
    <3>2. Stretch(e.page, e.cursor, history'[<<session', e.cmd.peer>>])
      BY <1>3, <2>4, <3>1 DEF Replied
    <3>3. ASSUME e.cmd.op = "older", ~unloaded, ui.selected
          PROVE  e.cursor + Len(e.page) = ui.cursor
      <4>1. CommandOk(e.cmd) /\ Awaited(e.cmd) /\ Pending = {e.cmd}
        BY <1>0, <2>1, <2>2, SingleOnly DEF CommandsOk, WaitOk
      <4>2. ui.contact = e.cmd.peer /\ ui.contact # None /\ e.cmd.before = ui.cursor
        BY <3>3, <4>1, NoneAssumption DEF CommandOk, Awaited, ChatOp
      <4>3. ~Replacing
        BY <2>2, <3>3, <4>1 DEF Replacing, CommandOk
      <4>4. Stretch(ui.messages, ui.cursor, history[<<session, ui.contact>>])
        BY <1>0, <2>1, <3>3, <4>2, <4>3 DEF ListOk
      <4>5. PICK h \in Seq(Nat) : h = history[<<session, ui.contact>>]
        BY <1>0, <2>1, <3>3, <4>2, ListTypes
      <4>6. ui.messages \in Seq(Nat) /\ ui.cursor \in Nat
        BY <1>0, <2>1, <3>3, <4>2, ListTypes
      <4>7. Len(ui.messages) \in Nat /\ Len(h) \in Nat
        BY <4>5, <4>6, LenProperties
      <4>8. ui.cursor <= Len(h)
        BY <4>4, <4>5, <4>6, <4>7 DEF Stretch
      <4>9. PageEnd(h, e.cmd) = ui.cursor
        BY <3>3, <4>2, <4>6, <4>7, <4>8 DEF PageEnd
      <4> QED
        BY <1>3, <2>4, <3>3, <4>2, <4>5, <4>9 DEF Replied
    <3> QED
      BY <3>2, <3>3
  <2> QED
    BY <2>1, <2>3, <2>4 DEF PageOk
<1>4. CASE ApplyEvent
  <2>1. crossed' = crossed
    BY <1>4 DEF ApplyEvent
  <2>2. crossed = {} => DOMAIN events' = {}
    BY <1>0, <1>4, ApplyPending DEF WaitOk
  <2> QED
    BY <2>1, <2>2 DEF PagesOk
<1>5. CASE \E cmd : Issue(cmd)
  <2>1. crossed' = {} => \A i \in DOMAIN events' : \A e : e = events'[i] => PageOk(e)'
    BY <1>1, <1>5
  <2> QED
    BY <2>1 DEF PagesOk, PageOk
<1>6. CASE \E e : Replied(e)
  <2>1. crossed' = {} => \A i \in DOMAIN events' : \A e : e = events'[i] => PageOk(e)'
    BY <1>3, <1>6
  <2> QED
    BY <2>1 DEF PagesOk, PageOk
<1> QED
  BY <1>0, <1>2, <1>4, <1>5, <1>6, StepKinds

-----------------------------------------------------------------------------
LEMMA InitInv == Init => IInv
<1> SUFFICES ASSUME Init
             PROVE  IInv
  OBVIOUS
<1>1. /\ queue = <<>> /\ running = None /\ events = <<>> /\ drained = None /\ session = None
      /\ entries = Earlier /\ issued = 0
      /\ crossed = {} /\ dropped = FALSE /\ unloaded = FALSE
  BY DEF Init
<1>2. PICK p \in Profile : ui = FromProfiles(p)
  BY DEF Init
<1>3. PICK old \in SUBSET (Profile \X Peer) :
        /\ saved = [q \in Profile |-> {c \in Peer : <<q, c>> \in old}]
        /\ history = [x \in Profile \X Peer |->
                        IF x \in old THEN [i \in 1 .. Earlier |-> i] ELSE <<>>]
  BY DEF Init
<1>4. [i \in 1 .. Earlier |-> i] \in Seq(1 .. Earlier) /\ <<>> \in Seq(1 .. Earlier)
  BY UiAssumption, SeqDef, EmptySeq
<1>5. ui \in UiState
  BY <1>2, EmptySeq DEF FromProfiles, UiState
<1>6. TypeOK
  <2>1. history \in [Profile \X Peer -> Seq(1 .. entries)]
    BY <1>1, <1>3, <1>4
  <2>2. queue \in Seq(Command) /\ events \in Seq(Event) /\ Len(queue) = 0
    BY <1>1, EmptySeq
  <2>3. saved \in [Profile -> SUBSET Peer]
    BY <1>3
  <2>4. /\ Len(queue) <= QueueSize /\ entries \in Nat /\ issued \in Nat
        /\ running \in Command \cup {None} /\ drained \in (0 .. Len(events)) \cup {None}
        /\ session \in Profile \cup {None}
    BY <1>1, <2>2, UiAssumption
  <2>5. crossed \subseteq {"unlock", "verify"} /\ dropped \in BOOLEAN /\ unloaded \in BOOLEAN
    BY <1>1
  <2> QED
    BY <1>5, <2>1, <2>2, <2>3, <2>4, <2>5 DEF TypeOK
<1>7. Pending = {} /\ DOMAIN events = {} /\ Single
  BY <1>1 DEF Pending, Single, Worked
<1>8. ui.loading = FALSE /\ ui.ready = FALSE /\ ui.contact = None /\ ui.selected = FALSE
  BY <1>2 DEF FromProfiles
<1> QED
  BY <1>6, <1>7, <1>8 DEF IInv, CommandsOk, Loads, SessionOk, UnlockOk, Underway, WaitOk, ListOk, PagesOk

LEMMA StepInv == IInv /\ [Next]_vars => IInv'
  BY TypeKept, CommandsKept, LoadsKept, SessionKept, UnlockKept, WaitKept, ListKept, PagesKept
     DEF IInv

LEMMA Invariance == Spec => []IInv
  BY InitInv, StepInv, PTL DEF Spec

-----------------------------------------------------------------------------
(* Every variable keeps its type: the queue its bound, and the timer never *)
(* has more events to apply than were sent.                                *)
THEOREM TypeCorrect == Spec => []TypeOK
<1>1. IInv => TypeOK
  BY DEF IInv
<1> QED
  BY <1>1, Invariance, PTL

(* The window says that it loads only while a chat command has not been    *)
(* answered, or after a poll was dropped.                                  *)
THEOREM LoadingHasCommand == Spec => []LoadingIsOutstanding
<1>1. IInv => LoadingIsOutstanding
  BY UnansweredIs DEF IInv, Loads, LoadingIsOutstanding
<1> QED
  BY <1>1, Invariance, PTL

(* The worker works in the profile the window shows once no unlocking is   *)
(* under way, and carries a chat command out in the profile it was issued  *)
(* in unless unlocking crossed with other commands.                        *)
THEOREM SessionMatches == Spec => []WorksInShownProfile
<1>1. ASSUME IInv
      PROVE  WorksInShownProfile
  <2>1. TypeOK /\ SessionOk /\ UnlockOk
    BY <1>1 DEF IInv
  <2>2. ASSUME ui.ready, ~Unanswered({"initialize"})
        PROVE  session = ui.name
    <3>1. ~Underway({"initialize"})
      BY <2>1, <2>2, UnansweredIs
    <3>2. \A i \in DOMAIN events : ~Unlocks(events[i])
      BY <3>1 DEF Underway, Pending, Unlocks
    <3> QED
      BY <2>1, <2>2, <3>2 DEF SessionOk
  <2>3. ASSUME "unlock" \notin crossed, NEW i \in DOMAIN Outstanding, IsChat(Outstanding[i])
        PROVE  session = Outstanding[i].shown
    <3>1. Outstanding[i] \in Pending /\ Outstanding[i].op \in ChatOp
      BY <2>1, <2>3, OutstandingIs DEF IsChat
    <3> QED
      BY <2>1, <2>3, <3>1 DEF UnlockOk
  <2> QED
    BY <2>2, <2>3 DEF WorksInShownProfile
<1> QED
  BY <1>1, Invariance, PTL

(* The list shows one stretch of the history of the contact it is headed   *)
(* with, from the cursor on, unless commands crossed or the conversation's *)
(* loading failed.                                                         *)
THEOREM ListMatches == Spec => []ShownIsConversation
<1>1. ASSUME IInv
      PROVE  ShownIsConversation
  <2> SUFFICES ASSUME ListShown, crossed = {}, ~unloaded
               PROVE  Stretch(ui.messages, ui.cursor, history[<<session, ui.contact>>])
    BY DEF ShownIsConversation, Stretch
  <2>1. CommandsOk /\ WaitOk /\ ListOk
    BY <1>1 DEF IInv
  <2>2. ui.selected /\ ui.contact # None /\ ~ui.historyLoading
    BY DEF ListShown, ChatOpen
  <2>3. \A c \in Pending : ~c.first /\ c.op # "delete"
    BY <2>1, <2>2 DEF CommandsOk, CommandOk, WaitOk, Awaited, ChatOp
  <2>4. ~Replacing
    BY <2>3 DEF Replacing, Deletes, Pending
  <2> QED
    BY <2>1, <2>2, <2>4 DEF ListOk
<1> QED
  BY <1>1, Invariance, PTL
=============================================================================
