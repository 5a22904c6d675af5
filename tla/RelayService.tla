---------------------------- MODULE RelayService ----------------------------
(***************************************************************************)
(* The relay server as its clients see it: concurrent requests of the      *)
(* message API (relay/src/messages.rs), the WebSocket (relay/src/events.rs)*)
(* and the administrator's changes of access, over one SQLite database     *)
(* behind one mutex.                                                       *)
(*                                                                         *)
(* A handler authenticates under the mutex, releases it, and takes it      *)
(* again for its own statements: a request is admitted in one step and     *)
(* handled in another, with anything in between.  A request whose client   *)
(* disconnects, or that a restart of the relay catches, is dropped.        *)
(***************************************************************************)
EXTENDS RelayQueue, RelayAccess

CONSTANTS
  Traffic,    \* bound: who writes to which names
  MaxChanges, \* bound on the administrator's commands
  MaxClock,   \* bound on the clock and on expiry times
  MaxId,      \* bound on the rows ever accepted
  MaxCalls    \* bound on the requests in flight

ASSUME TrafficAssumption == Traffic \subseteq Client \X Name
ASSUME BoundsAssumption ==
  MaxChanges \in Nat /\ MaxClock \in Nat /\ MaxId \in Nat /\ MaxCalls \in Nat

VARIABLES
  clock,      \* now(), in whatever unit matters
  calls,      \* requests admitted and not handled yet
  sockets,    \* clients with an open WebSocket
  retrieved,  \* history variable: rows ever returned to their recipient
  cursor,     \* the highest server id each client has been told of
  changes     \* history variable: number of the administrator's commands

requestVars == <<calls, sockets, retrieved, cursor>>
vars == <<queue, nextId, access, device, dropping, clock, calls, sockets, retrieved,
          cursor, changes>>

Expiry == (1..MaxClock) \cup {NoExpiry}

(* Requests.  "receive" is HTTP, "poll" a frame on the WebSocket. *)
SendCall  == [op : {"send"}, by : Client, to : Name, mid : MsgId, expires : Expiry]
FetchCall == [op : {"receive", "poll"}, by : Client, cursor : Nat]
AckCall   == [op : {"ack"}, by : Client, id : Nat]
Call == SendCall \cup FetchCall \cup AckCall

Done(k) == calls' = calls \ {k}

-----------------------------------------------------------------------------
(* authenticate_request; a WebSocket frame is only verified against the    *)
(* device row (verify_websocket_request), not the allowlist.               *)
Admissible(k) ==
  IF k.op = "poll" THEN k.by \in sockets /\ HasDevice(k.by) ELSE Authorised(k.by)

Admit(k) ==
  /\ Cardinality(calls) < MaxCalls
  /\ Admissible(k)
  /\ calls' = calls \cup {k}
  /\ UNCHANGED <<queueVars, accessVars, clock, changes, sockets, retrieved, cursor>>

(* What clients ask for: a retrieval starts from the beginning or from     *)
(* their cursor, an acknowledgement names a row they were given.           *)
ClientCall(c) ==
  [op : {"send"}, by : {c}, to : {n \in Name : <<c, n>> \in Traffic},
   mid : MsgId, expires : Expiry]
  \cup [op : {"receive", "poll"}, by : {c}, cursor : {0, cursor[c]}]
  \cup [op : {"ack"}, by : {c}, id : {q.id : q \in {p \in retrieved : p.to = c}}]

(* Mutant of HandleSend: the row keeps the name the sender used. *)
HandleSendByName(k) ==
  /\ k \in calls /\ k.op = "send"
  /\ nextId <= MaxId
  /\ \/ Resolve(k.to) = {} /\ UNCHANGED queueVars
     \/ Resolve(k.to) # {} /\ Submit(k.by, k.to, k.mid, k.expires)
  /\ Done(k)
  /\ UNCHANGED <<accessVars, clock, changes, sockets, retrieved, cursor>>

(***************************************************************************)
(* send: resolve the recipient, then INSERT OR IGNORE.  A name that stands *)
(* for several devices means any one of them.                              *)
(***************************************************************************)
HandleSend(k) ==
  /\ k \in calls /\ k.op = "send"
  /\ nextId <= MaxId
  /\ \/ Resolve(k.to) = {} /\ UNCHANGED queueVars
     \/ \E r \in Resolve(k.to) : Submit(k.by, r, k.mid, k.expires)
  /\ Done(k)
  /\ UNCHANGED <<accessVars, clock, changes, sockets, retrieved, cursor>>

(* The client keeps the highest id of the answer, if the answer arrives.   *)
Answer(c, page) ==
  /\ retrieved' = retrieved \cup page
  /\ \/ UNCHANGED cursor
     \/ \E q \in page : /\ \A p \in page : p.id <= q.id
                        /\ q.id > cursor[c]
                        /\ cursor' = [cursor EXCEPT ![c] = q.id]

(* receive: delete what has expired, then select a page. *)
HandleReceive(k) ==
  /\ k \in calls /\ k.op = "receive"
  /\ queue' = Unexpired(clock)
  /\ Answer(k.by, Page(Unexpired(clock), k.by, k.cursor))
  /\ Done(k)
  /\ UNCHANGED <<nextId, accessVars, clock, changes, sockets>>

(* websocket: the same page, and nothing is deleted. *)
HandlePoll(k) ==
  /\ k \in calls /\ k.op = "poll"
  /\ Answer(k.by, Page(queue, k.by, k.cursor))
  /\ Done(k)
  /\ UNCHANGED <<queueVars, accessVars, clock, changes, sockets>>

HandleAck(k) ==
  /\ k \in calls /\ k.op = "ack"
  /\ IF Ackable(k.by, k.id) THEN MarkAcked(k.by, k.id) ELSE UNCHANGED queue
  /\ Done(k)
  /\ UNCHANGED <<nextId, accessVars, clock, changes, sockets, retrieved, cursor>>

(* The client hangs up: the handler's future is dropped while it waits for *)
(* the mutex.                                                              *)
Cancel(k) ==
  /\ k \in calls
  /\ Done(k)
  /\ UNCHANGED <<queueVars, accessVars, clock, changes, sockets, retrieved, cursor>>

OpenSocket(c) ==
  /\ Authorised(c)
  /\ sockets' = sockets \cup {c}
  /\ UNCHANGED <<queueVars, accessVars, clock, changes, calls, retrieved, cursor>>

CloseSocket(c) ==
  /\ c \in sockets
  /\ sockets' = sockets \ {c}
  /\ UNCHANGED <<queueVars, accessVars, clock, changes, calls, retrieved, cursor>>

Restart ==
  /\ calls' = {} /\ sockets' = {}
  /\ UNCHANGED <<queueVars, accessVars, clock, changes, retrieved, cursor>>

Tick ==
  /\ clock < MaxClock
  /\ clock' = clock + 1
  /\ UNCHANGED <<queueVars, accessVars, changes, calls, sockets, retrieved, cursor>>

(* Enrollment, by the client, and the administrator's commands. *)
Enrol(c, x) == Register(c, x) /\ UNCHANGED <<queueVars, requestVars, clock, changes>>

Administer(c) ==
  /\ \/ (Approve(c) \/ Revoke(c)) /\ changes < MaxChanges /\ changes' = changes + 1
     \/ DropDevice(c) /\ UNCHANGED changes
  /\ UNCHANGED <<queueVars, requestVars, clock>>

-----------------------------------------------------------------------------
Init ==
  /\ QueueInit /\ AccessInit
  /\ clock = 0
  /\ calls = {} /\ sockets = {} /\ retrieved = {}
  /\ cursor = [c \in Client |-> 0]
  /\ changes = 0

Handle(k) ==
  HandleSend(k) \/ HandleReceive(k) \/ HandlePoll(k) \/ HandleAck(k) \/ Cancel(k)

Next ==
  \/ \E c \in Client : \/ \E k \in ClientCall(c) : Admit(k)
                       \/ OpenSocket(c) \/ CloseSocket(c) \/ Administer(c)
                       \/ \E x \in Address : Enrol(c, x)
  \/ \E k \in calls : Handle(k)
  \/ Restart \/ Tick

Spec == Init /\ [][Next]_vars

-----------------------------------------------------------------------------
TypeOK ==
  /\ QueueTypeOK /\ AccessTypeOK
  /\ clock \in 0..MaxClock
  /\ calls \in SUBSET Call
  /\ sockets \in SUBSET Client
  /\ retrieved \in SUBSET Row
  /\ cursor \in [Client -> Nat]
  /\ changes \in Nat

(* A row as it was when it was retrieved. *)
Original(q) == [q EXCEPT !.acked = FALSE]

(* An acknowledgement only reaches a row that was returned to its          *)
(* recipient, however late it arrives: the id it names is not given to a   *)
(* new message when the old row has expired (AUTOINCREMENT).               *)
AckedWasRetrieved ==
  \A q \in queue : q.acked => Original(q) \in retrieved

(* A client that goes on from the highest id it has been told of misses    *)
(* nothing: all its rows up to there were returned to it ("reconnects do   *)
(* not skip messages", RELAY_SERVER_PLAN 7).                               *)
CursorMissesNothing ==
  \A q \in queue : q.id <= cursor[q.to] => Original(q) \in retrieved

(* Every row is still there after a step, or has expired. *)
Kept == \A q \in queue : \/ \E p \in queue' : Original(p) = Original(q)
                         \/ q.expires \in Nat /\ q.expires <= clock

(* A message stays where it is until its expiry time; no request, restart, *)
(* revocation or acknowledgement removes it ("no silent deletion before    *)
(* expiry", RELAY_SERVER_PLAN 7).                                          *)
NoSilentDeletion == [][Kept]_vars

=============================================================================
