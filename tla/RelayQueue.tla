----------------------------- MODULE RelayQueue -----------------------------
(***************************************************************************)
(* The relay's message table: the rows of `messages` and the statements    *)
(* that the handlers of relay/src/messages.rs run on it.  Each operator    *)
(* below is one critical section: the handler holds the database mutex     *)
(* from its first to its last statement.                                   *)
(*                                                                         *)
(* The module has no Init/Next of its own.  RelayService adds the device   *)
(* table and the clock and lets every client call every handler;           *)
(* ChatDelivery drives the same table from the chat clients.               *)
(***************************************************************************)
EXTENDS RelayClients, Naturals, FiniteSets

CONSTANTS
  MsgId,      \* client message ids, chosen by the sender
  NoExpiry,   \* expires_at IS NULL
  PageLimit   \* LIMIT of the retrieval query (100 in the code)

ASSUME PageLimitAssumption == PageLimit \in Nat \ {0}
ASSUME NoExpiryAssumption  == NoExpiry \notin Nat

VARIABLES
  queue,      \* the rows of `messages`
  nextId      \* the AUTOINCREMENT sequence: server ids are never used again

queueVars == <<queue, nextId>>

ExpiresAt == Nat \cup {NoExpiry}

(* acknowledged_at only matters as NULL / not NULL. *)
Row == [id : Nat, from : Client, to : Client, mid : MsgId,
        expires : ExpiresAt, acked : BOOLEAN]

QueueTypeOK == /\ queue \in SUBSET Row
               /\ nextId \in Nat

QueueInit == /\ queue = {}
             /\ nextId = 1

(* Mutant of Stored: an acknowledged row no longer blocks a submission. *)
StoredUnacked(s, r, m) ==
  \E q \in queue : q.from = s /\ q.to = r /\ q.mid = m /\ ~q.acked

(* The row that UNIQUE(sender, recipient, client_message_id) lets exist.   *)
Stored(s, r, m) == \E q \in queue : q.from = s /\ q.to = r /\ q.mid = m

(* Mutant of NewRow: a row id without AUTOINCREMENT.                       *)
NewRowReused(s, r, m, e) ==
  [id |-> CHOOSE i \in 1..nextId : /\ \A q \in queue : q.id < i
                                   /\ i = 1 \/ \E q \in queue : q.id = i - 1,
   from |-> s, to |-> r, mid |-> m, expires |-> e, acked |-> FALSE]

NewRow(s, r, m, e) == [id |-> nextId, from |-> s, to |-> r, mid |-> m,
                       expires |-> e, acked |-> FALSE]

(***************************************************************************)
(* send: INSERT OR IGNORE.  When the row is there already the handler      *)
(* answers OK with the stored one.                                         *)
(***************************************************************************)
Submit(s, r, m, e) ==
  IF Stored(s, r, m)
  THEN UNCHANGED queueVars
  ELSE /\ queue' = queue \cup {NewRow(s, r, m, e)}
       /\ nextId' = nextId + 1

(* Mutant of Unexpired: an absent expiry time counts as 0. *)
UnexpiredNull(t) == {q \in queue : q.expires # NoExpiry /\ q.expires > t}

(* receive: the DELETE that precedes the SELECT. *)
Unexpired(t) == {q \in queue : q.expires = NoExpiry \/ q.expires > t}

(* Mutant of Pending: the first row after the cursor is left out. *)
PendingOffByOne(rows, r, cursor) ==
  {q \in rows : q.to = r /\ q.id > cursor + 1 /\ ~q.acked}

(* receive and the WebSocket poll: the SELECT, without its LIMIT ...       *)
Pending(rows, r, cursor) ==
  {q \in rows : q.to = r /\ q.id > cursor /\ ~q.acked}

(* Mutant of FirstPage: the newest rows. *)
LastPage(rows) ==
  {q \in rows : Cardinality({p \in rows : p.id >= q.id}) <= PageLimit}

(* ... and with it: the PageLimit oldest rows in server_id order.          *)
FirstPage(rows) ==
  {q \in rows : Cardinality({p \in rows : p.id <= q.id}) <= PageLimit}

Page(rows, r, cursor) == FirstPage(Pending(rows, r, cursor))

(***************************************************************************)
(* acknowledge: only the recipient's row, and again if it is acknowledged  *)
(* already.  Without such a row the handler answers 404.                   *)
(***************************************************************************)
Ackable(r, i) == \E q \in queue : q.id = i /\ q.to = r

MarkAcked(r, i) ==
  queue' = {IF q.id = i /\ q.to = r THEN [q EXCEPT !.acked = TRUE] ELSE q : q \in queue}

(* Mutants of StatusAnswers: accepted counts as read; read is never told. *)
StatusAnswersEagerly(s, m) == {"read" : q \in {p \in queue : p.from = s /\ p.mid = m}}
StatusAnswersSent(s, m)    == {"sent" : q \in {p \in queue : p.from = s /\ p.mid = m}}

(***************************************************************************)
(* status: the row is looked up by sender and message id alone; when the   *)
(* sender used the id for several recipients, any of the rows may answer.  *)
(***************************************************************************)
StatusAnswers(s, m) ==
  {IF q.acked THEN "read" ELSE "sent" : q \in {p \in queue : p.from = s /\ p.mid = m}}

-----------------------------------------------------------------------------
(* At most one row for a sender, recipient and message id: what makes      *)
(* submission idempotent ("a suitable combination", RELAY_SERVER_PLAN 6).  *)
OneRowPerSubmission ==
  \A p, q \in queue : p.from = q.from /\ p.to = q.to /\ p.mid = q.mid => p = q

(* Server ids name rows and are all below the sequence. *)
IdsAreKeys == /\ \A p, q \in queue : p.id = q.id => p = q
              /\ \A q \in queue : 0 < q.id /\ q.id < nextId
=============================================================================
