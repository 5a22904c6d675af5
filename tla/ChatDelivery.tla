---------------------------- MODULE ChatDelivery ----------------------------
(***************************************************************************)
(* Chat clients on top of the relay's message table: what                  *)
(* application/src/chat_service.rs does for one conversation at a time     *)
(* (send_text and poll), how the two front ends call it, and the copy and  *)
(* paste transport that shares the Signal session and the history.         *)
(*                                                                         *)
(* Durable state per client: the encrypted history file of each            *)
(* conversation (`disk`) and the Signal ratchet (`opened`, the messages    *)
(* whose message key is used up).  A client runs one operation at a time,  *)
(* in steps; between two steps other clients run, the relay answers or     *)
(* does not, and the client may crash; saving a history may fail.  A       *)
(* transport call with its retries (relay_client.rs, send_with_retry) is   *)
(* one step: each call is idempotent at the relay, so only whether it took *)
(* effect and whether the answer arrived can be told apart.                *)
(*                                                                         *)
(* ChatService submits without an expiry, so rows are never deleted here.  *)
(* Every conversation has a history file of its own, which fails to be so  *)
(* for peers whose names make the same file name: see Lobbies.             *)
(***************************************************************************)
EXTENDS RelayQueue, Sequences

CONSTANTS
  Contacts,      \* the conversations: pairs <<client, peer>>
  Outgoing,      \* bound: the messages users write, as <<conversation, message>>
  Broken,        \* messages whose ciphertext the recipient cannot decrypt
  Foreign,       \* messages another program may have made with the sender's keys
                 \* (`signal encrypt`): the plaintext may be a chat message in UTF-8
                 \* or not, which shows when it is looked at, once
  Terminal,      \* clients that run the terminal program, whose histories stay in
                 \* memory; the desktop program reloads them for every operation
  Transports,    \* what the user chooses from: "relay", "paste" or both
  NotWritten,    \* no message has been composed under an id yet
  MaxCrashes     \* bound on the crashes and failing saves of a run, together

ASSUME ContactsAssumption ==
  Contacts \subseteq {k \in Client \X Client : k[1] # k[2]}
ASSUME ChatAssumption ==
  /\ Outgoing \subseteq Contacts \X MsgId
  /\ Broken \subseteq MsgId /\ Foreign \subseteq MsgId
  /\ Terminal \subseteq Client
  /\ Transports \subseteq {"relay", "paste"}
  /\ \A c, d \in Client : NotWritten # <<c, d>>
  /\ MaxCrashes \in Nat

VARIABLES
  disk,        \* history file of each conversation
  mem,         \* the HistoryFile value the running operation works on
  opened,      \* ratchet state: messages decrypted by each client
  job,         \* the operation each client is in
  letter,      \* the conversation each message id was composed in
  shown,       \* history variable: messages ever stored as received
  told,        \* history variable: messages ever marked read at the sender
  cut,         \* history variable: messages decrypted, but lost by a crash, by a
               \* save that failed, or because there is no text to save
  crashes      \* history variable: number of crashes and failing saves

chatVars == <<disk, mem, opened, job, letter, shown, told, cut, crashes>>
vars == <<queue, nextId, disk, mem, opened, job, letter, shown, told, cut, crashes>>

-----------------------------------------------------------------------------
(* HistoryFile: the own entries by delivery status, the received entries   *)
(* in the order of the file, and the transport cursor.                     *)
Status == {"none", "queued", "copied", "sent", "read"}
Entry == [mid : MsgId, via : {"relay", "paste"}]
History == [status : [MsgId -> Status], inbox : Seq(Entry), cursor : Nat]

(* Mutant of EmptyHistory: the cursor of a new file is not set. *)
EmptyHistoryNoCursor ==
  [status |-> [m \in MsgId |-> "none"], inbox |-> <<>>, cursor |-> NoExpiry]

EmptyHistory == [status |-> [m \in MsgId |-> "none"], inbox |-> <<>>, cursor |-> 0]

WithStatus(h, s) == {m \in MsgId : h.status[m] = s}
Received(h) == {h.inbox[i].mid : i \in DOMAIN h.inbox}

Step == {"idle", "submit", "status", "retry", "page", "store", "ack", "paste"}
Job == [pc : Step, peer : Client, todo : SUBSET MsgId, page : SUBSET Row, dirty : BOOLEAN]

(* A job at the start of an operation; while idle, the peer is the client. *)
NewJob(pc, p, todo) == [pc |-> pc, peer |-> p, todo |-> todo, page |-> {}, dirty |-> FALSE]
Idle(c) == NewJob("idle", c, {})

Conv(c) == <<c, job[c].peer>>
Hist(c) == mem[Conv(c)]

(* The history an operation starts from. *)
Loaded(k) == IF k[1] \in Terminal THEN mem[k] ELSE disk[k]

Goto(c, j) == job' = [job EXCEPT ![c] = j]

(* HistoryStore::save writes the whole file, by rename. *)
Save(k, h) == /\ mem'  = [mem EXCEPT ![k] = h]
              /\ disk' = [disk EXCEPT ![k] = h]
              /\ shown' = shown \cup Received(h)
Remember(k, h) == /\ mem' = [mem EXCEPT ![k] = h]
                  /\ UNCHANGED <<disk, shown>>

(* The operation returns, with Ok or with Err.  The desktop client drops   *)
(* its HistoryFile, the terminal client keeps it.                          *)
Return(c, h) == /\ Goto(c, Idle(c))
                /\ mem' = [mem EXCEPT ![Conv(c)] = IF c \in Terminal THEN h ELSE disk[Conv(c)]]
                /\ UNCHANGED <<disk, shown>>

(* Received messages of c that are in memory only: a save failed. *)
Unsaved(c) == (UNION {Received(mem[k]) : k \in {x \in Contacts : x[1] = c}}) \ shown

(* The program ends, with the messages in hand; the next start reads the   *)
(* histories from disk.                                                    *)
Quit(c, inHand) ==
  /\ Goto(c, Idle(c))
  /\ mem' = [k \in Contacts |-> IF k[1] = c THEN disk[k] ELSE mem[k]]
  /\ cut' = cut \cup inHand \cup Unsaved(c)
  /\ UNCHANGED <<disk, shown>>

(* The history h is saved and the operation goes on ... *)
Saved(c, k, h, j) == Save(k, h) /\ Goto(c, j) /\ UNCHANGED <<cut, crashes>>

Mishap == crashes < MaxCrashes /\ crashes' = crashes + 1

(* ... or the save fails, and the error is returned with h in memory.  The *)
(* desktop client forgets h, the terminal client keeps it, ...             *)
SaveFails(c, k, h) ==
  /\ Mishap
  /\ Goto(c, Idle(c))
  /\ mem' = [mem EXCEPT ![k] = IF c \in Terminal THEN h ELSE disk[k]]
  /\ cut' = IF c \in Terminal THEN cut ELSE cut \cup (Received(h) \ shown)
  /\ UNCHANGED <<disk, shown>>

(* ... or ends, when nobody catches the error (read_relay_input, /r).      *)
SaveEnds(c, h) ==
  /\ c \in Terminal
  /\ Mishap
  /\ Quit(c, Received(h) \ shown)

PollJob(p, h) == NewJob("status", p, WithStatus(h, "sent"))

(* Mutant of Oldest: the page is handled newest first. *)
Newest(page) == CHOOSE q \in page : \A r \in page : q.id >= r.id

(* The message of the page that poll handles next. *)
Oldest(page) == CHOOSE q \in page : \A r \in page : q.id <= r.id

-----------------------------------------------------------------------------
(* The relay handles the submission of message m to the peer. *)
RelayAccepts(c, m) == Submit(c, job[c].peer, m, NoExpiry)

(***************************************************************************)
(* send_text: encrypt (the ratchet is persisted), append a "queued" entry, *)
(* save, then submit.  A crash before the save leaves no trace but an      *)
(* unused message key.                                                     *)
(***************************************************************************)
Compose(c, p, m) ==
  /\ job[c].pc = "idle" /\ "relay" \in Transports
  /\ <<<<c, p>>, m>> \in Outgoing /\ letter[m] = NotWritten
  /\ letter' = [letter EXCEPT ![m] = <<c, p>>]
  /\ LET h == [Loaded(<<c, p>>) EXCEPT !.status[m] = "queued"] IN
       Saved(c, <<c, p>>, h, NewJob("submit", p, {m})) \/ SaveFails(c, <<c, p>>, h)
  /\ UNCHANGED <<queueVars, opened, told>>

(* The relay answers: mark the entry "sent" and save.  The desktop client  *)
(* goes on to poll, the terminal client returns.                           *)
SubmitOk(c) ==
  /\ job[c].pc = "submit"
  /\ \E m \in job[c].todo :
       LET h == [Hist(c) EXCEPT !.status[m] = "sent"] IN
       /\ RelayAccepts(c, m)
       /\ \/ Saved(c, Conv(c), h, IF c \in Terminal THEN Idle(c) ELSE PollJob(job[c].peer, h))
          \/ SaveFails(c, Conv(c), h)
  /\ UNCHANGED <<opened, letter, told>>

(* All attempts failed; the relay may have stored the message all the same.*)
SubmitErr(c) ==
  /\ job[c].pc = "submit"
  /\ \E m \in job[c].todo : RelayAccepts(c, m) \/ UNCHANGED queueVars
  /\ Return(c, Hist(c))
  /\ UNCHANGED <<opened, letter, told, cut, crashes>>

(***************************************************************************)
(* poll, first part: ask for the status of every "sent" entry.             *)
(***************************************************************************)
StartPoll(c, p) ==
  LET h == Loaded(<<c, p>>) IN
  /\ job[c].pc = "idle"
  /\ Remember(<<c, p>>, h)
  /\ Goto(c, PollJob(p, h))
  /\ UNCHANGED <<queueVars, opened, letter, told, cut, crashes>>

StatusRead(c, m) ==
  /\ job[c].pc = "status" /\ m \in job[c].todo
  /\ "read" \in StatusAnswers(c, m)
  /\ Remember(Conv(c), [Hist(c) EXCEPT !.status[m] = "read"])
  /\ Goto(c, [job[c] EXCEPT !.todo = @ \ {m}, !.dirty = TRUE])
  /\ told' = told \cup {m}
  /\ UNCHANGED <<queueVars, opened, letter, cut, crashes>>

(* The relay answers "sent", or does not answer: errors are ignored. *)
StatusSkip(c, m) ==
  /\ job[c].pc = "status" /\ m \in job[c].todo
  /\ Goto(c, [job[c] EXCEPT !.todo = @ \ {m}])
  /\ UNCHANGED <<queueVars, disk, mem, opened, letter, shown, told, cut, crashes>>

RetryJob(c) == [job[c] EXCEPT !.pc = "retry", !.todo = WithStatus(Hist(c), "queued")]

(* Mutants of StatusDone: all own entries count as queued; none does. *)
StatusDoneRetriesAll(c) ==
  /\ job[c].pc = "status" /\ job[c].todo = {}
  /\ Saved(c, Conv(c), Hist(c), [RetryJob(c) EXCEPT !.todo = MsgId \ WithStatus(Hist(c), "none")])
  /\ UNCHANGED <<queueVars, opened, letter, told>>
StatusDoneNoRetry(c) ==
  /\ job[c].pc = "status" /\ job[c].todo = {}
  /\ Saved(c, Conv(c), Hist(c), [RetryJob(c) EXCEPT !.todo = {}])
  /\ UNCHANGED <<queueVars, opened, letter, told>>

StatusDone(c) ==
  /\ job[c].pc = "status" /\ job[c].todo = {}
  /\ IF job[c].dirty
       THEN \/ Saved(c, Conv(c), Hist(c), RetryJob(c))
            \/ SaveFails(c, Conv(c), Hist(c)) \/ SaveEnds(c, Hist(c))
       ELSE Goto(c, RetryJob(c)) /\ UNCHANGED <<disk, mem, shown, cut, crashes>>
  /\ UNCHANGED <<queueVars, opened, letter, told>>

(***************************************************************************)
(* poll, second part: submit the "queued" entries again.                   *)
(***************************************************************************)
RetryOk(c, m) ==
  /\ job[c].pc = "retry" /\ m \in job[c].todo
  /\ RelayAccepts(c, m)
  /\ LET h == [Hist(c) EXCEPT !.status[m] = "sent"] IN
       \/ Saved(c, Conv(c), h, [job[c] EXCEPT !.todo = @ \ {m}])
       \/ SaveFails(c, Conv(c), h) \/ SaveEnds(c, h)
  /\ UNCHANGED <<opened, letter, told>>

(* Mutant of RetryErr: an unanswered submission is marked "sent" too. *)
RetryErrMarksSent(c, m) ==
  /\ job[c].pc = "retry" /\ m \in job[c].todo
  /\ RelayAccepts(c, m) \/ UNCHANGED queueVars
  /\ Saved(c, Conv(c), [Hist(c) EXCEPT !.status[m] = "sent"], [job[c] EXCEPT !.todo = @ \ {m}])
  /\ UNCHANGED <<opened, letter, told>>

RetryErr(c, m) ==
  /\ job[c].pc = "retry" /\ m \in job[c].todo
  /\ RelayAccepts(c, m) \/ UNCHANGED queueVars
  /\ Goto(c, [job[c] EXCEPT !.todo = @ \ {m}])
  /\ UNCHANGED <<disk, mem, opened, letter, shown, told, cut, crashes>>

(***************************************************************************)
(* poll, third part: retrieve a page and handle its messages in order.     *)
(* Messages of other senders are skipped and stay unacknowledged.          *)
(***************************************************************************)
FetchOk(c) ==
  /\ job[c].pc = "retry" /\ job[c].todo = {}
  /\ Goto(c, [job[c] EXCEPT !.pc = "page",
                !.page = {q \in Page(queue, c, Hist(c).cursor) : q.from = job[c].peer}])
  /\ UNCHANGED <<queueVars, disk, mem, opened, letter, shown, told, cut, crashes>>

FetchErr(c) ==
  /\ job[c].pc = "retry" /\ job[c].todo = {}
  /\ Return(c, Hist(c))
  /\ UNCHANGED <<queueVars, opened, letter, told, cut, crashes>>

(* Mutant of Openable: message keys are kept after use. *)
OpenableAgain(c, m) == m \notin Broken

(* The message key of m is there: not used before, and the ciphertext is   *)
(* one the session can decrypt.                                            *)
Openable(c, m) == m \notin opened[c] /\ m \notin Broken

(* Mutant of Open: the message is acknowledged before it is stored. *)
OpenThenAck(c) ==
  /\ job[c].pc = "page" /\ job[c].page # {}
  /\ LET m == Oldest(job[c].page).mid IN
       /\ Openable(c, m)
       /\ opened' = [opened EXCEPT ![c] = @ \cup {m}]
  /\ Goto(c, [job[c] EXCEPT !.pc = "ack"])
  /\ UNCHANGED <<queueVars, disk, mem, letter, shown, told, cut, crashes>>

(* Decryption succeeds and the ratchet is persisted. *)
Open(c) ==
  /\ job[c].pc = "page" /\ job[c].page # {}
  /\ LET m == Oldest(job[c].page).mid IN
       /\ Openable(c, m)
       /\ opened' = [opened EXCEPT ![c] = @ \cup {m}]
  /\ Goto(c, [job[c] EXCEPT !.pc = "store"])
  /\ UNCHANGED <<queueVars, disk, mem, letter, shown, told, cut, crashes>>

(* "old counter": the message key is gone; acknowledge as stale. *)
OpenStale(c) ==
  /\ job[c].pc = "page" /\ job[c].page # {}
  /\ Oldest(job[c].page).mid \in opened[c]
  /\ Goto(c, [job[c] EXCEPT !.pc = "ack"])
  /\ UNCHANGED <<queueVars, disk, mem, opened, letter, shown, told, cut, crashes>>

(* Mutant of OpenErr: poll goes on with the next message of the page. *)
OpenErrContinues(c) ==
  /\ job[c].pc = "page" /\ job[c].page # {}
  /\ LET m == Oldest(job[c].page).mid IN m \notin opened[c] /\ ~Openable(c, m)
  /\ Goto(c, [job[c] EXCEPT !.page = @ \ {Oldest(@)}])
  /\ UNCHANGED <<queueVars, disk, mem, opened, letter, shown, told, cut, crashes>>

(* Any other decryption error makes poll return it; the terminal client    *)
(* ends when that happens between two keys.                                *)
OpenErr(c) ==
  /\ job[c].pc = "page" /\ job[c].page # {}
  /\ LET m == Oldest(job[c].page).mid IN m \notin opened[c] /\ ~Openable(c, m)
  /\ \/ Return(c, Hist(c)) /\ UNCHANGED cut
     \/ c \in Terminal /\ Quit(c, {})
  /\ UNCHANGED <<queueVars, opened, letter, told, crashes>>

(* Append the received entry and save, unless its id is there already: the *)
(* plaintext is a text.                                                    *)
Deliver(c, m, via, next) ==
  LET k == Conv(c)
      h == IF job[c].pc = "paste" THEN Loaded(k) ELSE mem[k]
      with == [h EXCEPT !.inbox = Append(@, [mid |-> m, via |-> via])]
  IN IF m \in Received(h)
     THEN Remember(k, h) /\ Goto(c, next) /\ UNCHANGED <<cut, crashes>>
     ELSE Saved(c, k, with, next) \/ SaveFails(c, k, with) \/ SaveEnds(c, with)

Store(c) ==
  /\ job[c].pc = "store"
  /\ Deliver(c, Oldest(job[c].page).mid, "relay", [job[c] EXCEPT !.pc = "ack"])
  /\ UNCHANGED <<queueVars, opened, letter, told>>

(* SafeChatMessage::decode or String::from_utf8 fails, after the ratchet   *)
(* has been persisted: the operation returns the error, or the terminal    *)
(* client ends, and what was decrypted is gone.                            *)
Unreadable(c, m, h) ==
  /\ m \in Foreign
  /\ \/ Return(c, h) /\ cut' = cut \cup {m}
     \/ c \in Terminal /\ Quit(c, {m})
  /\ UNCHANGED <<queueVars, opened, letter, told, crashes>>

StoreErr(c) ==
  /\ job[c].pc = "store"
  /\ Unreadable(c, Oldest(job[c].page).mid, Hist(c))

(* Acknowledge, then advance_cursor in memory. *)
AckOk(c) ==
  /\ job[c].pc = "ack"
  /\ LET q == Oldest(job[c].page)
         h == Hist(c)
     IN /\ MarkAcked(c, q.id)
        /\ Remember(Conv(c), [h EXCEPT !.cursor = IF q.id > @ THEN q.id ELSE @])
        /\ Goto(c, [job[c] EXCEPT !.pc = "page", !.page = @ \ {q},
                      !.dirty = @ \/ q.id > h.cursor])
  /\ UNCHANGED <<nextId, opened, letter, told, cut, crashes>>

AckErr(c) ==
  /\ job[c].pc = "ack"
  /\ MarkAcked(c, Oldest(job[c].page).id) \/ UNCHANGED queue
  /\ Return(c, Hist(c))
  /\ UNCHANGED <<nextId, opened, letter, told, cut, crashes>>

(* The loop ends: save if anything changed, and return. *)
FinishPoll(c) ==
  /\ job[c].pc = "page" /\ job[c].page = {}
  /\ IF job[c].dirty
       THEN \/ Saved(c, Conv(c), Hist(c), Idle(c))
            \/ SaveFails(c, Conv(c), Hist(c)) \/ SaveEnds(c, Hist(c))
       ELSE Return(c, Hist(c)) /\ UNCHANGED <<cut, crashes>>
  /\ UNCHANGED <<queueVars, opened, letter, told>>

-----------------------------------------------------------------------------
(***************************************************************************)
(* Copy and paste.  The sender stores the entry as "copied" and nothing is *)
(* submitted; the recipient may paste any ciphertext the sender produced,  *)
(* those sent through the relay included, any number of times.             *)
(***************************************************************************)
PasteSend(c, p, m) ==
  /\ job[c].pc = "idle" /\ "paste" \in Transports
  /\ <<<<c, p>>, m>> \in Outgoing /\ letter[m] = NotWritten
  /\ letter' = [letter EXCEPT ![m] = <<c, p>>]
  /\ LET h == [Loaded(<<c, p>>) EXCEPT !.status[m] = "copied"] IN
       Saved(c, <<c, p>>, h, Idle(c)) \/ SaveFails(c, <<c, p>>, h)
  /\ UNCHANGED <<queueVars, opened, told>>

PasteOpen(c, p, m) ==
  /\ job[c].pc = "idle" /\ "paste" \in Transports
  /\ letter[m] = <<p, c>>
  /\ Openable(c, m)
  /\ opened' = [opened EXCEPT ![c] = @ \cup {m}]
  /\ Goto(c, NewJob("paste", p, {m}))
  /\ UNCHANGED <<queueVars, disk, mem, letter, shown, told, cut, crashes>>

PasteStore(c) ==
  /\ job[c].pc = "paste"
  /\ \E m \in job[c].todo : Deliver(c, m, "paste", Idle(c))
  /\ UNCHANGED <<queueVars, opened, letter, told>>

PasteStoreErr(c) ==
  /\ job[c].pc = "paste"
  /\ \E m \in job[c].todo : Unreadable(c, m, Loaded(Conv(c)))

(* A ciphertext that cannot be decrypted ends the terminal client. *)
PasteErr(c, p, m) ==
  /\ job[c].pc = "idle" /\ "paste" \in Transports /\ c \in Terminal
  /\ letter[m] = <<p, c>>
  /\ ~Openable(c, m)
  /\ Quit(c, {})
  /\ UNCHANGED <<queueVars, opened, letter, told, crashes>>

(* The desktop client deletes a conversation's history file, cursor and    *)
(* outbox included; the Signal session stays.                              *)
DeleteHistory(c, p) ==
  /\ c \notin Terminal
  /\ job[c].pc = "idle"
  /\ Saved(c, <<c, p>>, EmptyHistory, Idle(c))
  /\ UNCHANGED <<queueVars, opened, letter, told>>

(* A message that is decrypted and not yet in a history. *)
InHand(c) ==
  CASE job[c].pc = "store" -> {Oldest(job[c].page).mid}
    [] job[c].pc = "paste" -> job[c].todo
    [] OTHER -> {}

(* The process dies.  What is on disk and at the relay stays. *)
Crash(c) ==
  /\ Mishap
  /\ Quit(c, InHand(c))
  /\ UNCHANGED <<queueVars, opened, letter, told>>

-----------------------------------------------------------------------------
Init ==
  /\ QueueInit
  /\ disk   = [k \in Contacts |-> EmptyHistory]
  /\ mem    = [k \in Contacts |-> EmptyHistory]
  /\ opened = [c \in Client |-> {}]
  /\ job    = [c \in Client |-> Idle(c)]
  /\ letter = [m \in MsgId |-> NotWritten]
  /\ shown = {} /\ told = {} /\ cut = {}
  /\ crashes = 0

SendText(c) == SubmitOk(c) \/ SubmitErr(c)

Poll(c) ==
  \/ \E m \in MsgId : StatusRead(c, m) \/ StatusSkip(c, m) \/ RetryOk(c, m) \/ RetryErr(c, m)
  \/ StatusDone(c) \/ FetchOk(c) \/ FetchErr(c)
  \/ Open(c) \/ OpenStale(c) \/ OpenErr(c) \/ Store(c) \/ StoreErr(c)
  \/ AckOk(c) \/ AckErr(c) \/ FinishPoll(c)

Start(c, p) ==
  \/ StartPoll(c, p) \/ DeleteHistory(c, p)
  \/ \E m \in MsgId : \/ Compose(c, p, m) \/ PasteSend(c, p, m)
                     \/ PasteOpen(c, p, m) \/ PasteErr(c, p, m)

Paste(c) == PasteStore(c) \/ PasteStoreErr(c)

Next ==
  \/ \E k \in Contacts : Start(k[1], k[2])
  \/ \E c \in Client : SendText(c) \/ Poll(c) \/ Paste(c) \/ Crash(c)

Spec == Init /\ [][Next]_vars

(* The calls that change something for good when they succeed.  A message  *)
(* is marked, submitted or acknowledged once, and again only after a       *)
(* mishap: finitely often, so fairness to one of these calls or another is *)
(* fairness to each.                                                       *)
Succeed(c) == \/ \E m \in MsgId : StatusRead(c, m) \/ RetryOk(c, m)
              \/ AckOk(c)

(* The page is fetched for the conversation in which p writes to c. *)
FetchFrom(p, c) == job[c].peer = p /\ FetchOk(c)

(***************************************************************************)
(* Fairness.  A running operation goes on and every transport call returns *)
(* (finite retries with time-outs); a call that is made again and again    *)
(* succeeds eventually; every conversation is polled again and again: the  *)
(* desktop client polls the selected one on a timer, the terminal client   *)
(* the current one between keys, and the user selects each in turn.        *)
(***************************************************************************)
Fairness ==
  /\ \A c \in Client : WF_vars(SendText(c) \/ Poll(c) \/ Paste(c))
  /\ SF_vars(\E c \in Client : Succeed(c))
  /\ \A k \in {o[1] : o \in Outgoing} : SF_vars(FetchFrom(k[1], k[2]))
  /\ \A k \in Contacts : SF_vars(StartPoll(k[1], k[2]))

FairSpec == Spec /\ Fairness
-----------------------------------------------------------------------------
TypeOK ==
  /\ QueueTypeOK
  /\ disk \in [Contacts -> History]
  /\ mem \in [Contacts -> History]
  /\ opened \in [Client -> SUBSET MsgId]
  /\ job \in [Client -> Job]
  /\ letter \in [MsgId -> Contacts \cup {NotWritten}]
  /\ shown \in SUBSET MsgId /\ told \in SUBSET MsgId /\ cut \in SUBSET MsgId
  /\ crashes \in Nat

(* An entry is "sent" or "read", in the file or in memory, only if the     *)
(* relay holds the message for the peer of that conversation.              *)
SentIsHeld ==
  \A k \in Contacts : \A m \in MsgId :
    disk[k].status[m] \in {"sent", "read"} \/ mem[k].status[m] \in {"sent", "read"}
      => Stored(k[1], k[2], m)

(* Nothing is skipped: every message of the peer at or below a saved       *)
(* cursor has been acknowledged ("persist the retrieval cursor locally so  *)
(* reconnects do not skip messages", RELAY_SERVER_PLAN 7).                 *)
CursorSkipsNothing ==
  \A k \in Contacts : \A q \in queue :
    /\ q.to = k[1] /\ q.from = k[2]
    /\ q.id <= disk[k].cursor \/ q.id <= mem[k].cursor
    => q.acked

(* An acknowledged message that has not been in the history file is in the *)
(* memory of a terminal client, from where the next save writes it, or was *)
(* lost after it had been decrypted: by a crash or a failing save, and in  *)
(* a run without one only because another program made it and there was no *)
(* text to save.                                                           *)
LostOnlyByMishap ==
  /\ \A q \in queue : q.acked => q.mid \in shown \cup cut \cup Unsaved(q.to)
  /\ crashes = 0 => cut \subseteq Foreign

(* What the plan promises: "acknowledge items only after they have been    *)
(* durably handed to local client state" (RELAY_SERVER_PLAN.md:340).  The  *)
(* code does not keep it: see the run chat_handover.                       *)
AckedAfterHandover == \A q \in queue : q.acked => q.mid \in shown

(* Messages retrieved from the relay stand in the history in the order in  *)
(* which the relay accepted them.                                          *)
RelayOrder ==
  \A k \in Contacts : LET box == disk[k].inbox IN
    \A i, j \in DOMAIN box : i < j /\ box[i].via = "relay" /\ box[j].via = "relay" =>
      \A p, q \in queue : p.mid = box[i].mid /\ q.mid = box[j].mid => p.id < q.id

(* No message is delivered to the history twice, not even after its        *)
(* conversation has been deleted, a crash, or a paste of the ciphertext    *)
(* the relay also holds.                                                   *)
ShownOnce ==
  [][\A k \in Contacts : (Received(disk'[k]) \ Received(disk[k])) \cap shown = {}]_vars

Rank(s) == CASE s = "queued" -> 1 [] s = "sent" -> 2 [] s = "read" -> 3 [] OTHER -> 0

(* Saving never loses a received entry, moves the cursor back or takes the *)
(* status of an entry back, unless the history is deleted: no stale copy   *)
(* in memory overwrites a newer file.                                      *)
HistoryGrows ==
  [][\A k \in Contacts :
       \/ disk'[k] = EmptyHistory
       \/ /\ Received(disk[k]) \subseteq Received(disk'[k])
          /\ disk[k].cursor <= disk'[k].cursor
          /\ \A m \in MsgId : Rank(disk[k].status[m]) <= Rank(disk'[k].status[m])]_vars

-----------------------------------------------------------------------------
(* The sender's entry of message m has that status in the file. *)
Filed(m, status) == \E k \in Contacts : disk[k].status[m] = status

(* A queued entry is submitted successfully some day, or deleted. *)
OutboxDrains == \A m \in MsgId : Filed(m, "queued") ~> ~Filed(m, "queued")

(* Rows that poll does not get past: one that cannot be decrypted makes it *)
(* return, so the rows of the same sender behind it stay where they are.   *)
Stuck(q) == \E b \in queue : /\ b.mid \in Broken /\ b.id <= q.id
                            /\ b.from = q.from /\ b.to = q.to

(* A whole page of stuck rows stands between the cursor and row q: those   *)
(* of other senders are skipped, and fill every page all the same.         *)
CrowdedOut(q) ==
  PageLimit <= Cardinality({s \in queue : /\ Stuck(s) /\ s.to = q.to /\ s.id < q.id
                                         /\ s.id > disk[<<q.to, q.from>>].cursor})

OutOfReach(m) == \E q \in queue : q.mid = m /\ (Stuck(q) \/ CrowdedOut(q))

(* A message the relay holds is handled by its recipient some day, unless  *)
(* a message that cannot be decrypted keeps it out of reach: poll returns  *)
(* there.  (The plan wants more, "process each retrieved payload           *)
(* independently", RELAY_SERVER_PLAN.md:352.)                              *)
HeldIsHandled ==
  \A m \in MsgId :
    (\E q \in queue : q.mid = m) ~> (m \in shown \cup cut \/ OutOfReach(m))

(* The sender learns that a message it sent was read, unless the message   *)
(* is out of the recipient's reach or the sender deletes the entry.        *)
ReadComesBack ==
  \A m \in MsgId : Filed(m, "sent") ~> (~Filed(m, "sent") \/ OutOfReach(m))

-----------------------------------------------------------------------------
(* Messages that were decrypted and are not yet in a history file. *)
Opening == UNION {InHand(c) \cup Unsaved(c) : c \in Client}

(* The refinement mapping to the abstract channel. *)
Channel == INSTANCE MessageChannel WITH
  composed  <- {m \in MsgId : letter[m] # NotWritten},
  held      <- {q.mid : q \in queue},
  opening   <- Opening,
  lost      <- cut,
  confirmed <- told

(* The clients and the relay together implement the channel. *)
ChannelSpec == Channel!Spec
=============================================================================
