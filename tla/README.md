# SafeChat in TLA+

SafeChat is an end-to-end encrypted chat: two clients (a desktop one in Slint, a
terminal one) on top of the Signal protocol, which exchange ciphertexts by copy and
paste, in a picture, or through a relay server. The relay (axum, one SQLite
database behind one mutex) authenticates devices, queues ciphertexts, and never
sees a plaintext. This directory models the parts of it whose correctness depends
on interleavings, lost answers, crashes and time. Source lines below are relative
to `src/codebase/`.

## 1. Inventory

| Component | State it keeps | Operations | Talks to |
|---|---|---|---|
| relay message queue (`relay/src/messages.rs`) | table `messages`, AUTOINCREMENT sequence | send, receive, status, acknowledge | access control; clients over HTTP |
| relay WebSocket (`relay/src/events.rs`) | one task per socket | open, poll frame, close | the same table |
| relay access control (`relay/src/database.rs`, `main.rs`, `auth.rs`) | tables `allowlist`, `devices` | allowlist-add, approve, reject, revoke (processes of their own), check of the token | all handlers |
| relay enrollment (`relay/src/enrollment.rs`) | tables `enrollment_requests`, `challenges` | enrollment request, challenge, register | access control; `setup_relay` of the client |
| relay request authentication (`relay/src/auth.rs`) | table `request_nonces` | verify a signature, timestamp and nonce | all handlers |
| relay contact requests (`relay/src/contacts.rs`) | table `contact_requests` | create, list, accept, reject | terminal client |
| relay bundles (`relay/src/bundles.rs`) | column `devices.bundle` | publish, fetch | Signal adapter |
| relay client (`transports/src/`) | access token, peer ids | signed requests with retries | relay |
| chat service (`application/src/chat_service.rs`) | none of its own | send_text, poll | history store, Signal adapter, relay client |
| history store (`core/src/profile_store.rs`) | one encrypted file per conversation, a legacy file for all | load, save, delete, page | chat service, front ends |
| Signal adapter (`core/src/signal_adapter.rs`) | SQLite store of sessions, prekeys, identities; a copy in memory | encrypt, decrypt, maintain keys, export, trust, recover, revoke, replace the identity | chat service, front ends |
| desktop client (`slint-ui/src/`) | window state on the UI thread; session, queue of 16, events of one worker thread | callbacks, `prepare`, worker loop, `apply`, timer | chat service, Signal adapter |
| terminal client (`src/bin/safechat-ui.rs`) | vectors of peers and histories, current index, session file | start-up, chat loop and its commands, contact dialogues | everything above |
| codecs, carriers, localization, validation, smoke client | none | pure functions, external programs | |

Hard behaviours: a transport call is retried and its answer may be lost after the
relay has acted; the history file, the Signal store and the relay commit
separately and the process may die in between; two kinds of client keep
histories differently; the administrator's commands are other processes whose
statements commit one by one while the server runs; a handler releases the mutex
between authentication and its work; time (expiry, nonces) moves meanwhile.

What makes each part correct: a message is stored once and disappears only by
expiry; acknowledgements and cursors only cover what was delivered; a message is
shown once, and lost at most between its decryption and the save; the sender is told "read" only
after the recipient opened it; each approval lets a client register once and late
copies of requests change nothing; a signed request is accepted once; a lobby exists
only between two users who asked for it, or by a pasted bundle, and sends to the right
one's mailbox; a message
key is used once, and keys that are needed stay; the window shows one conversation, that
of the contact it is headed with; histories of peers with different file names are not
mixed up. The full list of hazards, each at its line, is in `PROJECT.json`.

## 2. Modules

```
RelayClients ── RelayQueue ──┬── RelayService ── MCRelayService
           └─── RelayAccess ─┘        └── RelayServiceProofs
                RelayAccess ◄─ implemented by ─ Enrollment ── MCEnrollment
                                                   └── EnrollmentProofs
RelayQueue ── ChatDelivery ─┬─ MCChatDelivery
                            ├─ ChatDeliveryProofs
                            └─ implements ─► MessageChannel
RequestAuth ── MCRequestAuth              RelayClients ── Contacts ── MCContacts
       └── RequestAuthProofs                                  └── ContactsProofs
SignalStore ── MCSignalStore    UiWorker ── MCUiWorker    Lobbies ── MCLobbies
       └── SignalStoreProofs              └── UiWorkerProofs      └── LobbiesProofs
```

**RelayQueue**: the message table. `queue` holds its rows, `nextId` the sequence.
`Submit`, `Unexpired`, `Page`, `MarkAcked`, `StatusAnswers` are the SQL statements
of the four handlers; each is one critical section of the mutex.

**RelayAccess**: abstract specification of who may use the relay: allowlist
status and device row per client. RelayService runs on it; Enrollment implements it,
so what holds in RelayService does not depend on how clients come to be enrolled.

**RelayService**: concurrent requests. `Admit` is authentication (the mutex is
released after it), `HandleSend` ... `HandleAck` the handlers, `Cancel` a client that
hangs up, `OpenSocket`/`HandlePoll`/`CloseSocket` the WebSocket, `Restart` the relay.
`retrieved` and `cursor` record what clients have been given.

**Enrollment**: enrollment requests, challenges and registration at the relay, the
administrator's commands statement by statement, and `setup_relay` of the terminal
client (`job`, `session`). Requests lie in `wire` until handled, and may stay there to
be handled again: a client that has given up on a request does not take it back. Time
is left out: a pending request or challenge may expire at any moment. A client has one
enrollment secret, saved with its configuration, so the comparison of secrets always
succeeds and is left out; identity and address are fixed for the same reason.

**RequestAuth**: `verify_signature`. The clock is read before the mutex is taken and
again after, so `Arrive` and `Accept`/`Refuse` are separate steps.

**ChatDelivery**: what `send_text` and `poll` do, in steps, on the table of
RelayQueue. `disk` and `mem` are the history of each conversation in its file and in
the running operation (or, in the terminal client, between operations); `opened` is
what the ratchet has used up; `job` is the program counter of the operation, with the
status queries, retries or rows it has yet to deal with. `Terminal` is the set
of clients that run the terminal program, which keeps histories in memory between
operations; the others run the desktop one, which loads them each time. `PasteSend`, `PasteOpen`, `PasteStore` are the copy-and-paste
transport, which shares the Signal session. A transport call including its four attempts is one
step: every call is idempotent at the relay, so all that matters is whether it took
effect and whether an answer arrived. Every save may fail: the error ends the operation
with the new history in memory (`SaveFails`), and also the program where nobody catches
it (`SaveEnds`); the desktop client forgets such a history, the terminal client writes
it with its next save. `Unsaved` are the received messages that are only in memory.
`Foreign` are messages that another program may have made with the sender's keys
(`signal encrypt`, `src/main.rs`): when one is decrypted it turns out to be a chat message
in UTF-8, or not; then `StoreErr` or `PasteStoreErr` returns the error with the ratchet
persisted and nothing saved (chat_service.rs:178).

**Contacts**: the table `contact_requests` and the dialogues of the terminal client
around it. `job` is where a client is: waiting for an answer of the relay, in the loop
over its own accepted requests at the head of `chat_loop` (`Poll`, `PassOver`,
`Announce`, `Refuse`), or in `/contacts` (`Review`, `Approve`, `Decline`). `Adopt` stands
for the three writes that set up a lobby, into `trusted` (the Signal store), `ids`
(relay-peers) and `files` (the bundle file); `AdoptCut` is the same with the
program dead after the first or the second, `AdoptRefused` the refusal of another
identity under a known name. `known` holds the names whose identity is in memory, which
is all `trust_peer` compares with, and `lobbies` the peers in memory. `SetupPeer` is
`/add-contact` with a pasted bundle (`setup_peer`): it writes `trusted` and `files` and
leaves `ids` as it is; the transport can be switched at the prompt, so it may come between
any two dialogues. `Revoke` is `/revoke-device`. `files` is keyed by file name (`FileOf`,
which several display names may share; the file tells whose bundle it holds), the other two by
display name. `agreed`, `made`, `torn` and `pasted` are history variables: approvals,
completed sides, pairs of which one stopped in the middle, and files that `setup_peer` wrote
last. A request on the `wire` may be handled after its client has given up, or never.

**MessageChannel**: what the chat promises for a message: composed, perhaps held by the
relay, opened at most once, shown at most once or lost, confirmed to the sender only
then. Its four parties move independently, since one step of ChatDelivery may compose
and hold, or lose several opened messages at once. `ChatDelivery!ChannelSpec` is the
refinement.

**SignalStore**: one device. `disk` stands for the tables of the Signal database, `mem`
for libsignal's in-memory store that every operation changes first; `job` is the
operation and the commit it is at. Where the code commits statement by statement there
is an action for each, with `StatementFails` and `Kill` in between: `PersistKeys`,
`RecordRotation` (key maintenance, at the head of most operations), `ReturnCiphertext`
and `ReturnPlaintext` (`persist_peer`), `DropSession` ... `RevokeRow`, `AcceptRow` ...
`FinishTrust`, `Replace`, `RecordReplacement`. libsignal is external: a session is the
set of handshakes it has keys for with a number of ciphertexts made, an X3DH handshake
needs the one-time and the signed prekey of its bundle. `given` are the bundles that
peers or the relay hold, which may be used any number of times and at any time, an old
one too. `verified` follows what the user has vouched for and `cut` where an operation was
interrupted: the properties are exact about which interruption costs which key.

**UiWorker**: the window (`ui`, with `Prepared` and `Apply` of `state.rs`), the bounded
channel (`queue`), the command the worker executes, and the channel of events. A callback
is a guard on what the window shows, `prepare`, and `try_submit`. The timer drains the
channel (`DrainEvents`), applies the events one by one (`ApplyEvent`, with `drained` the
number left, while the worker goes on), and polls or returns (`TimerPolls`,
`TimerReturns`); callbacks wait for it, as they run on the same thread. A command does not say which profile it is for except
when it unlocks or verifies; the others work in the worker's `session`. `crossed`,
`dropped` and `unloaded` record three known gaps that the properties leave out: commands
under way while the user unlocks or verifies again, a poll that found the queue full
(its refusal is ignored and the window keeps saying that it loads), and a conversation
that counts as selected although its loading failed.

**Lobbies**: the vectors `peers` and `histories` of the terminal client with the index
`current`, the bundle and history files, and every command that changes one of them:
start, `/use`, messages, contact requests, `/add-contact`, `/accept-recovery`,
`/revoke-device`, `/replace-identity`, each also cut short by a kill. A history is the set
of its entries. Both files of a peer are named after it by `FileOf`, for which any
function will do: `peer_file_component` and `path_for` replace whatever is not an ASCII letter,
digit, `-` or `_` by `_`, so that two peers may share their files. `behind` are the peers in
memory whose file has something they did not read: a contact request set the lobby up with an
empty history although the file exists, or another peer has saved its own history into it.

Names starting with a definition's name and described as "Mutant of" are altered copies
of the definition after them, a plausible bug each: with it in place of the original,
the property listed with it in `PROJECT.json` fails.

## 3. Runs

| Run | Question | Result |
|---|---|---|
| `relay_queue` | two messages, two requests in flight, a name that stands for no, one or two devices, expiry, restarts, two administrator's commands: do acknowledgements, cursors and deletion hit only what they should? | holds |
| `enrollment` | late copies of every request, lost answers, cut approvals, revocation: does enrollment implement RelayAccess, does a client's token stay valid, does a user who restarts a waiting client get in at last? | holds |
| `auth_replay` | is a signed request accepted once, whatever copies wait or come late? | holds |
| `chat_pair` | a desktop and a terminal client write to each other, relay and paste mixed, one crash or failing save, a message of another program: safety, refinement | holds |
| `chat_fanin` | two senders, three messages, one of which cannot be decrypted, and pages of two: do the cursors of two conversations get along? | holds |
| `chat_live` | two senders, pages of one row, one message that cannot be decrypted: does the outbox drain, are the messages handled that this one does not keep out of reach, does "read" come back? | holds |
| `contacts` | one request each way between a client and two others that share a display name, the bundle of one of which may be pasted; late answers, expiry, revocation, a program stopped between two writes: are lobbies mutual, accepted requests answered for, mailboxes the right ones? | holds |
| `signal_store` | two peers, two messages, every operation cut at every commit: is a message key used once, do keys live as long as they are needed, is only a verified identity written to and read? | holds |
| `ui_worker` | two profiles and contacts, full queues, failures, repeated unlocking, late events: does the window show what the worker works on? | holds |
| `lobbies` | three peers, two of them with one file name, come and go in every way there is: do the vectors stay parallel, which conversations stay apart, which saves may take entries out of a file? | holds |
| `chat_handover` | "acknowledge items only after they have been durably handed to local client state" (RELAY_SERVER_PLAN.md) | **violated** |
| `signal_recovered` | "Recovery accepted. ... the new lobby is ready" | **violated** |

The two violated runs are disagreements between a text and the code; `PROJECT.json` quotes
each. (1) Decrypting persists the ratchet before the history is saved, and a message
whose key is gone is acknowledged as stale. (2) `accept_recovery` deletes the session with
the old identity in the database but not in memory, and `persist_peer` writes it back:
the next message is refused.

Further disagreements the models contain, for which no run is kept. `poll` returns at the
first message it cannot decrypt, every time ("process each retrieved payload
independently", RELAY_SERVER_PLAN.md:352), so that the messages behind it are never handled;
`HeldIsHandled` and `ReadComesBack` except just those (`OutOfReach`: behind such a message
of the same sender, or behind a full page of rows that no poll gets past). Two peers whose names
make one file name do not have "an independent private lobby with its own pairwise Signal
session and encrypted history" (src/README.md:128-130): they share the history file, and
`OwnConversation` and `HistoryKept` say how far that goes. `allowlist-revoke` is two commits,
and a socket is checked against the device row only (RELAY_SERVER_PLAN.md:530); a registration whose answer
was lost cannot be repeated ("Once approved, registration retries automatically",
src/README.md:171); `/revoke-device` leaves the peer in relay-peers, so an accepted second
request to it is passed over (safechat-ui.rs:985 says "Use /add-contact to establish a
fresh verified lobby").

What else a reader should know the models show, although no text speaks of it: the
WebSocket returns messages after their expiry, which the HTTP handler deletes first;
opening a message commits the used prekey's removal before the session, so a kill in
between makes the message unreadable; a pasted message whose save fails is gone, and so
is a message that is no text, which the next poll acknowledges as stale; a bundle pasted over
another peer's of the same name leaves that peer's relay id beside it until the lobby is made
through the relay again (a message is then refused, as the bundle fetched for it has another
identity); a second unlocking while the first is under way, or a verification while a chat command is, crosses
their events; deleting a conversation in the desktop client takes the contact from the window
only; a lobby set up again by a contact request overwrites the older history file with
its first save; entries of the legacy history that name nobody go to whichever peer is
first at each start.

### Bounds

* `relay_*`: two clients, one address, at most two messages, two calls in flight, a clock
  of two values, two row ids. A wrong deletion, a reused id and a late
  acknowledgement need one row to expire and one to follow it, and one call
  overlapping another; all occur. Two commands are two approvals, or an approval and a
  revocation. `PageLimit = 1` makes a page overflow with two rows.
* `enrollment`: one client: rows of different clients share nothing but
  the randomness of nonces and tokens. Two challenges and tokens: one in the table and
  one in flight or at the client. The proofs cover any number of each.
* `auth_replay`: one nonce shared by two clients, window 2, kept 4, skew and wait 1:
  the same proportions as 300, 600 and the margin in between; the clock runs far enough
  for a nonce to be recorded, expire, and its request be tried again.
* `chat_*`: two messages (three in `chat_fanin`), one crash or failing save (none in
  `chat_fanin` and `chat_live`), two ends of one conversation or two senders and a
  recipient (`chat_fanin`, `chat_live`). `Outgoing` says who may write which message where: both
  to each other in `chat_pair`, and in `chat_live` only one of the senders writes `m1`, which
  is a choice of names. `m2` is `Foreign` in `chat_pair` and cannot be decrypted in
  `chat_live`, where pages hold one row: it stops its own conversation, and crowds the other
  out if it comes first. Two messages are the least
  that can be reordered, skipped, or block one another; one mishap is enough to separate
  the ratchet, the file, the memory and the relay in each way there is. In `chat_fanin` ids
  of messages of one kind are symmetric, and the two senders.
* `contacts`: three clients, two with one display name; one request to the first of
  them and one from the other, so that each side of the dialogues meets a name that is
  taken. One pair of clients may be torn (`MaxTorn`), however often: the exception
  in `RightMailbox` and the case `torn` of `AcceptedHasLobby` occur. One client
  revokes, and may paste the bundle of one peer (`Pastes`), the one whose name is another's
  too; one request may expire (`Expiring`). Every name has a file of its own here, while the
  proofs cover any `FileOf`. A handled request is not handled again: a copy of it would change nothing.
* `signal_*`: two peers, so that a one-time prekey can be used by the wrong one; two
  messages; a target of two one-time prekeys, replenished below one, instead of 32 and 8:
  used, missing and fresh keys all occur. Two events (`MaxEvents`: encryptions, revocations,
  replacements, months, failing statements, kills), enough for any two to meet, and two
  bundles, for an old and a new one (one in `signal_recovered`).
* `ui_worker`: a queue of one and pages of one make both overflow with the second
  command or entry; four commands are an unlocking, an opening, and two that meet; three
  entries with two from earlier runs make a list of three pages.
* `lobbies`: three peers, so that a removal has neighbours on both sides, the last two with one
  file name; two entries, of which one may be from the legacy file.

Deadlock is checked except in `auth_replay`, where the model comes to an end with its
bounded clock.

### Fairness

*ChatDelivery*: a running operation goes on and its calls return (finite retries with
time-outs, `relay_client.rs:612`); calls that are made again and again succeed
sometime: strong fairness of `FetchOk` for each conversation that is written in, and of
`Succeed`, one of `AckOk`, `RetryOk`, `StatusRead`, together: without a mishap each of
these succeeds at most once for a message, so that fairness to all is fairness to each. Each
conversation is polled again and again (a timer in the desktop client for the selected
conversation, the loop of the terminal client for the current one, and the user selects
each).

*Enrollment*: a running client goes on; a request repeated for ever is answered
sometime; the administrator approves sometime; old copies of a registration do not stay in
flight for ever; and not every challenge expires or is replaced before it is answered.
`RestartSpec` adds a user who restarts a program that keeps waiting: without it
the property is false, as a registration whose answer was lost cannot be repeated.

## 4. Proofs

Checked by TLAPS for every value of the constants that satisfies the named assumptions.

* **RelayServiceProofs**: types,
  `OneRowPerSubmission`, `IdsAreKeys`, `AckedWasRetrieved`, `CursorMissesNothing` as
  invariants and `NoSilentDeletion` as an action property. The inductive invariant adds
  that retrieved rows are unacknowledged originals below the sequence, that a row in the
  queue with the id of a retrieved one *is* that row, and that acknowledgements in
  flight name retrieved rows; without the second an id used again would be
  indistinguishable from the old one. `PageIsAPrefix` carries the cursor: a page is
  downward closed among the pending rows.
* **EnrollmentProofs**: types, `TokenWorks`, and `Spec => AccessSpec`. Inductive because
  the challenge a client has answered with success is gone from the table, a new one
  differs from all those still held or in flight, and a client with a session has
  used up its enrollment unless the administrator approved it again, which needs it
  to be applying.
* **RequestAuthProofs**: types and `AcceptedOnce`, from `WindowAssumption`: Window + Skew +
  MaxWait <= NonceTtl. The invariant: an accepted request whose timestamp may still pass,
  or that has a copy waiting, has its nonce in the table with an expiry that covers it.
* **ContactsProofs**: types, `LobbyIsMutual`, `AcceptedHasLobby`, `RightMailbox`. The
  invariant: requests in use have been made and keep their parties (`UseInv`); a client
  only deals with requests it takes part in, as sender with approved ones (`JobInv`); an
  accepted request, or an acceptance in flight, was approved, and every approved request
  is answered for (`AgreedInv`); a bundle file that was not pasted stands beside a relay
  id (`FileHasId`), which is what the order of the writes is good for. `JobStep` carries the first
  three over any step of one client's dialogue; each action adds what it does to the
  stores.

* **LobbiesProofs**: types, `Parallel`, `OwnConversation`, and `HistoryKept` as an action
  property. `Parallel` is nearly inductive; the rest needs that only entries that were
  made stand in a history, since a new one must not meet its number in an old file, and
  that memory holds what the file has in every lobby that is not behind it (`PlacesOk`).
  `FileOf` is any function: a save puts the other peers with that file behind (`SaveOk`).

* **ChatDeliveryProofs**: types, `SentIsHeld`, `CursorSkipsNothing`, `LostOnlyByMishap`,
  `RelayOrder`, and the action properties `ShownOnce` and `HistoryGrows`, for both kinds of
  client, both transports, any number of crashes and failing saves. The inductive invariant
  `IInv` says of each history, in the file and in memory, how it agrees with the relay, with
  who wrote what and with the ratchet (`HistOk`); how the two copies are related (`ConvOk`);
  what the running operation may rely on, such as that its page leaves out no
  unacknowledged row before one it has (`JobOk`, `PageOk`); and that whatever a client
  has handled is shown, lost, or in memory (`OpenedOk`, `SharedOk`). *Handled* is what was
  decrypted except the one message in hand: an acknowledgement, a cursor and a place in the
  order are all founded on it, and none of the five invariants is inductive without it. A
  step of one client is taken apart into its frame (`OthersStay`, `RowsStay`, `NewsOk`), its
  histories and its next operation; `StepOk` is what it may do to files and to what
  the client owes its user.
  The same module ends with `Spec => ChannelSpec`, the refinement of MessageChannel. What a
  client has opened and neither shown nor lost (`Owed`) is moved by its own steps only,
  since each message has one recipient; "read" comes from an acknowledged row, which the
  recipient has handled.

* **SignalStoreProofs**: types, `FreshCiphertext`, `OpenedOnce`, `BundleKept`, `StaleWasRead`,
  `RecoveryKept`, and the action properties `OnlyVerified` and `StaysReadable`, for any finite
  set of peers, any number of messages, bundles, rotation periods, failing statements and
  crashes. (`Peer` is finite and `None` is no bundle: the named assumptions.) The inductive
  invariant `IInv` has ten parts, because the two copies of the state, in memory and in the
  database, are written at different moments and any operation may be cut off between two
  statements:
  * `Sound`: types, sizes and clocks, and that what an operation relies on was checked by it;
    `LinesKnown` and `Answered`: every handshake is of a bundle that was given out, or one
    this device started and the peer has seen a ciphertext of;
  * `MemoryAhead`: of each peer that is loaded, memory has the session of the database or a
    later state of it, so that persisting takes nothing back;
  * `SpentOk`: the one-time prekey of a handshake that a saved session knows, or a returned
    text came from, is gone in the database and in memory. Without it a message whose
    session was lost would be opened a second time by its handshake;
  * `MadeOk` and `GotOk`: each copy of a session counts every ciphertext, and knows every
    message, that was returned in it: `FreshCiphertext`, `OpenedOnce` and `StaleWasRead`;
  * `TrustOk`: both copies trust no identity but a verified one; `RecordOk`: which
    replacement may still lack its record;
  * `KeysOk`: for each side and each step of `maintain_key_inventory`, how many rotations
    that side has behind it since a bundle was given out. A signed prekey survives the next
    rotation and not the one after it, so `BundleKept` needs the count, and the
    month the database, the memory and the clock have each reached.

  `StaysReadable` then goes through the statements that touch the database: what was readable
  is taken over by the statement, or one of the causes the property names applies
  (`ReadableStays`).

* **UiWorkerProofs**: types, `LoadingIsOutstanding`, `WorksInShownProfile`,
  `ShownIsConversation`, for any profiles, contacts, queue and page sizes (`UiAssumption`; and
  `NoneAssumption`: None is no value of another kind). None of the three is inductive: they
  speak of the window now, and what an event does to it was decided when its command was
  submitted and when the worker carried it out. The inductive invariant says
  * that the last unlocking the worker has answered is the session's, wherever it stands in
    the channel, and if there is none the window shows the session's profile (`SessionOk`);
    without a crossing an unlocking is under way alone, and a chat command is for the session
    (`UnlockOk`);
  * that without a crossing at most one command is queued, executing or answered
    (`Single`), and the window is still as that command left it: loading, with the contact,
    and the cursor an older page was asked for (`WaitOk`);
  * that an answer's page is a stretch of the history, an older one up to where the list
    begins (`PagesOk`), so that prepending it gives one stretch (`StretchJoins`), and
    that the list shows such a stretch unless what will replace it is under way (`ListOk`).
    A history only grows at its end while the list stands (`StretchGrows`), except by the
    deletion whose answer empties the list.

  Every action is one of five kinds of step (`StepKinds`): the window issues a command, or
  changes only what it shows; the worker receives one, or replies; the timer applies an
  event. The invariant's parts are kept by each kind.

Every invariant, action property and refinement that a run of RelayService, Enrollment,
RequestAuth, ChatDelivery, Contacts, Lobbies, SignalStore or UiWorker expects to hold is
proved. Only model-checked are liveness (`EventuallyEnrolled`, `OutboxDrains`,
`HeldIsHandled`, `ReadComesBack`: fairness and ENABLED are beyond the prover) and the two
disagreements, which are counterexamples. RelayServiceProofs and ChatDeliveryProofs begin
with the same lemmas about the message table, which both systems run on.

No module uses a RECURSIVE operator.

## 5. Not modelled

* Cryptography is perfect: ciphertexts, signatures, fingerprints and tokens are what they
  are by name; libsignal's ratchet is the set of messages it has opened.
* Stateless code: the codec of transport texts and bundles, picture carriers (an external
  program), localization, the validation of sizes and encodings; the smoke client, which
  is a test driver. Error texts, prompts and layout everywhere.
* History store: encryption, file permissions, and two programs that run on one profile at the
  same time. In ChatDelivery every conversation has a file of its own. Peers whose names make one
  file name are in Lobbies, with entries only: that they also share the transport cursor in the
  file, so that a poll of one may skip messages of the other, is in no model. Conversations of
  the desktop client that share a file are not modelled either.
* Signal adapter: the counters of `key_maintenance` reports.
* Contacts: `/replace-identity` and `/accept-recovery` (both in SignalStore and Lobbies), a
  request whose fingerprint does not match its bundle, revocation of
  one of the two at the relay; a changed identity is in SignalStore. A rejection that is handled
  late may turn back an approval; the model has this, and no property speaks about it.
* Relay administration: parsing of arguments, listings, TLS.
* The relay's clock does not go backwards (RequestAuth).

## 6. Plan

What could follow, in this order: a composition of
SignalStore with ChatDelivery, where a session that a failing statement sets back makes
a message unreadable (`Broken` is a constant today); and two programs on one profile, which
nothing in the code excludes.
