------------------------------ MODULE UiWorker ------------------------------
(***************************************************************************)
(* The desktop client (slint-ui): the window's state on the UI thread, one *)
(* worker thread that executes the commands of a bounded queue one by one, *)
(* and the events it sends back, which a timer applies in order.           *)
(*                                                                         *)
(* A profile's password is right or wrong (the operation then fails); a    *)
(* conversation is a profile and a peer; a history entry is a number of    *)
(* its own.  What the Signal state and the relay do to an operation is     *)
(* that it fails or adds entries.                                          *)
(***************************************************************************)
EXTENDS Naturals, Sequences, FiniteSets

CONSTANTS
  Profile, Peer,
  QueueSize,    \* COMMAND_QUEUE_SIZE, 16 in the code
  PageSize,     \* HISTORY_PAGE_SIZE, 40 in the code
  Earlier,      \* length of the histories from earlier runs of the program
  None,         \* no contact, no session, no command, no timer
  MaxCommands,  \* bound on the commands of the user
  MaxEntries    \* bound on the history entries ever made

ASSUME UiAssumption ==
  /\ QueueSize \in Nat \ {0} /\ PageSize \in Nat \ {0} /\ Earlier \in Nat
  /\ MaxCommands \in Nat /\ MaxEntries \in Nat

VARIABLES
  ui,        \* UiState
  queue,     \* the bounded channel of commands
  running,   \* the command the worker executes
  events,    \* the channel of events, those first that the timer has drained
  drained,   \* number of drained events to apply; None outside the timer
  session,   \* ProfileSession of worker_loop
  history,   \* the history file of each conversation
  saved,     \* peers/*.bundle of each profile
  entries,   \* number of history entries ever made
  issued,    \* number of commands of the user
  crossed,   \* history variable: commands that were under way together
  dropped,   \* history variable: a poll found the queue full
  unloaded   \* history variable: the selected conversation could not be loaded

disk == <<history, saved, entries>>
vars == <<ui, queue, running, events, drained, session, history, saved, entries, issued,
          crossed, dropped, unloaded>>

-----------------------------------------------------------------------------
(* The window. *)
UiState ==
  [ready : BOOLEAN, name : Profile, contact : Peer \cup {None}, selected : BOOLEAN,
   loading : BOOLEAN, historyLoading : BOOLEAN, messages : Seq(Nat), cursor : Nat,
   more : BOOLEAN, relay : BOOLEAN, newChat : BOOLEAN]

FromProfiles(p) ==
  [ready |-> FALSE, name |-> p, contact |-> None, selected |-> FALSE,
   loading |-> FALSE, historyLoading |-> FALSE, messages |-> <<>>, cursor |-> 0,
   more |-> FALSE, relay |-> FALSE, newChat |-> FALSE]

ChatOp == {"load", "older", "delete", "send", "receive", "poll"}
Op == ChatOp \cup {"initialize", "verify"}

(* shown: the profile the window shows; first: the command is the one that *)
(* opens the conversation.                                                 *)
Command ==
  [op : Op, profile : Profile, peer : Peer \cup {None}, before : Nat, relay : BOOLEAN,
   shown : Profile, first : BOOLEAN]

NewCommand(op, p, c) ==
  [op |-> op, profile |-> p, peer |-> c, shown |-> p, relay |-> op = "poll",
   before |-> 0, first |-> FALSE]

IsChat(cmd) == cmd # None /\ cmd.op \in ChatOp

(* None is told apart from everything that could stand in its place. *)
ASSUME NoneAssumption == None \notin Profile \cup Peer \cup Command \cup Nat

(* An event answers its command; an error when not ok. *)
Event ==
  [cmd : Command, ok : BOOLEAN, contact : Peer \cup {None}, page : Seq(Nat),
   cursor : Nat, more : BOOLEAN]

Error(cmd) ==
  [cmd |-> cmd, ok |-> FALSE, contact |-> None, page |-> <<>>, cursor |-> 0, more |-> FALSE]
Answer(cmd, contact) == [Error(cmd) EXCEPT !.ok = TRUE, !.contact = contact]

(* UiState::prepare *)
Prepared(u, cmd) ==
  CASE cmd.op \in {"load", "poll"} ->
         [u EXCEPT !.newChat = FALSE, !.selected = TRUE,
                   !.loading = TRUE, !.historyLoading = TRUE]
    [] cmd.op \in {"older", "delete"} -> [u EXCEPT !.loading = TRUE, !.historyLoading = TRUE]
    [] cmd.op \in {"send", "receive"} -> [u EXCEPT !.loading = TRUE, !.historyLoading = FALSE]
    [] OTHER -> u

Stopped(u) == [u EXCEPT !.loading = FALSE, !.historyLoading = FALSE]

(* UiState::apply for ChatUpdated *)
Updated(u, e) ==
  [Stopped(u) EXCEPT
     !.messages = IF e.cmd.op = "older" THEN e.page \o @ ELSE e.page,
     !.cursor = e.cursor, !.more = e.more]

ProfileReady(u, e) ==
  [u EXCEPT !.name = e.cmd.profile, !.ready = TRUE,
            !.contact = IF e.contact # None THEN e.contact ELSE @]

ContactAdded(u, e) ==
  [Stopped(u) EXCEPT !.contact = e.contact, !.selected = FALSE, !.newChat = FALSE]

ChatDeleted(u, e) ==
  [Updated(u, e) EXCEPT !.contact = None, !.selected = FALSE, !.newChat = FALSE]

(* Mutant of Apply: an error leaves the window loading. *)
ApplyKeepsLoading(u, e) ==
  CASE ~e.ok -> u
    [] e.ok /\ e.cmd.op = "initialize" -> ProfileReady(u, e)
    [] e.ok /\ e.cmd.op = "verify" -> ContactAdded(u, e)
    [] e.ok /\ e.cmd.op = "delete" -> ChatDeleted(u, e)
    [] OTHER -> Updated(u, e)

Apply(u, e) ==
  CASE ~e.ok -> Stopped(u)
    [] e.ok /\ e.cmd.op = "initialize" -> ProfileReady(u, e)
    [] e.ok /\ e.cmd.op = "verify" -> ContactAdded(u, e)
    [] e.ok /\ e.cmd.op = "delete" -> ChatDeleted(u, e)
    [] OTHER -> Updated(u, e)

-----------------------------------------------------------------------------
(* Commands without an applied answer: queued, executing, answered.        *)
Outstanding ==
  queue \o (IF running = None THEN <<>> ELSE <<running>>) \o [i \in DOMAIN events |-> events[i].cmd]
Unanswered(ops) == \E i \in DOMAIN Outstanding : Outstanding[i].op \in ops

(* The window has no notion of an unlocking or a verification under way,   *)
(* so that they can be submitted together with other commands.             *)
Crossing(cmd) ==
  {x \in {"unlock", "verify"} :
     \/ x = "unlock" /\ (IF cmd.op = "initialize" THEN Unanswered(Op)
                           ELSE Unanswered({"initialize"}) \/ ~ui.ready)
     \/ x = "verify" /\ (IF cmd.op = "verify" THEN Unanswered(Op) ELSE Unanswered({"verify"}))}

(* Mutant of HasRoom: off by one. *)
HasRoomForOneMore == Len(queue) <= QueueSize

HasRoom == Len(queue) < QueueSize

(* Callbacks run one by one on the UI thread, and so does the timer. *)
Callback == drained = None

(* prepare and submit; a callback takes the loading marks of a chat        *)
(* command back when the queue is full.                                    *)
Submit(cmd) ==
  /\ Callback /\ issued < MaxCommands
  /\ issued' = issued + 1
  /\ queue' = IF HasRoom THEN Append(queue, cmd) ELSE queue
  /\ crossed' = IF HasRoom THEN crossed \cup Crossing(cmd) ELSE crossed
  /\ ui' = IF HasRoom \/ ~IsChat(cmd) THEN Prepared(ui, cmd) ELSE Stopped(Prepared(ui, cmd))
  /\ unloaded' = (unloaded \/ (IsChat(cmd) /\ cmd.first /\ ~HasRoom))
  /\ UNCHANGED <<running, events, drained, session, disk, dropped>>

OnUi ==
  /\ Callback
  /\ UNCHANGED <<queue, running, events, drained, session, disk, issued, crossed, dropped, unloaded>>

(* The login page: on_initialize_profile, on_select_profile. *)
InitializeProfile(p) == ~ui.ready /\ Submit(NewCommand("initialize", p, None))

SelectProfile(p) == ~ui.ready /\ ui' = [ui EXCEPT !.name = p] /\ OnUi

NewChat == ui' = [ui EXCEPT !.newChat = TRUE] /\ OnUi

ChooseTransport == ui' = [ui EXCEPT !.relay = ~@] /\ OnUi

VerifyAddContact(c) == ui.newChat /\ Submit(NewCommand("verify", ui.name, c))

(* on_select_contact: return_to_existing_chat, or the first page. *)
ReturnToExistingChat ==
  /\ ui.contact # None /\ ~ui.loading /\ ui.selected
  /\ ui' = [ui EXCEPT !.newChat = FALSE]
  /\ OnUi

SelectContact ==
  /\ ui.contact # None /\ ~ui.loading /\ ~ui.selected
  /\ Submit([NewCommand(IF ui.relay THEN "poll" ELSE "load", ui.name, ui.contact)
               EXCEPT !.first = TRUE])

DeleteChat ==
  /\ ui.contact # None /\ ~ui.loading
  /\ Submit(NewCommand("delete", ui.name, ui.contact))

(* What the window shows with a conversation open. *)
ChatOpen == ui.contact # None /\ ui.selected /\ ~ui.newChat
ListShown == ChatOpen /\ ~ui.historyLoading
InputShown == ui.selected /\ ~ui.newChat /\ ~ui.loading /\ ui.ready

(* Mutant of LoadOlderHistory: a second click is not held back. *)
LoadOlderTwice ==
  /\ ChatOpen /\ ui.more
  /\ Submit([NewCommand("older", ui.name, ui.contact) EXCEPT !.before = ui.cursor])

LoadOlderHistory ==
  /\ ListShown /\ ~ui.loading /\ ui.more
  /\ Submit([NewCommand("older", ui.name, ui.contact) EXCEPT !.before = ui.cursor])

SendMessage ==
  InputShown /\ ui.contact # None
    /\ Submit([NewCommand("send", ui.name, ui.contact) EXCEPT !.relay = ui.relay])

ReceivePasted ==
  InputShown /\ ui.contact # None /\ ~ui.relay
    /\ Submit(NewCommand("receive", ui.name, ui.contact))

(* The timer drains the channel, applies the events one after the other,   *)
(* and then perhaps polls; the refusal of a poll is ignored.               *)
DrainEvents ==
  /\ drained = None /\ drained' = Len(events)
  /\ UNCHANGED <<ui, queue, running, events, session, disk, issued, crossed, dropped, unloaded>>

LoadFailed(e) == ~e.ok /\ e.cmd.op \in {"load", "poll"} /\ e.cmd.first
LoadDone(e) == e.ok /\ IsChat(e.cmd) /\ e.cmd.op # "older"

ApplyEvent ==
  /\ drained # None /\ drained > 0
  /\ LET e == Head(events)
     IN  /\ ui' = Apply(ui, e)
         /\ unloaded' = (LoadFailed(e) \/ (unloaded /\ ~LoadDone(e)))
  /\ events' = Tail(events) /\ drained' = drained - 1
  /\ UNCHANGED <<queue, running, session, disk, issued, crossed, dropped>>

TimerReturns ==
  /\ drained = 0 /\ drained' = None
  /\ UNCHANGED <<ui, queue, running, events, session, disk, issued, crossed, dropped, unloaded>>

PollDue == ui.ready /\ ui.selected /\ ui.relay /\ ~ui.loading /\ ui.contact # None

TimerPolls ==
  /\ drained = 0 /\ drained' = None
  /\ PollDue
  /\ LET cmd == NewCommand("poll", ui.name, ui.contact)
     IN  /\ ui' = Prepared(ui, cmd)
         /\ queue' = IF HasRoom THEN Append(queue, cmd) ELSE queue
         /\ crossed' = IF HasRoom THEN crossed \cup Crossing(cmd) ELSE crossed
  /\ dropped' = (dropped \/ ~HasRoom)
  /\ UNCHANGED <<running, events, session, disk, issued, unloaded>>

-----------------------------------------------------------------------------
(* worker_loop *)
Receive ==
  /\ running = None /\ queue # <<>>
  /\ running' = Head(queue) /\ queue' = Tail(queue)
  /\ UNCHANGED <<ui, events, drained, session, disk, issued, crossed, dropped, unloaded>>

Reply(e) ==
  /\ events' = Append(events, e)
  /\ running' = None
  /\ UNCHANGED <<ui, queue, drained, issued, crossed, dropped, unloaded>>

(* render_history_page: the page that ends before an entry. *)
PageEnd(h, cmd) == IF cmd.op = "older" /\ cmd.before < Len(h) THEN cmd.before ELSE Len(h)
PageStart(h, cmd) == IF PageEnd(h, cmd) > PageSize THEN PageEnd(h, cmd) - PageSize ELSE 0

Page(h, cmd) ==
  [Answer(cmd, None) EXCEPT
     !.page = SubSeq(h, PageStart(h, cmd) + 1, PageEnd(h, cmd)),
     !.cursor = PageStart(h, cmd), !.more = PageStart(h, cmd) > 0]

(* Mutant of InitializeDone: the first session stays. *)
InitializeDoneOnce ==
  /\ running # None /\ running.op = "initialize"
  /\ session' = IF session = None THEN running.profile ELSE session
  /\ \E c \in IF saved[running.profile] = {} THEN {None} ELSE saved[running.profile] :
       Reply(Answer(running, c))
  /\ UNCHANGED disk

InitializeDone ==
  /\ running # None /\ running.op = "initialize"
  /\ session' = running.profile
  /\ \E c \in IF saved[running.profile] = {} THEN {None} ELSE saved[running.profile] :
       Reply(Answer(running, c))
  /\ UNCHANGED disk

(* verify_add_contact uses the profile of the command, not the session. *)
VerifyDone ==
  /\ running # None /\ running.op = "verify"
  /\ saved' = [saved EXCEPT ![running.profile] = @ \cup {running.peer}]
  /\ Reply(Answer(running, running.peer))
  /\ UNCHANGED <<session, history, entries>>

Conversation == <<session, running.peer>>

Working(ops) == running # None /\ running.op \in ops /\ session # None

PageDone ==
  /\ Working({"load", "older"})
  /\ Reply(Page(history[Conversation], running))
  /\ UNCHANGED <<session, disk>>

DeleteDone ==
  /\ Working({"delete"})
  /\ history' = [history EXCEPT ![Conversation] = <<>>]
  /\ Reply(Answer(running, None))
  /\ UNCHANGED <<session, saved, entries>>

(* A peer without an identity in the session's profile is refused.  The    *)
(* history gets what was sent, pasted or polled; over the relay an error   *)
(* may come after that.                                                    *)
Grown(n) == history[Conversation] \o [i \in 1 .. n |-> entries + i]

Adds(n) ==
  /\ entries + n <= MaxEntries
  /\ entries' = entries + n
  /\ history' = [history EXCEPT ![Conversation] = Grown(n)]

ChatDone ==
  /\ Working({"send", "receive", "poll"}) /\ running.peer \in saved[session]
  /\ \E n \in 0 .. 1 :
       /\ running.op = "send" => n = 1
       /\ Adds(n)
       /\ Reply(Page(Grown(n), running)) \/ (running.relay /\ Reply(Error(running)))
  /\ UNCHANGED <<session, saved>>

Fails ==
  /\ running # None
  /\ Reply(Error(running))
  /\ UNCHANGED <<session, disk>>

Init ==
  /\ \E p \in Profile : ui = FromProfiles(p)
  /\ queue = <<>> /\ running = None /\ events = <<>> /\ drained = None /\ session = None
  /\ \E old \in SUBSET (Profile \X Peer) :
       /\ Cardinality(old) <= 1
       /\ saved = [p \in Profile |-> {c \in Peer : <<p, c>> \in old}]
       /\ history = [x \in Profile \X Peer |->
                       IF x \in old THEN [i \in 1 .. Earlier |-> i] ELSE <<>>]
  /\ entries = Earlier /\ issued = 0
  /\ crossed = {} /\ dropped = FALSE /\ unloaded = FALSE

LoginPage == \E p \in Profile : InitializeProfile(p) \/ SelectProfile(p)
Contacts == NewChat \/ (\E c \in Peer : VerifyAddContact(c)) \/ SelectContact
              \/ ReturnToExistingChat \/ DeleteChat
Chat == LoadOlderHistory \/ SendMessage \/ ReceivePasted \/ ChooseTransport
Timer == DrainEvents \/ ApplyEvent \/ TimerReturns \/ TimerPolls
Finish == InitializeDone \/ VerifyDone \/ PageDone \/ DeleteDone \/ ChatDone \/ Fails

Next == LoginPage \/ Contacts \/ Chat \/ Timer \/ Receive \/ Finish

Spec == Init /\ [][Next]_vars

-----------------------------------------------------------------------------
(* The type of every variable. *)
TypeOK ==
  /\ ui \in UiState
  /\ queue \in Seq(Command) /\ Len(queue) <= QueueSize
  /\ running \in Command \cup {None}
  /\ events \in Seq(Event)
  /\ drained \in (0 .. Len(events)) \cup {None}
  /\ session \in Profile \cup {None}
  /\ history \in [Profile \X Peer -> Seq(1 .. entries)]
  /\ saved \in [Profile -> SUBSET Peer]
  /\ entries \in Nat /\ issued \in Nat
  /\ crossed \subseteq {"unlock", "verify"} /\ dropped \in BOOLEAN /\ unloaded \in BOOLEAN

(* The window says that it loads only while a chat command has not been    *)
(* answered, or after a poll was dropped (main.rs:842 ignores it).         *)
LoadingIsOutstanding == ui.loading => dropped \/ Unanswered(ChatOp)

(* Once no unlocking is under way, the worker works in the profile the     *)
(* window shows, however often the button was pressed before; and a chat   *)
(* command is carried out in the profile it was issued in, unless the user *)
(* pressed unlock twice.  (A command does not say which profile it means:  *)
(* the worker takes its session.)                                          *)
WorksInShownProfile ==
  /\ ui.ready /\ ~Unanswered({"initialize"}) => session = ui.name
  /\ "unlock" \notin crossed =>
       \A i \in DOMAIN Outstanding : IsChat(Outstanding[i]) => session = Outstanding[i].shown

(* The list shows one stretch of the history of the contact it is headed   *)
(* with, without holes or repetitions, from the cursor on.  Not so after   *)
(* commands crossed, or for a conversation that is selected (state.rs:187  *)
(* "the already-loaded conversation") although its loading failed.         *)
ShownIsConversation ==
  ListShown /\ crossed = {} /\ ~unloaded =>
    LET h == history[<<session, ui.contact>>]
        n == Len(ui.messages)
    IN  ui.cursor + n <= Len(h) /\ ui.messages = SubSeq(h, ui.cursor + 1, ui.cursor + n)

=============================================================================
