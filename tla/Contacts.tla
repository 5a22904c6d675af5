------------------------------ MODULE Contacts ------------------------------
(***************************************************************************)
(* How two users of the terminal client become contacts through the relay: *)
(* the table contact_requests (relay/src/contacts.rs) and the dialogues    *)
(* around it (src/bin/safechat-ui.rs: /add-contact, /contacts, the polling *)
(* at the head of chat_loop, /revoke-device), and without it, from a       *)
(* bundle that the user pastes while the transport is not Relay            *)
(* (setup_peer).  The transport is changed at the prompt.                  *)
(*                                                                         *)
(* A client keeps what it knows of a peer in three places, written one     *)
(* after the other: the trusted identity in its Signal store, the peer's   *)
(* relay id in relay-peers, and the bundle file from which the lobbies are *)
(* loaded at the next start.  The first two are keyed by the peer's        *)
(* display name, which users choose (the device id in an address is always *)
(* 1), the third by a file name made of it, in which all but letters and   *)
(* digits of ASCII, - and _ are replaced by _ (peer_file_component): two   *)
(* names may share a file.  The file tells whose bundle it holds.          *)
(*                                                                         *)
(* Every client is enrolled, and its identity and bundle do not change: no *)
(* /replace-identity, no /accept-recovery.                                 *)
(* Requests carry the fingerprint of the bundle they carry, so the         *)
(* comparison of the two is left out; users do not ask themselves.  Each   *)
(* handler is one statement under the database mutex; an HTTP request may  *)
(* be handled long after its client has given up on it, and one that is    *)
(* lost is never handled.  (A copy of one that has been handled changes    *)
(* nothing any more, and is left out.)  An error in one of the dialogues   *)
(* ends the program.                                                       *)
(***************************************************************************)
EXTENDS RelayClients, FiniteSets, Naturals

CONSTANTS
  Name,        \* display names
  NameOf,      \* the name in the profile of each client
  FileName,    \* names of bundle files
  FileOf,      \* peer_file_component: the file name of each display name
  Nobody,      \* no client: nothing is stored under a name
  Request,     \* bound: the contact requests ever made
  NotMade,     \* a request id that has not been used
  Asks,        \* bound: who may ask whom with each request
  MaxTorn,     \* bound on the pairs of which one stops short with the other
  Revoking,    \* bound: the clients that use /revoke-device
  Expiring,    \* bound: the requests that may expire
  Pastes       \* bound: whose bundle each client may paste

ASSUME NameAssumption == NameOf \in [Client -> Name] /\ FileOf \in [Name -> FileName]
ASSUME ContactAssumption ==
  /\ Nobody \notin Client
  /\ NotMade \notin Client \X Client
  /\ Asks \in [Request -> SUBSET (Client \X Client)]
  /\ MaxTorn \in Nat
  /\ Revoking \subseteq Client
  /\ Pastes \subseteq Client \X Client
  /\ Expiring \subseteq Request

VARIABLES
  parties,     \* sender and recipient of each contact request
  status,      \* contact_requests.status; "none": no row
  live,        \* the requests whose expires_at has not been reached
  wire,        \* HTTP requests sent and not handled yet
  trusted,     \* signal_trusted_identities of each client, by name
  known,       \* the names whose identity is in the memory of the client
  ids,         \* relay-peers: the relay id stored under each name
  files,       \* bundle files: whose bundle is in each
  lobbies,     \* the names of the peers in memory
  announced,   \* announced_accepted, in memory
  job,         \* where each client is in its dialogues
  agreed,      \* history variable: requests approved by the recipient's user
  made,        \* history variable: <<c, r>> when c has completed its side of r
  torn,        \* history variable: <<c, d>> when c stopped short with peer d
  pasted       \* history variable: <<c, f>> when setup_peer wrote file f of c

relayVars == <<parties, status, live>>
storeVars == <<trusted, ids, files, pasted>>
vars == <<parties, status, live, wire, trusted, known, ids, files, lobbies,
          announced, job, agreed, made, torn, pasted>>

Sender(r) == parties[r][1]
Recipient(r) == parties[r][2]
Made(r) == parties[r] # NotMade
Peer(c, r) == IF Sender(r) = c THEN Recipient(r) ELSE Sender(r)

Call == [op : {"create", "accept", "reject"}, req : Request]
NewCall(op, r) == [op |-> op, req |-> r]
Send(k) == wire' = wire \cup {k}
Taken(k) == wire' = wire \ {k}

(* "idle": at the prompt, or not running; "accepted", "review": in the     *)
(* loop over the accepted requests of its own, the pending ones of others, *)
(* that are in `todo`; "confirm": the user is asked about `req`;           *)
(* "trusting": `req` is accepted at the relay; the others wait for an      *)
(* answer.                                                                 *)
Phase == {"idle", "asking", "accepted", "confirm", "review",
          "accepting", "rejecting", "trusting"}
Job == [pc : Phase, todo : SUBSET Request, req : SUBSET Request]
At(pc) == [pc |-> pc, todo |-> {}, req |-> {}]

Goto(c, j) == job' = [job EXCEPT ![c] = j]
On(c, pc, r) == job[c].pc = pc /\ job[c].req = {r}
About(c, pc, r) == Goto(c, [pc |-> pc, todo |-> job[c].todo \ {r}, req |-> {r}])

(* Go on with the loop, if there is anything left to do. *)
Loop(c, pc, todo) ==
  Goto(c, IF todo = {} THEN At("idle") ELSE [At(pc) EXCEPT !.todo = todo])

(* load_peers: the lobbies of the bundle files. *)
Stored(c) == {NameOf[d] : d \in {files[c][f] : f \in FileName} \ {Nobody}}

(* The program ends, and with it what it had in memory; started again, it  *)
(* takes the lobbies from the bundle files.  (No step that ends it writes  *)
(* one of them.)                                                           *)
Exit(c) == /\ Goto(c, At("idle"))
           /\ known' = [known EXCEPT ![c] = {}]
           /\ lobbies' = [lobbies EXCEPT ![c] = Stored(c)]
           /\ announced' = [announced EXCEPT ![c] = {}]
StopsShort(pairs) ==
  /\ torn' = torn \cup pairs
  /\ Cardinality(torn') <= MaxTorn
-----------------------------------------------------------------------------
(* The user quits, a call has failed at every attempt, or a crash. *)
Quit(c) ==
  /\ Exit(c)
  /\ StopsShort({<<c, Peer(c, r)>> : r \in
       IF job[c].pc \in {"accepting", "trusting"} THEN job[c].req ELSE {}})
  /\ UNCHANGED <<relayVars, wire, storeVars, agreed, made>>

(* A message is sent or received in a lobby: load_peer. *)
LoadPeer(c, n) ==
  /\ job[c].pc = "idle"
  /\ n \in lobbies[c] /\ trusted[c][n] # Nobody /\ n \notin known[c]
  /\ known' = [known EXCEPT ![c] = @ \cup {n}]
  /\ UNCHANGED <<relayVars, wire, storeVars, lobbies, announced, job, agreed, made, torn>>

-----------------------------------------------------------------------------
(* Mutant of Ask: the request is addressed to the display name. *)
AskByName(c, d, r) ==
  /\ job[c].pc = "idle" /\ c # d /\ <<c, d>> \in Asks[r] /\ ~Made(r)
  /\ parties' = [parties EXCEPT ![r] = <<c, NameOf[d]>>]
  /\ Send(NewCall("create", r))
  /\ About(c, "asking", r)
  /\ UNCHANGED <<status, live, storeVars, known, lobbies, announced, agreed, made, torn>>

(* /add-contact.  The request id is the time in nanoseconds. *)
Ask(c, d, r) ==
  /\ job[c].pc = "idle" /\ c # d /\ <<c, d>> \in Asks[r] /\ ~Made(r)
  /\ parties' = [parties EXCEPT ![r] = <<c, d>>]
  /\ Send(NewCall("create", r))
  /\ About(c, "asking", r)
  /\ UNCHANGED <<status, live, storeVars, known, lobbies, announced, agreed, made, torn>>

(* create: INSERT OR IGNORE; a copy changes nothing. *)
HandleCreate(k) ==
  LET r == k.req IN
  /\ k \in wire /\ k.op = "create" /\ Taken(k)
  /\ IF status[r] = "none"
     THEN status' = [status EXCEPT ![r] = "pending"] /\ live' = live \cup {r}
     ELSE UNCHANGED <<status, live>>
  /\ \/ UNCHANGED job
     \/ On(Sender(r), "asking", r) /\ Goto(Sender(r), At("idle"))
  /\ UNCHANGED <<parties, storeVars, known, lobbies, announced, agreed, made, torn>>

-----------------------------------------------------------------------------
(***************************************************************************)
(* The stores of a client, for a peer that the user has agreed to.         *)
(***************************************************************************)

(* trust_peer refuses another identity than the one it has in memory. *)
Trustable(c, d) == NameOf[d] \in known[c] => trusted[c][NameOf[d]] = d

Put(store, c, d) == [store EXCEPT ![c][NameOf[d]] = d]
BundleFile(d) == FileOf[NameOf[d]]
WriteBundle(c, d) == files' = [files EXCEPT ![c][BundleFile(d)] = d]
AddLobby(c, d) == /\ known' = [known EXCEPT ![c] = @ \cup {NameOf[d]}]
                  /\ lobbies' = [lobbies EXCEPT ![c] = @ \cup {NameOf[d]}]

(* trust_bundle, save_relay_peer_ids, write_bundle. *)
Adopt(c, r) ==
  LET d == Peer(c, r) IN
  /\ job[c].pc \in {"confirm", "trusting"} /\ job[c].req = {r}
  /\ Trustable(c, d)
  /\ trusted' = Put(trusted, c, d)
  /\ ids' = Put(ids, c, d)
  /\ WriteBundle(c, d) /\ pasted' = pasted \ {<<c, BundleFile(d)>>}
  /\ AddLobby(c, d)
  /\ made' = made \cup {<<c, r>>}
  /\ Loop(c, IF job[c].pc = "confirm" THEN "accepted" ELSE "review", job[c].todo)
  /\ UNCHANGED <<relayVars, wire, announced, agreed, torn>>

(* Mutant of AdoptCut: the bundle file is written before relay-peers.      *)
AdoptCutFileFirst(c, r) ==
  LET d == Peer(c, r) IN
  /\ job[c].pc \in {"confirm", "trusting"} /\ job[c].req = {r}
  /\ Trustable(c, d)
  /\ trusted' = Put(trusted, c, d)
  /\ WriteBundle(c, d) \/ UNCHANGED files
  /\ StopsShort({<<c, d>>})
  /\ Exit(c)
  /\ UNCHANGED <<relayVars, wire, ids, agreed, made, pasted>>

(* The same, but the program dies, or a write fails, after the first or    *)
(* the second of the three.                                                *)
AdoptCut(c, r) ==
  LET d == Peer(c, r) IN
  /\ job[c].pc \in {"confirm", "trusting"} /\ job[c].req = {r}
  /\ Trustable(c, d)
  /\ trusted' = Put(trusted, c, d)
  /\ ids' = Put(ids, c, d) \/ UNCHANGED ids
  /\ StopsShort({<<c, d>>})
  /\ Exit(c)
  /\ UNCHANGED <<relayVars, wire, files, agreed, made, pasted>>

(* Mutant of AdoptRefused: the loop goes on with the next request.         *)
AdoptRefusedGoesOn(c, r) ==
  /\ job[c].pc \in {"confirm", "trusting"} /\ job[c].req = {r}
  /\ ~Trustable(c, Peer(c, r))
  /\ Loop(c, IF job[c].pc = "confirm" THEN "accepted" ELSE "review", job[c].todo)
  /\ UNCHANGED <<relayVars, wire, storeVars, known, lobbies, announced, agreed, made, torn>>

(* trust_bundle fails: the name is taken. *)
AdoptRefused(c, r) ==
  LET d == Peer(c, r) IN
  /\ job[c].pc \in {"confirm", "trusting"} /\ job[c].req = {r}
  /\ ~Trustable(c, d)
  /\ StopsShort({<<c, d>>})
  /\ Exit(c)
  /\ UNCHANGED <<relayVars, wire, storeVars, agreed, made>>

-----------------------------------------------------------------------------
(* Mutant of Accepted: every request that was sent counts as accepted. *)
AcceptedAny(c) == {r \in live : Made(r) /\ Sender(r) = c /\ status[r] # "none"}

(* GET ?direction=outgoing, of which the client keeps the accepted ones.   *)
Accepted(c) == {r \in live : Made(r) /\ Sender(r) = c /\ status[r] = "accepted"}

(* GET without a direction. *)
Pending(c) == {r \in live : Made(r) /\ Recipient(r) = c /\ status[r] = "pending"}

(***************************************************************************)
(* The head of chat_loop, reached after each line the user enters.  When   *)
(* the call fails the loop goes on without it.                             *)
(***************************************************************************)
Poll(c) ==
  /\ job[c].pc = "idle" /\ Accepted(c) # {}
  /\ Loop(c, "accepted", Accepted(c))
  /\ UNCHANGED <<relayVars, wire, storeVars, known, lobbies, announced, agreed, made, torn>>

(* The peer's relay id is stored under some name. *)
Remembered(c, d) == \E n \in Name : ids[c][n] = d

(* A request whose peer's id is stored, or that was announced, is passed over. *)
PassOver(c, r) ==
  /\ job[c].pc = "accepted" /\ r \in job[c].todo
  /\ Remembered(c, Recipient(r)) \/ r \in announced[c]
  /\ announced' = [announced EXCEPT ![c] = @ \cup {r}]
  /\ Loop(c, "accepted", job[c].todo \ {r})
  /\ UNCHANGED <<relayVars, wire, storeVars, known, lobbies, agreed, made, torn>>

Announce(c, r) ==
  /\ job[c].pc = "accepted" /\ r \in job[c].todo
  /\ ~Remembered(c, Recipient(r)) /\ r \notin announced[c]
  /\ announced' = [announced EXCEPT ![c] = @ \cup {r}]
  /\ About(c, "confirm", r)
  /\ UNCHANGED <<relayVars, wire, storeVars, known, lobbies, agreed, made, torn>>

(* The user does not confirm: nothing is stored but the announcement. *)
Refuse(c, r) ==
  /\ On(c, "confirm", r)
  /\ Loop(c, "accepted", job[c].todo)
  /\ UNCHANGED <<relayVars, wire, storeVars, known, lobbies, announced, agreed, made, torn>>

-----------------------------------------------------------------------------
(* /contacts works on the list as it was read at its start. *)
Review(c) ==
  /\ job[c].pc = "idle" /\ Pending(c) # {}
  /\ Loop(c, "review", Pending(c))
  /\ UNCHANGED <<relayVars, wire, storeVars, known, lobbies, announced, agreed, made, torn>>

Approve(c, r) ==
  /\ job[c].pc = "review" /\ r \in job[c].todo
  /\ agreed' = agreed \cup {r}
  /\ Send(NewCall("accept", r))
  /\ About(c, "accepting", r)
  /\ UNCHANGED <<relayVars, storeVars, known, lobbies, announced, made, torn>>

Decline(c, r) ==
  /\ job[c].pc = "review" /\ r \in job[c].todo
  /\ Send(NewCall("reject", r))
  /\ About(c, "rejecting", r)
  /\ UNCHANGED <<relayVars, storeVars, known, lobbies, announced, agreed, made, torn>>

(* accept: UPDATE of a pending request; it answers with the request,       *)
(* whatever its status is then, and the client does not look at it.        *)
HandleAccept(k) ==
  LET r == k.req IN
  /\ k \in wire /\ k.op = "accept" /\ Taken(k)
  /\ status' = [status EXCEPT ![r] = IF @ = "pending" THEN "accepted" ELSE @]
  /\ \/ UNCHANGED job
     \/ On(Recipient(r), "accepting", r) /\ About(Recipient(r), "trusting", r)
  /\ UNCHANGED <<parties, live, storeVars, known, lobbies, announced, agreed, made, torn>>

(* reject: UPDATE whatever the status. *)
HandleReject(k) ==
  LET r == k.req IN
  /\ k \in wire /\ k.op = "reject" /\ Taken(k)
  /\ status' = [status EXCEPT ![r] = "rejected"]
  /\ \/ UNCHANGED job
     \/ /\ On(Recipient(r), "rejecting", r)
        /\ Loop(Recipient(r), "review", job[Recipient(r)].todo)
  /\ UNCHANGED <<parties, live, storeVars, known, lobbies, announced, agreed, made, torn>>

Expire(r) ==
  /\ r \in live \cap Expiring
  /\ live' = live \ {r}
  /\ UNCHANGED <<parties, status, wire, storeVars, known, lobbies, announced, job, agreed,
                 made, torn>>

-----------------------------------------------------------------------------
(* /add-contact with a pasted bundle whose fingerprint the user has        *)
(* verified: setup_peer trusts the identity and writes the bundle file;    *)
(* relay-peers is not written.  Another identity of a name in memory is    *)
(* refused, and the program ends (Quit).                                   *)
SetupPeer(c, d) ==
  /\ job[c].pc = "idle" /\ c # d /\ <<c, d>> \in Pastes /\ Trustable(c, d)
  /\ trusted' = Put(trusted, c, d)
  /\ WriteBundle(c, d) /\ pasted' = pasted \cup {<<c, BundleFile(d)>>}
  /\ AddLobby(c, d)
  /\ UNCHANGED <<relayVars, wire, ids, announced, job, agreed, made, torn>>

(* The program dies in between, or the file is not written. *)
SetupPeerCut(c, d) ==
  /\ job[c].pc = "idle" /\ c # d /\ <<c, d>> \in Pastes /\ Trustable(c, d)
  /\ trusted' = Put(trusted, c, d)
  /\ StopsShort({<<c, d>>})
  /\ Exit(c)
  /\ UNCHANGED <<relayVars, wire, ids, files, agreed, made, pasted>>

-----------------------------------------------------------------------------
(* /revoke-device of a lobby: revoke_device deletes the identity and       *)
(* reloads the store, then the bundle file is removed, whosever it is now. *)
(* relay-peers stays as it is.                                             *)
Revoke(c, n) ==
  /\ c \in Revoking /\ job[c].pc = "idle" /\ n \in lobbies[c]
  /\ trusted' = [trusted EXCEPT ![c][n] = Nobody]
  /\ known' = [known EXCEPT ![c] = {}]
  /\ files' = [files EXCEPT ![c][FileOf[n]] = Nobody]
  /\ pasted' = pasted \ {<<c, FileOf[n]>>}
  /\ lobbies' = [lobbies EXCEPT ![c] = @ \ {n}]
  /\ UNCHANGED <<relayVars, wire, ids, announced, job, agreed, made, torn>>

(* The program dies in between: the bundle file is still there. *)
RevokeCut(c, n) ==
  /\ c \in Revoking /\ job[c].pc = "idle" /\ n \in lobbies[c] /\ trusted[c][n] # Nobody
  /\ trusted' = [trusted EXCEPT ![c][n] = Nobody]
  /\ StopsShort({<<c, trusted[c][n]>>})
  /\ Exit(c)
  /\ UNCHANGED <<relayVars, wire, ids, files, agreed, made, pasted>>
-----------------------------------------------------------------------------
Empty(K) == [c \in Client |-> [k \in K |-> Nobody]]

Init ==
  /\ parties = [r \in Request |-> NotMade]
  /\ status = [r \in Request |-> "none"]
  /\ live = {}
  /\ wire = {}
  /\ trusted = Empty(Name) /\ ids = Empty(Name) /\ files = Empty(FileName)
  /\ known = [c \in Client |-> {}] /\ lobbies = [c \in Client |-> {}]
  /\ announced = [c \in Client |-> {}]
  /\ job = [c \in Client |-> At("idle")]
  /\ agreed = {} /\ made = {} /\ torn = {} /\ pasted = {}

Dialogue(c, r) ==
  \/ PassOver(c, r) \/ Announce(c, r) \/ Refuse(c, r)
  \/ Approve(c, r) \/ Decline(c, r)
  \/ Adopt(c, r) \/ AdoptCut(c, r) \/ AdoptRefused(c, r)

Handle(k) == HandleCreate(k) \/ HandleAccept(k) \/ HandleReject(k)

Next ==
  \/ \E c \in Client :
       \/ Quit(c) \/ Poll(c) \/ Review(c)
       \/ \E d \in Client : SetupPeer(c, d) \/ SetupPeerCut(c, d)
       \/ \E r \in Request : Dialogue(c, r) \/ \E d \in Client : Ask(c, d, r)
       \/ \E n \in Name : LoadPeer(c, n) \/ Revoke(c, n) \/ RevokeCut(c, n)
  \/ \E k \in wire : Handle(k)
  \/ \E r \in Request : Expire(r)

Spec == Init /\ [][Next]_vars
-----------------------------------------------------------------------------
TypeOK ==
  /\ parties \in [Request -> (Client \X Client) \cup {NotMade}]
  /\ status \in [Request -> {"none", "pending", "accepted", "rejected"}]
  /\ live \in SUBSET Request
  /\ wire \in SUBSET Call
  /\ trusted \in [Client -> [Name -> Client \cup {Nobody}]]
  /\ ids \in [Client -> [Name -> Client \cup {Nobody}]]
  /\ files \in [Client -> [FileName -> Client \cup {Nobody}]]
  /\ known \in [Client -> SUBSET Name] /\ lobbies \in [Client -> SUBSET Name]
  /\ announced \in [Client -> SUBSET Request]
  /\ job \in [Client -> Job]
  /\ agreed \in SUBSET Request
  /\ made \in SUBSET (Client \X Request)
  /\ torn \in SUBSET (Client \X Client) /\ pasted \in SUBSET (Client \X FileName)

Between(r, c, d) == parties[r] \in {<<c, d>>, <<d, c>>}

(* A lobby is stored only between two users who have both asked for it,    *)
(* one sent a request and the other approved that request, unless the      *)
(* bundle in its file is one that the user has pasted.                     *)
LobbyIsMutual ==
  \A c \in Client, f \in FileName :
    files[c][f] # Nobody =>
      <<c, f>> \in pasted \/ \E r \in agreed : Between(r, c, files[c][f])

(* The recipient has its lobby, is about to, or has stopped in the middle. *)
Answered(r) ==
  LET d == Recipient(r) IN
  \/ <<d, r>> \in made
  \/ <<d, Sender(r)>> \in torn
  \/ On(d, "accepting", r) \/ On(d, "trusting", r)

(* When the relay says that a request is accepted, and when its sender has *)
(* set up the lobby, the recipient has done so too, unless it is about to  *)
(* or its program stopped in the middle.                                   *)
AcceptedHasLobby ==
  \A r \in Request :
    Made(r) /\ (status[r] = "accepted" \/ <<Sender(r), r>> \in made) => Answered(r)

(* A lobby that can be used, because its identity is the trusted one,      *)
(* sends to the mailbox of the peer whose bundle it holds, also when two   *)
(* peers go by the same name or their names share a file, when the program *)
(* dies between two writes, and after a bundle was pasted over another     *)
(* one, once the relay has made that lobby again.  The id can be missing,  *)
(* or that of an earlier peer of the name, while the file is one that was  *)
(* pasted; and it can be that of another if the program died while it      *)
(* replaced the peer by itself again, after another of the same name.      *)
(* (What is sent then is refused: fetch_peer_bundle finds a bundle of      *)
(* another identity under the id.)                                         *)
RightMailbox ==
  \A c \in Client, f \in FileName :
    LET d == files[c][f]
        n == NameOf[d]
    IN  d # Nobody /\ trusted[c][n] = d /\ <<c, f>> \notin pasted =>
          ids[c][n] = d \/ (ids[c][n] # Nobody /\ <<c, d>> \in torn)

=============================================================================
