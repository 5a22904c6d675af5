-------------------------------- MODULE Lobbies --------------------------------
(***************************************************************************)
(* The private lobbies of the terminal client (src/bin/safechat-ui.rs):    *)
(* two parallel vectors in memory, the peers and their histories, an index *)
(* of the current one, and on disk bundle files and history files.  The    *)
(* vectors are filled from the files when the program starts; every        *)
(* command changes one side or the other.                                  *)
(*                                                                         *)
(* A peer is a number: its address, that is the name its user chose.  The  *)
(* names of its two files are made of it: all but the letters and digits   *)
(* of ASCII, - and _ become _ (peer_file_component, path_for), so that two *)
(* peers may share their files.  A file name is a number too, in the order *)
(* in which the bundle files are read.                                     *)
(*                                                                         *)
(* A history entry is a number of its own, and a history the set of its    *)
(* entries: their order belongs to ChatDelivery, as do the steps of a      *)
(* poll.  The writes of a contact request one by one belong to Contacts,   *)
(* the Signal state to SignalStore.  The transport can be switched between *)
(* any two commands, so no command is tied to it.                          *)
(***************************************************************************)
EXTENDS Naturals, Sequences, FiniteSets, SequencesExt

CONSTANTS
  Peers,       \* number of peers there may be
  FileOf,      \* the file name of each peer
  NoFile,      \* a history file that does not exist
  Unknown,     \* the peer of a legacy entry that names none
  MaxEntries   \* bound on the entries ever made

ASSUME LobbyAssumption ==
  /\ Peers \in Nat \ {0} /\ MaxEntries \in Nat \ {0}
  /\ FileOf \in [1 .. Peers -> Nat]
  /\ Unknown \notin 1 .. Peers /\ \A S \in SUBSET (1 .. MaxEntries) : S # NoFile

VARIABLES
  running,    \* the program runs
  peers,      \* peers: Vec<SignalPreKeyBundle>
  histories,  \* histories: Vec<HistoryFile>
  current,    \* the current lobby, counted from 1
  known,      \* identities in the memory of the Signal store
  trusted,    \* signal_trusted_identities
  bundles,    \* peers/*.bundle: the peers whose bundle is in a file
  saved,      \* lobbies/*.age: the history in each file
  legacy,     \* chat-history.age, of a version with one history for all peers
  owner,      \* the peer of each entry made
  behind      \* history variable: peers in memory whose history file was not
              \* read, or has been written by another lobby since

memory == <<running, peers, histories, current, known>>
files == <<trusted, bundles, saved>>
vars == <<memory, files, legacy, owner, behind>>

Peer == 1 .. Peers
File == {FileOf[p] : p \in Peer}
History == SUBSET (1 .. MaxEntries)

Shares(p, q) == FileOf[p] = FileOf[q]

-----------------------------------------------------------------------------
(* main: load_peers, in the order of the files, and a history for each.    *)
LoadPeers == {s \in [1 .. Cardinality(bundles) -> bundles] :
                \A i, j \in DOMAIN s : i < j => FileOf[s[i]] < FileOf[s[j]]}

(* The entries of the legacy file for the peer that is i-th in the vector. *)
FromLegacy(i, p) ==
  {e \in legacy : owner[e] = p \/ (i = 1 /\ owner[e] = Unknown)}

(* Mutant of HistoryOf: the nameless entries go to every peer. *)
HistoryOfAnyone(i, p) ==
  IF saved[FileOf[p]] # NoFile THEN saved[FileOf[p]]
  ELSE IF legacy # NoFile THEN legacy
  ELSE {}

HistoryOf(i, p) ==
  IF saved[FileOf[p]] # NoFile THEN saved[FileOf[p]]
  ELSE IF legacy # NoFile THEN FromLegacy(i, p)
  ELSE {}

Start ==
  /\ ~running
  /\ running' = TRUE
  /\ \E s \in LoadPeers :
       peers' = s /\ histories' = [i \in DOMAIN s |-> HistoryOf(i, s[i])]
  /\ current' = 1 /\ known' = {}
  /\ UNCHANGED <<files, legacy, owner, behind>>

(* /quit, an error that ends chat_loop, or a kill between two commands. *)
Stopped ==
  /\ running' = FALSE /\ known' = {}
  /\ peers' = <<>> /\ histories' = <<>> /\ current' = 1
  /\ behind' = {}

Stop ==
  /\ running
  /\ Stopped
  /\ UNCHANGED <<files, legacy, owner>>

-----------------------------------------------------------------------------
InChat == running /\ peers # <<>>
Position(p) == CHOOSE i \in DOMAIN peers : peers[i] = p

(* /use *)
Use ==
  /\ InChat
  /\ current' \in DOMAIN peers
  /\ UNCHANGED <<running, peers, histories, known, files, legacy, owner, behind>>

(* The history of the lobby of p is saved; the other lobbies with the same *)
(* file do not see it.                                                     *)
Save(p, h) ==
  /\ saved' = [saved EXCEPT ![FileOf[p]] = h]
  /\ behind' = (behind \ {p}) \cup {q \in ToSet(peers) \ {p} : Shares(p, q)}

(* A message sent, pasted or polled: the current history grows and is      *)
(* saved under the current peer.  A save may fail, which leaves the entry  *)
(* in memory.                                                              *)
Write ==
  /\ InChat
  /\ Len(owner) < MaxEntries
  /\ peers[current] \in trusted
  /\ known' = known \cup {peers[current]}
  /\ owner' = Append(owner, peers[current])
  /\ histories' = [histories EXCEPT ![current] = @ \cup {Len(owner) + 1}]
  /\ Save(peers[current], histories'[current]) \/ UNCHANGED <<saved, behind>>
  /\ UNCHANGED <<running, peers, current, trusted, bundles, legacy>>

(* A poll that only moves a status or the cursor saves what memory has; it *)
(* asks the Signal state about the peer only when there is a message.      *)
SaveAgain ==
  /\ InChat
  /\ \/ UNCHANGED known
     \/ peers[current] \in trusted /\ known' = known \cup {peers[current]}
  /\ Save(peers[current], histories[current])
  /\ UNCHANGED <<running, peers, histories, current, trusted, bundles, legacy, owner>>

-----------------------------------------------------------------------------
(* A lobby for p: its place in the vectors is kept, or is a new one with   *)
(* history h.                                                              *)
Placed(p, h) ==
  IF p \in ToSet(peers)
    THEN UNCHANGED <<peers, histories>>
    ELSE peers' = Append(peers, p) /\ histories' = Append(histories, h)

Entered(p) ==
  current' = IF p \in ToSet(peers) THEN Position(p) ELSE Len(peers) + 1

WithoutFile(p) == {q \in bundles : ~Shares(p, q)}

Trust(p) ==
  /\ trusted' = trusted \cup {p}
  /\ bundles' = WithoutFile(p) \cup {p}

(* A new lobby for p that does not read its history file. *)
Unread(p) ==
  behind' = IF p \in ToSet(peers) \/ saved[FileOf[p]] = NoFile THEN behind
            ELSE behind \cup {p}

(* review_contact_requests and integrate_accepted_contact start a new      *)
(* place with an empty history, whatever the history file has.             *)
Adopt(p) ==
  /\ running
  /\ Trust(p) /\ known' = known \cup {p}
  /\ Placed(p, {}) /\ Entered(p)
  /\ Unread(p)
  /\ UNCHANGED <<running, saved, legacy, owner>>

(* Mutant of SetupPeer: it starts with an empty history, like Adopt. *)
SetupPeerEmpty(p) ==
  /\ running
  /\ Trust(p) /\ known' = known \cup {p}
  /\ Placed(p, {}) /\ Entered(p)
  /\ UNCHANGED <<running, saved, legacy, owner, behind>>

(* /add-contact without a relay: setup_peer, and the history file if any.  *)
SetupPeer(p) ==
  /\ running
  /\ Trust(p) /\ known' = known \cup {p}
  /\ Placed(p, IF saved[FileOf[p]] # NoFile THEN saved[FileOf[p]] ELSE {}) /\ Entered(p)
  /\ UNCHANGED <<running, saved, legacy, owner, behind>>

(* /accept-recovery: the peer must be trusted in memory, which is reset;   *)
(* the current lobby stays.                                                *)
AcceptRecovery(p) ==
  /\ running /\ p \in known
  /\ Trust(p) /\ known' = {}
  /\ Placed(p, {})
  /\ Unread(p)
  /\ UNCHANGED <<running, current, saved, legacy, owner>>

(* Mutant of RevokeDevice: the index stays where it was. *)
RevokeDeviceKeepsCurrent ==
  /\ InChat
  /\ trusted' = trusted \ {peers[current]} /\ bundles' = WithoutFile(peers[current])
  /\ known' = {}
  /\ peers' = RemoveAt(peers, current)
  /\ histories' = RemoveAt(histories, current)
  /\ current' = current
  /\ behind' = behind \ {peers[current]}
  /\ UNCHANGED <<running, saved, legacy, owner>>

(* Mutant of RevokeDevice: the index is that of the last lobby, also when *)
(* none is left.                                                           *)
RevokeDeviceUnderflow ==
  /\ InChat
  /\ trusted' = trusted \ {peers[current]} /\ bundles' = WithoutFile(peers[current])
  /\ known' = {}
  /\ peers' = RemoveAt(peers, current)
  /\ histories' = RemoveAt(histories, current)
  /\ current' = IF current < Len(peers) THEN current ELSE Len(peers) - 1
  /\ behind' = behind \ {peers[current]}
  /\ UNCHANGED <<running, saved, legacy, owner>>

(* /revoke-device: the Signal state, the bundle file, whosever bundle it   *)
(* has now, the vectors.                                                   *)
RevokeDevice ==
  /\ InChat
  /\ trusted' = trusted \ {peers[current]} /\ bundles' = WithoutFile(peers[current])
  /\ known' = {}
  /\ peers' = RemoveAt(peers, current)
  /\ histories' = RemoveAt(histories, current)
  /\ current' = IF current < Len(peers) \/ Len(peers) = 1 THEN current ELSE Len(peers) - 1
  /\ behind' = behind \ {peers[current]}
  /\ UNCHANGED <<running, saved, legacy, owner>>

(* The program is killed before the bundle file is removed. *)
RevokeDeviceCut ==
  /\ InChat
  /\ trusted' = trusted \ {peers[current]}
  /\ Stopped
  /\ UNCHANGED <<bundles, saved, legacy, owner>>

(* /replace-identity, after the Signal state was replaced: the bundle      *)
(* files one by one, then the vectors; the index stays.                    *)
ReplaceIdentity ==
  /\ running
  /\ trusted' = {} /\ bundles' = {} /\ known' = {}
  /\ peers' = <<>> /\ histories' = <<>>
  /\ behind' = {}
  /\ UNCHANGED <<running, current, saved, legacy, owner>>

ReplaceIdentityCut ==
  /\ running
  /\ trusted' = {} /\ bundles' \in SUBSET bundles
  /\ Stopped
  /\ UNCHANGED <<saved, legacy, owner>>

-----------------------------------------------------------------------------
(* The program has been used before: with the single history of an old     *)
(* version, or not at all.                                                 *)
Init ==
  /\ running = FALSE /\ peers = <<>> /\ histories = <<>> /\ current = 1
  /\ known = {}
  /\ bundles \in SUBSET Peer /\ trusted = bundles
  /\ \A p, q \in bundles : Shares(p, q) => p = q
  /\ saved = [f \in File |-> NoFile]
  /\ \/ legacy = NoFile /\ owner = <<>>
     \/ legacy = {1} /\ owner \in {<<Unknown>>, <<1>>}
  /\ behind = {}

Chatting == Write \/ SaveAgain \/ Use
Changing == (\E p \in Peer : Adopt(p) \/ SetupPeer(p) \/ AcceptRecovery(p))
              \/ RevokeDevice \/ RevokeDeviceCut \/ ReplaceIdentity \/ ReplaceIdentityCut

Next == Start \/ Stop \/ Chatting \/ Changing

Spec == Init /\ [][Next]_vars

-----------------------------------------------------------------------------
(* The type of every variable. *)
TypeOK ==
  /\ running \in BOOLEAN
  /\ peers \in Seq(Peer) /\ histories \in Seq(History) /\ current \in Nat \ {0}
  /\ known \subseteq Peer /\ trusted \subseteq Peer /\ bundles \subseteq Peer
  /\ saved \in [File -> {NoFile} \cup History]
  /\ legacy \in {NoFile} \cup History
  /\ owner \in Seq(Peer \cup {Unknown})
  /\ behind \subseteq Peer

(* The vectors stay parallel, without a peer twice, and the index points   *)
(* into them whenever a command may use it (histories[current] would       *)
(* panic), through any sequence of revocations, replacements and           *)
(* recoveries.  accept_recovery adds a missing lobby without moving the    *)
(* index, which is safe as memory only trusts peers that have a lobby.     *)
Parallel ==
  /\ Len(peers) = Len(histories)
  /\ IsInjective(peers)
  /\ peers # <<>> => current \in DOMAIN peers
  /\ known \subseteq ToSet(peers)

(* No message is shown in, or saved to, the conversation of another peer,  *)
(* unless the names of the two make the same file name: they have one      *)
(* history file between them.  And an entry of the old version that names  *)
(* nobody is given to the peer that comes first.                           *)
OwnConversation ==
  LET Belongs(e, f) == owner[e] = Unknown \/ FileOf[owner[e]] = f
  IN  /\ \A i \in DOMAIN peers : \A e \in histories[i] : Belongs(e, FileOf[peers[i]])
      /\ \A f \in File : saved[f] # NoFile => \A e \in saved[f] : Belongs(e, f)

(* Saving never takes an entry out of a history file, except when the      *)
(* lobby that is saved is behind its file: a contact request sets a lobby  *)
(* up again with an empty history (safechat-ui.rs:496, 546), or another    *)
(* peer with the same file name has saved its own over it.                 *)
HistoryKept ==
  [][\A f \in File :
       LET Replaced == InChat /\ peers[current] \in behind /\ FileOf[peers[current]] = f
       IN  saved[f] # NoFile /\ ~Replaced =>
             saved'[f] # NoFile /\ saved[f] \subseteq saved'[f]]_vars
=============================================================================
