---------------------------- MODULE SignalStore ----------------------------
(***************************************************************************)
(* The Signal state of one device: the SQLite database of                  *)
(* core/src/signal_adapter.rs and the in-memory libsignal store that works *)
(* on it.  An operation changes the memory first and the database          *)
(* afterwards, in one transaction or in several statements that commit one *)
(* by one; between two of them a statement may fail, which leaves the      *)
(* memory as it is, or the process may be killed.                          *)
(*                                                                         *)
(* libsignal itself is external.  A session is the set of handshakes       *)
(* ("lines") it has keys for, the line it sends in, the number of          *)
(* ciphertexts it made and the messages it opened.  A one-time prekey is   *)
(* its key pair: the code gives the number of a used prekey to a later     *)
(* one, but a message made for the former does not open with the latter.   *)
(* The Kyber prekey is made with the first signed prekey and never         *)
(* changes, so it is not told apart from it.  Time is counted in rotation  *)
(* periods (30 days).                                                      *)
(***************************************************************************)
EXTENDS Naturals, FiniteSets

CONSTANTS
  Peer,          \* the devices of other users
  Msg,           \* messages the peers may write to this device
  LowWatermark,  \* PREKEY_LOW_WATERMARK, 8 in the code
  Target,        \* PREKEY_TARGET, 32 in the code
  None,          \* no peer, no message, no bundle
  MaxEvents,     \* bound on the encryptions, revocations, identity replacements,
                 \* rotation periods, failing statements and kills, together
  MaxGiven       \* bound on the bundles handed out

ASSUME StoreAssumption ==
  /\ LowWatermark \in Nat /\ Target \in Nat
  /\ 0 < LowWatermark /\ LowWatermark <= Target
  /\ MaxEvents \in Nat /\ MaxGiven \in Nat
  /\ None \notin Peer \cup Msg
  /\ IsFiniteSet(Peer)

VARIABLES
  disk,      \* tables signal_identity, _prekeys, _signed_prekeys, _sessions, _trusted_identities
  created,   \* signal_key_lifecycle: the period of the last recorded rotation, 0 at first
  revoked,   \* signal_revocations
  recovery,  \* signal_recovery_records: the own replacements recorded
  mem,       \* InMemSignalProtocolStore
  job,       \* the operation under way
  month,     \* the clock, in rotation periods
  given,     \* public bundles handed to the peers or the relay, which serves them for ever
  mail,      \* what each message to this device was encrypted under
  peerGen,   \* how often each peer replaced its identity
  dropped,   \* messages acknowledged as stale (chat_service.rs: "old counter")
  out,       \* history variable: ciphertexts returned to the caller
  seen,      \* history variable: messages whose plaintext was returned
  verified,  \* history variable: peer identities the user vouches for
  cut,       \* history variable: the operations that were interrupted, and where
  events     \* number of the events that MaxEvents bounds

store == <<disk, created, revoked, recovery>>
outside == <<month, mail, peerGen>>
history == <<given, dropped, out, seen, verified, cut>>
record == <<history, events>>
vars == <<disk, created, revoked, recovery, mem, job, month, given, mail, peerGen,
          dropped, out, seen, verified, cut, events>>

Counted == events < MaxEvents /\ events' = events + 1

-----------------------------------------------------------------------------
(* A handshake: started by the peer from a bundle of this device, or by    *)
(* this device (bundle None, with a number of its own).                    *)
Bundle == [own : Nat, key : Nat, signed : Nat, month : Nat]
Line == [gen : Nat, bundle : Bundle \cup {None}, no : Nat]

(* A handshake this device started is none of a bundle. *)
ASSUME NoneAssumption == None \notin Bundle

Session == [lines : SUBSET Line, cur : Line \cup {None}, made : Nat, got : SUBSET Msg]
NoSession == [lines |-> {}, cur |-> None, made |-> 0, got |-> {}]
Exists(session) == session.lines # {}

Store == [own : Nat, prekeys : SUBSET Nat, signed : SUBSET Nat,
          session : [Peer -> Session], trusted : [Peer -> SUBSET Nat]]

(* A store with an identity and nothing else. *)
NewStore(own) == [own |-> own, prekeys |-> {}, signed |-> {},
                  session |-> [p \in Peer |-> NoSession], trusted |-> [p \in Peer |-> {}]]

(* open and reset_runtime_store: the prekeys come from the database, the   *)
(* sessions and the trusted identities only with load_peer.                *)
Opened(d) == [NewStore(d.own) EXCEPT !.prekeys = d.prekeys, !.signed = d.signed]

(* load_peer: the rows there are replace what the memory has. *)
LoadPeer(s, p) ==
  [s EXCEPT
     !.session[p] = IF Exists(disk.session[p]) THEN disk.session[p] ELSE @,
     !.trusted[p] = IF disk.trusted[p] # {} THEN disk.trusted[p] ELSE @]

(* persist_peer: one transaction.  The prekeys of the memory replace those *)
(* of the database; a session or an identity is written when there is one. *)
WithKeys(d, s) == [d EXCEPT !.own = s.own, !.prekeys = s.prekeys, !.signed = s.signed]

Persisted(d, s, p) ==
  [WithKeys(d, s) EXCEPT
     !.session[p] = IF Exists(s.session[p]) THEN s.session[p] ELSE @,
     !.trusted[p] = IF s.trusted[p] # {} THEN s.trusted[p] ELSE @]

(* is_revoked: a row without a new fingerprint revokes every identity, a   *)
(* row with one all others.                                                *)
IsRevoked(s, p) == revoked[p].on /\ s.trusted[p] \cap revoked[p].but = {}

-----------------------------------------------------------------------------
(* Numbers for new keys: the first n that nothing refers to. *)
Fresh(used, n) ==
  LET free == (1 .. (Cardinality(used) + n)) \ used
  IN  {k \in free : Cardinality({l \in free : l < k}) < n}

NewKeys(s, n) == Fresh(disk.prekeys \cup mem.prekeys \cup s.prekeys \cup {b.key : b \in given}, n)

NewLine ==
  LET lines == {o.line : o \in out}
                 \cup UNION {disk.session[p].lines \cup mem.session[p].lines : p \in Peer}
  IN  CHOOSE n \in Fresh({l.no : l \in lines}, 1) : TRUE

(* ensure_key_inventory and retain_signed_prekey_overlap, on the memory.   *)
Newest(keys) == CHOOSE k \in keys : \A l \in keys : l <= k

WithFirstKeys(s) ==
  IF s.signed = {} THEN [s EXCEPT !.prekeys = @ \cup NewKeys(s, 1), !.signed = {1}] ELSE s

Replenished(s) ==
  IF Cardinality(s.prekeys) < LowWatermark
    THEN [s EXCEPT !.prekeys =
            @ \cup NewKeys(s, Target - Cardinality(s.prekeys))]
    ELSE s

RotationDue(since) == month > since

Rotated(s, since) ==
  IF RotationDue(since) THEN [s EXCEPT !.signed = @ \cup {Newest(@) + 1}] ELSE s

(* Mutant of Overlap: only the newest signed prekey is kept. *)
OverlapNone(s) == [s EXCEPT !.signed = {Newest(@)}]

(* The current signed prekey and the previous one stay. *)
Overlap(s) ==
  [s EXCEPT !.signed = {k \in @ : Cardinality({l \in @ : l > k}) < 2}]

Maintained(s, since) == Overlap(Rotated(Replenished(WithFirstKeys(s)), since))

-----------------------------------------------------------------------------
Cuts == {"unsaved", "half opened", "keys", "rotation", "replacement"}
Op == {"none", "export", "encrypt", "decrypt", "trust", "accept", "revoke", "replace"}
At == {"idle", "keys", "rotation", "work", "session", "identity", "row", "record", "persist"}
Job == [op : Op, at : At, peer : Peer \cup {None}, gen : Nat, msg : Msg \cup {None}]

NoJob == [op |-> "none", at |-> "idle", peer |-> None, gen |-> 0, msg |-> None]
NewJob(op, at, p, g, m) == [op |-> op, at |-> at, peer |-> p, gen |-> g, msg |-> m]

Idle == job = NoJob
AtStep(ops, at) == job.op \in ops /\ job.at = at
Goto(at) == job' = [job EXCEPT !.at = at]
Return == job' = NoJob

(* The in-memory part of maintain_key_inventory, at the start of an        *)
(* operation j; the database follows when something changed.               *)
Maintain(j, s, since) ==
  LET kept == Maintained(s, since)
  IN  /\ mem' = kept
      /\ job' = [j EXCEPT !.at = IF kept = s THEN "work" ELSE "keys"]

PersistKeys ==
  /\ job.at = "keys"
  /\ disk' = WithKeys(disk, mem)
  /\ Goto(IF RotationDue(created) THEN "rotation" ELSE "work")
  /\ UNCHANGED <<created, revoked, recovery, mem, outside, record>>

(* The rotation is recorded after the new signed prekey is committed. *)
RecordRotation ==
  /\ job.at = "rotation"
  /\ created' = month
  /\ Goto("work")
  /\ UNCHANGED <<disk, revoked, recovery, mem, outside, record>>

(* bundle_from_store: any one-time prekey, the newest signed prekey. *)
BundlesFrom(s) ==
  {[own |-> s.own, key |-> k, signed |-> Newest(s.signed), month |-> month] : k \in s.prekeys}

-----------------------------------------------------------------------------
(* export_bundle; the bundle may go to a peer or to the relay. *)
Export ==
  /\ Idle
  /\ Maintain(NewJob("export", "work", None, 0, None), mem, created)
  /\ UNCHANGED <<store, outside, record>>

HandOut ==
  /\ AtStep({"export"}, "work")
  /\ \/ given' = given
     \/ /\ Cardinality(given) < MaxGiven
        /\ \E b \in BundlesFrom(mem) : given' = given \cup {b}
  /\ Return
  /\ UNCHANGED <<store, mem, outside, dropped, out, seen, verified, cut, events>>

(* encrypt_for with a bundle of the peer that carries its identity g. *)
Encrypt(p, g) ==
  /\ Idle /\ Counted
  /\ Maintain(NewJob("encrypt", "work", p, g, None), mem, created)
  /\ UNCHANGED <<store, outside, history>>

(* The checks of encrypt_for and the one libsignal makes on the session. *)
Sendable(s, p, g) ==
  /\ ~IsRevoked(s, p)
  /\ s.trusted[p] = {g}
  /\ Exists(s.session[p]) => s.session[p].cur.gen = g

(* process_prekey_bundle when there is no session. *)
SessionFor(session, g) ==
  IF Exists(session) THEN session
  ELSE LET line == [gen |-> g, bundle |-> None, no |-> NewLine]
       IN  [NoSession EXCEPT !.lines = {line}, !.cur = line]

(* message_encrypt: one more ciphertext of this session. *)
CountedIn(session) == [session EXCEPT !.made = @ + 1]

Encipher ==
  /\ AtStep({"encrypt"}, "work")
  /\ LET p == job.peer
         s == LoadPeer(mem, p)
     IN  IF Sendable(s, p, job.gen)
           THEN /\ mem' = [s EXCEPT !.session[p] = CountedIn(SessionFor(@, job.gen))]
                /\ Goto("persist")
           ELSE mem' = s /\ Return
  /\ UNCHANGED <<store, outside, record>>

(* The ciphertext the running encrypt_for has made. *)
Ciphertext ==
  LET session == mem.session[job.peer]
  IN  [peer |-> job.peer, line |-> session.cur, no |-> session.made, own |-> mem.own]

(* Mutant of ReturnCiphertext: the caller gets it before the commit. *)
ReturnCiphertextFirst ==
  /\ AtStep({"encrypt"}, "persist")
  /\ out' = out \cup {Ciphertext}
  /\ Return
  /\ UNCHANGED <<store, mem, outside, given, dropped, seen, verified, cut, events>>

ReturnCiphertext ==
  /\ AtStep({"encrypt"}, "persist")
  /\ disk' = Persisted(disk, mem, job.peer)
  /\ out' = out \cup {Ciphertext}
  /\ Return
  /\ UNCHANGED <<created, revoked, recovery, mem, outside,
                 given, dropped, seen, verified, cut, events>>

-----------------------------------------------------------------------------
(* message_decrypt.  A line the session knows opens each message once; a   *)
(* new line needs the identity, the one-time prekey and the signed prekey  *)
(* its bundle was made of, and uses up the one-time prekey.                *)
KnownLine(s, m) == mail[m].line \in s.session[mail[m].peer].lines

(* Mutant of Trusted: the first identity seen is trusted, as libsignal does. *)
TrustedFirstUse(s, m) == s.trusted[mail[m].peer] \subseteq {mail[m].line.gen}

Trusted(s, m) == s.trusted[mail[m].peer] = {mail[m].line.gen}

Handshake(s, m) ==
  LET b == mail[m].line.bundle
  IN  /\ ~KnownLine(s, m) /\ b # None
      /\ b.own = s.own /\ b.key \in s.prekeys /\ b.signed \in s.signed

(* Mutant of Duplicate: a message without its one-time prekey is stale too. *)
DuplicateKeyless(s, m) ==
  Trusted(s, m) /\ (m \in s.session[mail[m].peer].got \/ ~Handshake(s, m))

Duplicate(s, m) == KnownLine(s, m) /\ Trusted(s, m) /\ m \in s.session[mail[m].peer].got

Opens(s, m) ==
  /\ ~IsRevoked(s, mail[m].peer)
  /\ Trusted(s, m)
  /\ \/ KnownLine(s, m) /\ m \notin s.session[mail[m].peer].got
     \/ Handshake(s, m)

(* The session afterwards: on the line of m, whose key is used. *)
OpenedIn(session, m) ==
  [session EXCEPT !.lines = @ \cup {mail[m].line}, !.cur = mail[m].line, !.got = @ \cup {m}]

AfterOpening(s, m) ==
  [s EXCEPT
     !.prekeys = IF KnownLine(s, m) THEN @ ELSE @ \ {mail[m].line.bundle.key},
     !.session[mail[m].peer] = OpenedIn(@, m)]

Waiting(m) == mail[m] # None /\ m \notin dropped

Decrypt(m) ==
  /\ Idle /\ Waiting(m)
  /\ LET s == LoadPeer(mem, mail[m].peer)
     IN  /\ Opens(s, m)
         /\ Maintain(NewJob("decrypt", "work", mail[m].peer, 0, m), AfterOpening(s, m), created)
  /\ UNCHANGED <<store, outside, record>>

(* An error.  ChatService::poll acknowledges a message whose key is gone. *)
DecryptErr(m) ==
  /\ Idle /\ Waiting(m)
  /\ LET s == LoadPeer(mem, mail[m].peer)
     IN  /\ ~Opens(s, m)
         /\ mem' = s
         /\ dropped' = IF Duplicate(s, m) /\ ~IsRevoked(s, mail[m].peer)
                         THEN dropped \cup {m} ELSE dropped
  /\ UNCHANGED <<store, job, outside, given, out, seen, verified, cut, events>>

(* Mutant of ReturnPlaintext: the caller gets it before the commit. *)
ReturnPlaintextFirst ==
  /\ AtStep({"decrypt"}, "work")
  /\ seen' = seen \cup {job.msg}
  /\ Return
  /\ UNCHANGED <<store, mem, outside, given, dropped, out, verified, cut, events>>

ReturnPlaintext ==
  /\ AtStep({"decrypt"}, "work")
  /\ disk' = Persisted(disk, mem, job.peer)
  /\ seen' = seen \cup {job.msg}
  /\ Return
  /\ UNCHANGED <<created, revoked, recovery, mem, outside,
                 given, dropped, out, verified, cut, events>>

-----------------------------------------------------------------------------
(* trust_peer, for the identity the peer has now, whose fingerprint the    *)
(* user compared: the memory, the revocation row, the peer's rows.         *)
Trust(p) ==
  /\ Idle
  /\ mem.trusted[p] \subseteq {peerGen[p]}
  /\ mem' = [mem EXCEPT !.trusted[p] = {peerGen[p]}]
  /\ verified' = [verified EXCEPT ![p] = @ \cup {peerGen[p]}]
  /\ job' = NewJob("trust", "row", p, peerGen[p], None)
  /\ UNCHANGED <<store, outside, given, dropped, out, seen, cut, events>>

ForgetRevocation ==
  /\ AtStep({"trust"}, "row")
  /\ revoked' = [revoked EXCEPT ![job.peer] = [on |-> FALSE, but |-> {}]]
  /\ Goto("persist")
  /\ UNCHANGED <<disk, created, recovery, mem, outside, record>>

(* accept_recovery of the record of the peer's latest replacement: the     *)
(* identity the memory trusts must be the one that signed it.              *)
Accept(p) ==
  /\ Idle
  /\ 0 < peerGen[p] /\ mem.trusted[p] = {peerGen[p] - 1}
  /\ mem' = [mem EXCEPT !.trusted[p] = {peerGen[p]}]
  /\ verified' = [verified EXCEPT ![p] = @ \cup {peerGen[p]}]
  /\ job' = NewJob("accept", "session", p, peerGen[p], None)
  /\ UNCHANGED <<store, outside, given, dropped, out, seen, cut, events>>

(* revoke_device *)
Revoke(p) ==
  /\ Idle /\ Counted
  /\ job' = NewJob("revoke", "session", p, 0, None)
  /\ UNCHANGED <<store, mem, outside, history>>

(* Mutant of DropSession: the row is blanked, not deleted. *)
DropSessionBlank ==
  /\ AtStep({"accept", "revoke"}, "session")
  /\ disk' = [disk EXCEPT !.session[job.peer] = None]
  /\ Goto(IF job.op = "accept" THEN "row" ELSE "identity")
  /\ UNCHANGED <<created, revoked, recovery, mem, outside, record>>

DropSession ==
  /\ AtStep({"accept", "revoke"}, "session")
  /\ disk' = [disk EXCEPT !.session[job.peer] = NoSession]
  /\ Goto(IF job.op = "accept" THEN "row" ELSE "identity")
  /\ UNCHANGED <<created, revoked, recovery, mem, outside, record>>

DropIdentity ==
  /\ AtStep({"revoke"}, "identity")
  /\ disk' = [disk EXCEPT !.trusted[job.peer] = {}]
  /\ Goto("row")
  /\ UNCHANGED <<created, revoked, recovery, mem, outside, record>>

(* The last statement of revoke_device, after which the memory is reset. *)
RevokeRow ==
  /\ AtStep({"revoke"}, "row")
  /\ revoked' = [revoked EXCEPT ![job.peer] = [on |-> TRUE, but |-> {}]]
  /\ mem' = Opened(disk)
  /\ verified' = [verified EXCEPT ![job.peer] = {}]
  /\ Return
  /\ UNCHANGED <<disk, created, recovery, outside, given, dropped, out, seen,
                 cut, events>>

AcceptRow ==
  /\ AtStep({"accept"}, "row")
  /\ revoked' = [revoked EXCEPT ![job.peer] = [on |-> TRUE, but |-> {job.gen}]]
  /\ Goto("record")
  /\ UNCHANGED <<disk, created, recovery, mem, outside, record>>

AcceptRecord ==
  /\ AtStep({"accept"}, "record")
  /\ Goto("persist")
  /\ UNCHANGED <<store, mem, outside, record>>

(* The last statement of trust_peer and of accept_recovery, which resets   *)
(* the memory.                                                             *)
FinishTrust ==
  /\ AtStep({"trust", "accept"}, "persist")
  /\ disk' = Persisted(disk, mem, job.peer)
  /\ mem' = IF job.op = "accept" THEN Opened(disk') ELSE mem
  /\ verified' = [verified EXCEPT ![job.peer] = {job.gen}]
  /\ Return
  /\ UNCHANGED <<created, revoked, recovery, outside, given, dropped, out, seen,
                 cut, events>>

(* replace_identity_with_recovery: one transaction, then the keys of the   *)
(* new identity, then the record signed with the old one.                  *)
Replace ==
  /\ Idle
  /\ Counted
  /\ disk' = NewStore(disk.own + 1)
  /\ created' = 0
  /\ verified' = [p \in Peer |-> {}]
  /\ Maintain(NewJob("replace", "work", None, 0, None), NewStore(disk.own + 1), 0)
  /\ UNCHANGED <<revoked, recovery, outside, given, dropped, out, seen, cut>>

(* Mutant of RecordReplacement: recorded under the old fingerprint. *)
RecordReplacementOld ==
  /\ AtStep({"replace"}, "work")
  /\ recovery' = recovery \cup {mem.own - 1}
  /\ \E b \in BundlesFrom(mem) : given' = given \cup {b}
  /\ Return
  /\ UNCHANGED <<disk, created, revoked, mem, outside, dropped, out, seen,
                 verified, cut, events>>

RecordReplacement ==
  /\ AtStep({"replace"}, "work")
  /\ recovery' = recovery \cup {mem.own}
  /\ \E b \in BundlesFrom(mem) : given' = given \cup {b}
  /\ Return
  /\ UNCHANGED <<disk, created, revoked, mem, outside, dropped, out, seen,
                 verified, cut, events>>

-----------------------------------------------------------------------------
(* What an interruption leaves undone that the properties speak of. *)
Undone(how) ==
  {c \in Cuts :
     \/ c = "unsaved" /\ how = "error" /\ job.op = "decrypt"
     \/ c = "half opened" /\ how = "kill" /\ job.op = "decrypt" /\ job.at \in {"rotation", "work"}
     \/ c = "keys" /\ job.at = "keys" /\ how = "error"
     \/ c = "rotation" /\ job.at = "rotation"
     \/ c = "replacement" /\ job.op = "replace"}

Interrupted(how) ==
  /\ ~Idle
  /\ Counted
  /\ cut' = cut \cup Undone(how)
  /\ Return
  /\ UNCHANGED <<store, outside, given, dropped, out, seen, verified>>

(* A statement fails: the operation returns its error, the memory stays. *)
StatementFails == Interrupted("error") /\ UNCHANGED mem

(* The process is killed; the next start opens the database again. *)
Kill == Interrupted("kill") /\ mem' = Opened(disk)

(* The next start, or the next operation of the desktop client, which      *)
(* opens the database for each.                                            *)
Reopen ==
  /\ Idle
  /\ mem' = Opened(disk)
  /\ UNCHANGED <<store, job, outside, record>>

-----------------------------------------------------------------------------
(* The peers.  A peer writes in a line it has: one it starts from a bundle *)
(* it got, or one in which it received a ciphertext of this device.        *)
LinesOf(p) ==
  {[gen |-> peerGen[p], bundle |-> b, no |-> 0] : b \in given}
    \cup {l \in {o.line : o \in {x \in out : x.peer = p}} : l.gen = peerGen[p]}

PeerWrites(p, m) ==
  /\ mail[m] = None
  /\ \E l \in LinesOf(p) : mail' = [mail EXCEPT ![m] = [peer |-> p, line |-> l]]
  /\ UNCHANGED <<store, mem, job, month, peerGen, record>>

PeerReplaces(p) ==
  /\ Counted
  /\ peerGen' = [peerGen EXCEPT ![p] = @ + 1]
  /\ UNCHANGED <<store, mem, job, month, mail, history>>

(* Thirty days pass; not within an operation. *)
MonthPasses ==
  /\ Idle
  /\ Counted
  /\ month' = month + 1
  /\ UNCHANGED <<store, mem, job, mail, peerGen, history>>

Init ==
  /\ disk = NewStore(0) /\ mem = NewStore(0)
  /\ created = 0 /\ recovery = {}
  /\ revoked = [p \in Peer |-> [on |-> FALSE, but |-> {}]]
  /\ job = NoJob /\ month = 1
  /\ given = {} /\ mail = [m \in Msg |-> None] /\ peerGen = [p \in Peer |-> 0]
  /\ dropped = {} /\ out = {} /\ seen = {} /\ verified = [p \in Peer |-> {}]
  /\ cut = {} /\ events = 0

(* maintain_key_inventory, wherever it is called. *)
Maintenance == PersistKeys \/ RecordRotation

Sending == (\E p \in Peer : \E g \in 0 .. peerGen[p] : Encrypt(p, g)) \/ Encipher \/ ReturnCiphertext
Receiving == (\E m \in Msg : Decrypt(m) \/ DecryptErr(m)) \/ ReturnPlaintext
Trusting == (\E p \in Peer : Trust(p) \/ Accept(p))
              \/ ForgetRevocation \/ AcceptRow \/ AcceptRecord \/ FinishTrust
Revoking == (\E p \in Peer : Revoke(p)) \/ DropSession \/ DropIdentity \/ RevokeRow
Replacing == Replace \/ RecordReplacement
Mishap == StatementFails \/ Kill
Outside == \/ \E p \in Peer : PeerReplaces(p) \/ \E m \in Msg : PeerWrites(p, m)
           \/ MonthPasses \/ Reopen

Next == \/ Export \/ HandOut \/ Maintenance \/ Sending \/ Receiving
        \/ Trusting \/ Revoking \/ Replacing \/ Mishap \/ Outside

Spec == Init /\ [][Next]_vars

-----------------------------------------------------------------------------
RevocationRow == [on : BOOLEAN, but : SUBSET Nat]
Letter == [peer : Peer, line : Line]

(* The type of every variable. *)
TypeOK ==
  /\ disk \in Store /\ mem \in Store
  /\ created \in Nat /\ recovery \subseteq Nat
  /\ revoked \in [Peer -> RevocationRow]
  /\ job \in Job /\ month \in Nat
  /\ given \subseteq Bundle
  /\ mail \in [Msg -> Letter \cup {None}]
  /\ peerGen \in [Peer -> Nat]
  /\ dropped \subseteq Msg
  /\ out \subseteq [peer : Peer, line : Line, no : Nat, own : Nat]
  /\ seen \subseteq Msg
  /\ verified \in [Peer -> SUBSET Nat]
  /\ cut \subseteq Cuts
  /\ events \in Nat

(* No message key is used twice: a ciphertext about to be returned is not  *)
(* one that was returned before, whatever was lost or failed in between    *)
(* (encrypt_for commits the ratchet before it returns; the test            *)
(* ratchet_update_can_be_retried_after_persist_failure).                   *)
FreshCiphertext ==
  AtStep({"encrypt"}, "persist") => \A o \in out :
    o.peer = Ciphertext.peer /\ o.line = Ciphertext.line => o.no # Ciphertext.no

(* No plaintext is returned a second time. *)
OpenedOnce == job.op = "decrypt" => job.msg \notin seen

(* An opening is not saved whole: one of its statements failed, or the     *)
(* process was killed after maintain_key_inventory committed the prekeys,  *)
(* without the one that was used, and before persist_peer wrote the        *)
(* session.                                                                *)
HalfOpened == cut \cap {"unsaved", "half opened"} # {}

(* The one-time prekey that a message's handshake needs. *)
KeyOf(m) == LET b == mail[m].line.bundle IN IF b = None THEN 0 ELSE b.key
SameKey(m, n) == KeyOf(m) = KeyOf(n)

(* The message being opened, or one that was, is made of bundle b. *)
UsedUp(b) ==
  \E m \in Msg : (m \in seen \/ (job.op = "decrypt" /\ job.msg = m)) /\ KeyOf(m) = b.key

(* A public bundle stays answerable while its identity is in use: its      *)
(* one-time prekey is on disk until a message used it up, its signed       *)
(* prekey for one more rotation period.  Only a key write that failed, a   *)
(* half-saved opening, or a kill between a rotation and its record takes a *)
(* key away early.                                                         *)
BundleKept ==
  \/ HalfOpened \/ cut \cap {"keys", "rotation"} # {}
  \/ \A b \in given : b.own = disk.own =>
       /\ b.key \in disk.prekeys \/ UsedUp(b)
       /\ month <= b.month + 1 => b.signed \in disk.signed

(* Acknowledging a message as stale loses nothing but a message whose      *)
(* opening failed to be saved.                                             *)
StaleWasRead == dropped \subseteq seen \/ "unsaved" \in cut

(* The identity replacements of the device each have their signed record,  *)
(* unless the operation was interrupted after the transaction that         *)
(* destroyed the old key.                                                  *)
RecoveryKept ==
  job.op # "replace" /\ "replacement" \notin cut => 1 .. disk.own \subseteq recovery

(* A ciphertext is made for, and a plaintext accepted from, no identity    *)
(* but one the user verified and has not revoked or replaced since, and    *)
(* under the device's present identity.                                    *)
OnlyVerified ==
  [][/\ \A o \in out' \ out : o.line.gen \in verified[o.peer] /\ o.own = disk.own
     /\ \A m \in seen' \ seen : mail[m].line.gen \in verified[mail[m].peer]]_vars

(* What the database alone can open, after a restart. *)
Readable(m) == mail[m] # None /\ Opens(LoadPeer(Opened(disk), mail[m].peer), m)

(* A message that could be read stays readable until it is read, over      *)
(* kills and errors: only an operation on trust, an opening of a message   *)
(* made of the same one-time prekey, two rotation periods, a key write     *)
(* that failed or a half-saved opening takes it away.                      *)
StaysReadable ==
  [][\A m \in Msg :
       Readable(m) /\ ~Readable(m)' =>
         \/ m \in seen'
         \/ job.op \in {"trust", "accept", "revoke"} \/ disk'.own # disk.own
         \/ job.op = "decrypt" /\ SameKey(job.msg, m)
         \/ mail[m].line.bundle # None /\ mail[m].line.bundle.month + 1 < month
         \/ HalfOpened \/ cut \cap {"keys", "rotation"} # {}]_vars

(* "Recovery accepted. The old device identity is revoked and the new      *)
(* lobby is ready." (safechat-ui.rs:949): what accept_recovery leaves      *)
(* allows the device to write to the peer's new identity.                  *)
LobbyReady ==
  [][\A p \in Peer, g \in {job.gen} :
       AtStep({"accept"}, "persist") /\ job.peer = p /\ job.gen = g /\ job' = NoJob /\ events' = events
         => Sendable(LoadPeer(mem, p), p, g)']_vars
=============================================================================
