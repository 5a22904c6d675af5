------------------------- MODULE SignalStoreProofs -------------------------
(***************************************************************************)
(* The invariants of SignalStore and its two action properties, for every  *)
(* number of peers, messages, bundles, faults and rotation periods.        *)
(*                                                                         *)
(* The argument: what the memory knows of a peer is the database's         *)
(* session or a later state of it (MemoryAhead); the one-time prekey of a  *)
(* handshake that was used is gone on both sides (SpentOk); so a session   *)
(* counts every ciphertext (MadeOk) and knows every message (GotOk) that   *)
(* was returned in it, whichever of its copies is loaded.  The prekeys     *)
(* behind the public bundles are on each side up to the month that side    *)
(* has reached (KeysOk).                                                   *)
(***************************************************************************)
EXTENDS SignalStore, FiniteSetTheorems, WellFoundedInduction, TLAPS

(* The signed prekeys: none, the first, or the last two. *)
SignedOk(S) == S = {} \/ \E n \in S : S = {n} \/ S = {n, n + 1}

SessionOk(x) ==
  /\ IsFiniteSet(x.lines)
  /\ x.lines = {} => x = NoSession
  /\ x.lines # {} => x.cur \in x.lines

StoreOk(s) ==
  /\ IsFiniteSet(s.prekeys) /\ 0 \notin s.prekeys /\ SignedOk(s.signed)
  /\ \A p \in Peer : SessionOk(s.session[p])

(* Both sides are well formed and of one identity; bundles carry keys. *)
Shape ==
  /\ StoreOk(disk) /\ StoreOk(mem) /\ mem.own = disk.own
  /\ IsFiniteSet(given) /\ IsFiniteSet(out)
  /\ \A b \in given : b.own <= disk.own /\ b.key # 0

-----------------------------------------------------------------------------
(* The operators: new numbers, signed prekeys, and what each operation on  *)
(* a store leaves of it.                                                   *)
LEMMA LeastNumber ==
  ASSUME NEW S \in SUBSET Nat, S # {}
  PROVE  \E x \in S : \A y \in S : x <= y
<1> DEFINE R == OpToRel(<, Nat)
<1>1. IsWellFoundedOn(R, Nat)
  BY NatLessThanWellFounded
<1>2. PICK x \in S : \A y \in S : ~(<<y, x>> \in R)
  BY <1>1, WFMin
<1>3. \A y \in S : ~(y < x)
  BY <1>2 DEF OpToRel
<1> QED
  BY <1>3

LEMMA FreshNumbers ==
  ASSUME NEW S \in SUBSET Nat, IsFiniteSet(S), NEW n \in Nat
  PROVE  /\ Fresh(S, n) \in SUBSET Nat /\ IsFiniteSet(Fresh(S, n))
         /\ 0 \notin Fresh(S, n) /\ Fresh(S, n) \cap S = {}
<1>1. PICK c \in Nat : c = Cardinality(S) + n
  BY FS_CardinalityType
<1>2. IsFiniteSet(1 .. c)
  BY FS_Interval
<1>3. /\ Fresh(S, n) \in SUBSET (1 .. c)
      /\ Fresh(S, n) \cap S = {}
  BY <1>1 DEF Fresh
<1>4. IsFiniteSet(Fresh(S, n))
  BY <1>2, <1>3, FS_Subset
<1> QED
  BY <1>1, <1>3, <1>4

LEMMA FreshNumber ==
  ASSUME NEW S \in SUBSET Nat, IsFiniteSet(S)
  PROVE  Fresh(S, 1) # {}
<1>1. PICK c \in Nat : c = Cardinality(S)
  BY FS_CardinalityType
<1>2. PICK F : F = (1 .. (c + 1)) \ S
  OBVIOUS
<1>3. F # {}
  <2>1. SUFFICES ASSUME F = {}
                 PROVE  FALSE
    OBVIOUS
  <2>2. (1 .. (c + 1)) \in SUBSET S
    BY <2>1, <1>2
  <2>3. Cardinality(1 .. (c + 1)) <= c
    BY <2>2, <1>1, FS_Subset
  <2>4. Cardinality(1 .. (c + 1)) = c + 1
    BY FS_Interval
  <2> QED
    BY <2>3, <2>4
<1>4. F \in SUBSET Nat
  BY <1>2
<1>5. PICK k \in F : \A l \in F : k <= l
  BY <1>3, <1>4, LeastNumber
<1>6. {l \in F : l < k} = {}
  <2>1. \A l \in F : ~(l < k)
    BY <1>4, <1>5
  <2> QED
    BY <2>1
<1>7. Cardinality({l \in F : l < k}) = 0
  BY <1>6, FS_EmptySet
<1>8. k \in Fresh(S, 1)
  <2>1. Cardinality({l \in F : l < k}) < 1
    BY <1>7
  <2> QED
    BY <2>1, <1>1, <1>2 DEF Fresh
<1> QED
  BY <1>8

LEMMA NewestOne ==
  ASSUME NEW n \in Nat
  PROVE  Newest({n}) = n
<1>1. \E k \in {n} : \A l \in {n} : l <= k
  OBVIOUS
<1> QED
  BY <1>1 DEF Newest

LEMMA NewestTwo ==
  ASSUME NEW n \in Nat
  PROVE  Newest({n, n + 1}) = n + 1
<1> DEFINE P(k) == k \in {n, n + 1} /\ \A l \in {n, n + 1} : l <= k
<1>1. P(n + 1) /\ \A k : P(k) => k = n + 1
  OBVIOUS
<1> QED
  BY <1>1 DEF Newest

LEMMA NewestOk ==
  ASSUME NEW S \in SUBSET Nat, SignedOk(S), S # {}
  PROVE  /\ Newest(S) \in S /\ Newest(S) \in Nat
         /\ \A l \in S : l <= Newest(S) /\ Newest(S) <= l + 1
<1>1. PICK n \in S : S = {n} \/ S = {n, n + 1}
  BY DEF SignedOk
<1>2. CASE S = {n}
  BY <1>2, NewestOne
<1>3. CASE S = {n, n + 1}
  BY <1>3, NewestTwo
<1> QED
  BY <1>1, <1>2, <1>3

(* What Overlap leaves of one, two and three consecutive signed prekeys. *)
LEMMA OverlapOne ==
  ASSUME NEW n \in Nat
  PROVE  {k \in {n} : Cardinality({l \in {n} : l > k}) < 2} = {n}
<1>1. {l \in {n} : l > n} = {}
  OBVIOUS
<1>2. Cardinality({l \in {n} : l > n}) = 0
  BY <1>1, FS_EmptySet
<1> QED
  BY <1>2

LEMMA OverlapTwo ==
  ASSUME NEW n \in Nat
  PROVE  {k \in {n, n + 1} : Cardinality({l \in {n, n + 1} : l > k}) < 2} = {n, n + 1}
<1>1. {l \in {n, n + 1} : l > n} = {n + 1} /\ {l \in {n, n + 1} : l > n + 1} = {}
  OBVIOUS
<1>2. /\ Cardinality({l \in {n, n + 1} : l > n}) = 1
      /\ Cardinality({l \in {n, n + 1} : l > n + 1}) = 0
  BY <1>1, FS_EmptySet, FS_Singleton
<1> QED
  BY <1>2

LEMMA OverlapThree ==
  ASSUME NEW n \in Nat, NEW S, S = {n, n + 1, n + 2}
  PROVE  {k \in S : Cardinality({l \in S : l > k}) < 2} = {n + 1, n + 2}
<1>1. /\ {l \in S : l > n} = {n + 1} \cup {n + 2}
      /\ {l \in S : l > n + 1} = {n + 2}
      /\ {l \in S : l > n + 2} = {}
  OBVIOUS
<1>2. IsFiniteSet({n + 1}) /\ Cardinality({n + 1}) = 1
  BY FS_Singleton
<1>3. Cardinality({n + 1} \cup {n + 2}) = 2
  BY <1>2, FS_AddElement
<1>4. Cardinality({l \in S : l > n}) = 2
  BY <1>1, <1>3
<1>5. Cardinality({l \in S : l > n + 1}) = 1
  BY <1>1, FS_Singleton
<1>6. Cardinality({l \in S : l > n + 2}) = 0
  BY <1>1, FS_EmptySet
<1>7. \A k \in S : k = n \/ k = n + 1 \/ k = n + 2
  OBVIOUS
<1> QED
  BY <1>4, <1>5, <1>6, <1>7

LEMMA NoSessionOk ==
  /\ NoSession \in Session /\ SessionOk(NoSession) /\ ~Exists(NoSession)
  /\ NoSession.lines = {} /\ NoSession.got = {} /\ NoSession.made = 0
BY FS_EmptySet DEF NoSession, Session, SessionOk, Exists

LEMMA NewStoreOk ==
  ASSUME NEW n \in Nat
  PROVE  /\ NewStore(n) \in Store /\ StoreOk(NewStore(n))
         /\ NewStore(n).own = n /\ NewStore(n).prekeys = {} /\ NewStore(n).signed = {}
         /\ \A p \in Peer : NewStore(n).session[p] = NoSession /\ NewStore(n).trusted[p] = {}
BY NoSessionOk, FS_EmptySet DEF NewStore, Store, StoreOk, SignedOk

LEMMA OpenedOk ==
  ASSUME NEW d \in Store, StoreOk(d)
  PROVE  /\ Opened(d) \in Store /\ StoreOk(Opened(d))
         /\ Opened(d).own = d.own /\ Opened(d).prekeys = d.prekeys
         /\ Opened(d).signed = d.signed
         /\ \A p \in Peer : Opened(d).session[p] = NoSession /\ Opened(d).trusted[p] = {}
<1>1. PICK n \in Nat : n = d.own
  BY DEF Store
<1>2. PICK s : s = NewStore(n)
  OBVIOUS
<1>3. Opened(d) = [s EXCEPT !.prekeys = d.prekeys, !.signed = d.signed]
  BY <1>1, <1>2 DEF Opened
<1>4. s \in Store /\ StoreOk(s) /\ s.own = n
      /\ \A p \in Peer : s.session[p] = NoSession /\ s.trusted[p] = {}
  BY <1>2, NewStoreOk
<1> QED
  BY <1>1, <1>3, <1>4 DEF Store, StoreOk

(* t is s after load_peer(p). *)
IsLoaded(s, p, t) ==
  /\ t \in Store /\ StoreOk(t)
  /\ t.own = s.own /\ t.prekeys = s.prekeys /\ t.signed = s.signed
  /\ t.session[p] = IF Exists(disk.session[p]) THEN disk.session[p] ELSE s.session[p]
  /\ t.trusted[p] = IF disk.trusted[p] # {} THEN disk.trusted[p] ELSE s.trusted[p]
  /\ \A q \in Peer : q # p => t.session[q] = s.session[q] /\ t.trusted[q] = s.trusted[q]

LEMMA LoadPeerOk ==
  ASSUME disk \in Store, StoreOk(disk), NEW s \in Store, StoreOk(s), NEW p \in Peer
  PROVE  IsLoaded(s, p, LoadPeer(s, p))
<1>1. PICK x \in Session : /\ x = IF Exists(disk.session[p]) THEN disk.session[p]
                                  ELSE s.session[p]
                           /\ SessionOk(x)
  BY DEF Store, StoreOk
<1>2. PICK g \in SUBSET Nat : g = IF disk.trusted[p] # {} THEN disk.trusted[p] ELSE s.trusted[p]
  BY DEF Store
<1>3. PICK t : t = [s EXCEPT !.session[p] = x, !.trusted[p] = g]
  OBVIOUS
<1>4. LoadPeer(s, p) = t
  BY <1>1, <1>2, <1>3 DEF LoadPeer, Store
<1>5. /\ t.own = s.own /\ t.prekeys = s.prekeys /\ t.signed = s.signed
      /\ t.session = [s.session EXCEPT ![p] = x] /\ t.trusted = [s.trusted EXCEPT ![p] = g]
      /\ t \in Store
  BY <1>3 DEF Store
<1>6. /\ t.session[p] = x /\ t.trusted[p] = g
      /\ \A q \in Peer : q # p => t.session[q] = s.session[q] /\ t.trusted[q] = s.trusted[q]
  BY <1>5 DEF Store
<1>7. StoreOk(t)
  BY <1>1, <1>5, <1>6 DEF StoreOk
<1> QED
  BY <1>1, <1>2, <1>4, <1>5, <1>6, <1>7 DEF IsLoaded

LEMMA WithKeysOk ==
  ASSUME NEW d \in Store, StoreOk(d), NEW s \in Store, StoreOk(s)
  PROVE  LET t == WithKeys(d, s)
         IN  /\ t \in Store /\ StoreOk(t)
             /\ t.own = s.own /\ t.prekeys = s.prekeys /\ t.signed = s.signed
             /\ t.session = d.session /\ t.trusted = d.trusted
BY DEF WithKeys, Store, StoreOk

(* t is the database d after persist_peer(p) of the memory s. *)
IsPersisted(d, s, p, t) ==
  /\ t \in Store /\ StoreOk(t)
  /\ t.own = s.own /\ t.prekeys = s.prekeys /\ t.signed = s.signed
  /\ t.session[p] = IF Exists(s.session[p]) THEN s.session[p] ELSE d.session[p]
  /\ t.trusted[p] = IF s.trusted[p] # {} THEN s.trusted[p] ELSE d.trusted[p]
  /\ \A q \in Peer : q # p => t.session[q] = d.session[q] /\ t.trusted[q] = d.trusted[q]

LEMMA PersistedOk ==
  ASSUME NEW d \in Store, StoreOk(d), NEW s \in Store, StoreOk(s), NEW p \in Peer
  PROVE  IsPersisted(d, s, p, Persisted(d, s, p))
<1>1. PICK x \in Session : /\ x = IF Exists(s.session[p]) THEN s.session[p]
                                  ELSE d.session[p]
                           /\ SessionOk(x)
  BY DEF Store, StoreOk
<1>2. PICK g \in SUBSET Nat : g = IF s.trusted[p] # {} THEN s.trusted[p] ELSE d.trusted[p]
  BY DEF Store
<1>3. PICK w : w = WithKeys(d, s)
  OBVIOUS
<1>4. /\ w \in Store /\ StoreOk(w)
      /\ w.own = s.own /\ w.prekeys = s.prekeys /\ w.signed = s.signed
      /\ w.session = d.session /\ w.trusted = d.trusted
  BY <1>3, WithKeysOk
<1>5. PICK t : t = [w EXCEPT !.session[p] = x, !.trusted[p] = g]
  OBVIOUS
<1>6. Persisted(d, s, p) = t
  <2>1. [w EXCEPT !.session[p] = IF Exists(s.session[p]) THEN s.session[p] ELSE @,
                  !.trusted[p] = IF s.trusted[p] # {} THEN s.trusted[p] ELSE @] = t
    BY <1>1, <1>2, <1>4, <1>5 DEF Store
  <2> QED
    BY <2>1, <1>3 DEF Persisted
<1>7. /\ t.own = w.own /\ t.prekeys = w.prekeys /\ t.signed = w.signed
      /\ t.session = [w.session EXCEPT ![p] = x] /\ t.trusted = [w.trusted EXCEPT ![p] = g]
      /\ t \in Store
  BY <1>4, <1>5 DEF Store
<1>8. /\ t.session[p] = x /\ t.trusted[p] = g
      /\ \A q \in Peer : q # p => t.session[q] = d.session[q] /\ t.trusted[q] = d.trusted[q]
  BY <1>4, <1>7 DEF Store
<1>9. StoreOk(t)
  BY <1>1, <1>4, <1>7, <1>8 DEF StoreOk
<1> QED
  BY <1>1, <1>2, <1>4, <1>6, <1>7, <1>8, <1>9 DEF IsPersisted

-----------------------------------------------------------------------------
(* Maintained adds one-time prekeys that nothing refers to and, when a     *)
(* rotation is due, the next signed prekey.                                *)
LEMMA NewKeysOk ==
  ASSUME disk \in Store, StoreOk(disk), mem \in Store, StoreOk(mem),
         given \subseteq Bundle, IsFiniteSet(given),
         NEW s \in Store, StoreOk(s), NEW n \in Nat
  PROVE  /\ NewKeys(s, n) \in SUBSET Nat /\ IsFiniteSet(NewKeys(s, n)) /\ 0 \notin NewKeys(s, n)
         /\ NewKeys(s, n) \cap (disk.prekeys \cup mem.prekeys \cup s.prekeys) = {}
         /\ \A b \in given : b.key \notin NewKeys(s, n)
<1>1. PICK K : K = {b.key : b \in given}
  OBVIOUS
<1>2. IsFiniteSet(K) /\ K \in SUBSET Nat
  <2>1. [b \in given |-> b.key] \in Surjection(given, K)
    BY <1>1 DEF Surjection
  <2> QED
    BY <2>1, <1>1, FS_Surjection DEF Bundle
<1>3. PICK U : U = disk.prekeys \cup mem.prekeys \cup s.prekeys \cup K
  OBVIOUS
<1>4. U \in SUBSET Nat /\ IsFiniteSet(U)
  <2>1. IsFiniteSet(disk.prekeys) /\ IsFiniteSet(mem.prekeys) /\ IsFiniteSet(s.prekeys)
    BY DEF StoreOk
  <2>2. IsFiniteSet(disk.prekeys \cup mem.prekeys)
    BY <2>1, FS_Union
  <2>3. IsFiniteSet((disk.prekeys \cup mem.prekeys) \cup s.prekeys)
    BY <2>1, <2>2, FS_Union
  <2>4. IsFiniteSet(((disk.prekeys \cup mem.prekeys) \cup s.prekeys) \cup K)
    BY <1>2, <2>3, FS_Union
  <2>5. U \in SUBSET Nat
    BY <1>2, <1>3 DEF Store
  <2> QED
    BY <1>3, <2>4, <2>5
<1>5. NewKeys(s, n) = Fresh(U, n)
  BY <1>1, <1>3 DEF NewKeys
<1>6. /\ Fresh(U, n) \in SUBSET Nat /\ IsFiniteSet(Fresh(U, n))
      /\ 0 \notin Fresh(U, n) /\ Fresh(U, n) \cap U = {}
  BY <1>4, FreshNumbers
<1> QED
  BY <1>1, <1>3, <1>5, <1>6

(* The keys of t are those of s and new ones. *)
Grown(s, t) ==
  /\ t.own = s.own /\ t.session = s.session /\ t.trusted = s.trusted
  /\ s.prekeys \subseteq t.prekeys
  /\ \A k \in t.prekeys \ s.prekeys :
       k \notin disk.prekeys \cup mem.prekeys /\ \A b \in given : b.key # k

(* s with the one-time prekeys K more, and the signed prekeys S. *)
With(s, K, S) == [s EXCEPT !.prekeys = s.prekeys \cup K, !.signed = S]

LEMMA GrownBy ==
  ASSUME disk \in Store, StoreOk(disk), mem \in Store, StoreOk(mem),
         given \subseteq Bundle, IsFiniteSet(given),
         NEW s \in Store, StoreOk(s), NEW n \in Nat, NEW S \in SUBSET Nat, SignedOk(S),
         NEW K, K = NewKeys(s, n), NEW t, t = With(s, K, S)
  PROVE  t \in Store /\ StoreOk(t) /\ Grown(s, t) /\ t.signed = S
<1>1. /\ K \in SUBSET Nat /\ IsFiniteSet(K) /\ 0 \notin K
      /\ K \cap (disk.prekeys \cup mem.prekeys \cup s.prekeys) = {}
      /\ \A b \in given : b.key \notin K
  BY NewKeysOk
<1>2. /\ t.own = s.own /\ t.session = s.session /\ t.trusted = s.trusted
      /\ t.prekeys = s.prekeys \cup K /\ t.signed = S
  BY DEF Store, With
<1>3. IsFiniteSet(t.prekeys)
  <2>1. IsFiniteSet(s.prekeys) /\ IsFiniteSet(K)
    BY <1>1 DEF StoreOk
  <2>2. IsFiniteSet(s.prekeys \cup K)
    BY <2>1, FS_Union
  <2> QED
    BY <1>2, <2>2
<1>4. t \in Store
  BY <1>1 DEF Store, With
<1>5. StoreOk(t)
  BY <1>1, <1>2, <1>3 DEF StoreOk
<1>6. Grown(s, t)
  BY <1>1, <1>2 DEF Grown
<1> QED
  BY <1>2, <1>4, <1>5, <1>6

LEMMA GrownTwice ==
  ASSUME NEW s, NEW t, NEW u, Grown(s, t), Grown(t, u)
  PROVE  Grown(s, u)
BY DEF Grown

LEMMA GrownNot ==
  ASSUME NEW s
  PROVE  Grown(s, s)
BY DEF Grown

LEMMA WithFirstKeysOk ==
  ASSUME disk \in Store, StoreOk(disk), mem \in Store, StoreOk(mem),
         given \subseteq Bundle, IsFiniteSet(given), NEW s \in Store, StoreOk(s)
  PROVE  LET t == WithFirstKeys(s)
         IN  /\ t \in Store /\ StoreOk(t) /\ Grown(s, t)
             /\ t.signed = IF s.signed = {} THEN {1} ELSE s.signed
<1>1. CASE s.signed = {}
  <2>1. PICK K : K = NewKeys(s, 1)
    OBVIOUS
  <2>2. PICK t : t = With(s, K, {1})
    OBVIOUS
  <2>3. WithFirstKeys(s) = t
    BY <1>1, <2>1, <2>2 DEF WithFirstKeys, With
  <2>4. PICK S : S = {1}
    OBVIOUS
  <2>5. SignedOk(S) /\ S \in SUBSET Nat
    BY <2>4 DEF SignedOk
  <2>6. t = With(s, K, S)
    BY <2>2, <2>4
  <2>7. t \in Store /\ StoreOk(t) /\ Grown(s, t) /\ t.signed = S
    BY <2>1, <2>4, <2>5, <2>6, GrownBy
  <2> QED
    BY <1>1, <2>3, <2>4, <2>7
<1>2. CASE s.signed # {}
  BY <1>2, GrownNot DEF WithFirstKeys
<1> QED
  BY <1>1, <1>2

LEMMA ReplenishedOk ==
  ASSUME disk \in Store, StoreOk(disk), mem \in Store, StoreOk(mem),
         given \subseteq Bundle, IsFiniteSet(given), NEW s \in Store, StoreOk(s)
  PROVE  LET t == Replenished(s)
         IN  t \in Store /\ StoreOk(t) /\ Grown(s, t) /\ t.signed = s.signed
<1>1. CASE Cardinality(s.prekeys) < LowWatermark
  <2>1. PICK n \in Nat : n = Target - Cardinality(s.prekeys)
    BY <1>1, FS_CardinalityType, StoreAssumption DEF StoreOk
  <2>2. PICK K : K = NewKeys(s, n)
    OBVIOUS
  <2>3. PICK t : t = With(s, K, s.signed)
    OBVIOUS
  <2>4. Replenished(s) = t
    BY <1>1, <2>1, <2>2, <2>3 DEF Replenished, With
  <2>5. PICK S \in SUBSET Nat : S = s.signed /\ SignedOk(S)
    BY DEF StoreOk, Store
  <2>6. t = With(s, K, S)
    BY <2>3, <2>5
  <2>7. t \in Store /\ StoreOk(t) /\ Grown(s, t) /\ t.signed = S
    BY <2>2, <2>5, <2>6, GrownBy
  <2> QED
    BY <2>4, <2>5, <2>7
<1>2. CASE ~(Cardinality(s.prekeys) < LowWatermark)
  BY <1>2, GrownNot DEF Replenished
<1> QED
  BY <1>1, <1>2

(* The signed prekeys after a rotation and the overlap. *)
LEMMA SignedAfter ==
  ASSUME NEW s \in Store, StoreOk(s), s.signed # {}, NEW since \in Nat, month \in Nat
  PROVE  LET t == Overlap(Rotated(s, since))
         IN  /\ t \in Store /\ StoreOk(t) /\ Grown(s, t) /\ t.prekeys = s.prekeys
             /\ t.signed = IF RotationDue(since) THEN {Newest(s.signed), Newest(s.signed) + 1}
                           ELSE s.signed
<1>1. SignedOk(s.signed) /\ s.signed \in SUBSET Nat
  BY DEF StoreOk, Store
<1>2. PICK n \in s.signed : s.signed = {n} \/ s.signed = {n, n + 1}
  BY <1>1 DEF SignedOk
<1>3. PICK R : R = IF RotationDue(since) THEN s.signed \cup {Newest(s.signed) + 1} ELSE s.signed
  OBVIOUS
<1>4. PICK N : N = Newest(s.signed)
  OBVIOUS
<1>5. N \in Nat /\ N \in s.signed
  BY <1>1, <1>4, NewestOk
<1>6. PICK O : O = {k \in R : Cardinality({l \in R : l > k}) < 2}
  OBVIOUS
<1>7. O = IF RotationDue(since) THEN {N, N + 1} ELSE s.signed
  <2>1. CASE RotationDue(since) /\ s.signed = {n}
    <3>1. R = {n, n + 1} /\ N = n
      BY <1>1, <1>2, <1>3, <1>4, <2>1, NewestOne
    <3> QED
      BY <3>1, <1>1, <1>2, <1>6, <2>1, OverlapTwo
  <2>2. CASE RotationDue(since) /\ s.signed = {n, n + 1}
    <3>1. N = n + 1
      BY <1>1, <1>2, <1>4, <2>2, NewestTwo
    <3>2. R = {n, n + 1, n + 2}
      BY <1>1, <1>2, <1>3, <1>4, <2>2, <3>1
    <3>3. {k \in R : Cardinality({l \in R : l > k}) < 2} = {n + 1, n + 2}
      BY <3>2, <1>1, OverlapThree
    <3>4. {N, N + 1} = {n + 1, n + 2}
      BY <3>1, <1>1
    <3> QED
      BY <3>3, <3>4, <1>6, <2>2
  <2>3. CASE ~RotationDue(since) /\ s.signed = {n}
    BY <1>1, <1>2, <1>3, <1>6, <2>3, OverlapOne
  <2>4. CASE ~RotationDue(since) /\ s.signed = {n, n + 1}
    BY <1>1, <1>2, <1>3, <1>6, <2>4, OverlapTwo
  <2> QED
    BY <1>2, <2>1, <2>2, <2>3, <2>4
<1>8. SignedOk(O) /\ O \in SUBSET Nat
  BY <1>1, <1>5, <1>7 DEF SignedOk
<1>9. PICK t : t = [s EXCEPT !.signed = O]
  OBVIOUS
<1>10. Overlap(Rotated(s, since)) = t
  <2>1. Rotated(s, since) = [s EXCEPT !.signed = R]
    BY <1>3 DEF Rotated, Store
  <2>2. PICK r : r = [s EXCEPT !.signed = R]
    OBVIOUS
  <2>3. r.signed = R /\ [r EXCEPT !.signed = O] = t
    BY <2>2, <1>9 DEF Store
  <2>4. Overlap(r) = [r EXCEPT !.signed = O]
    BY <2>3, <1>6 DEF Overlap
  <2> QED
    BY <2>1, <2>2, <2>3, <2>4
<1>11. /\ t.own = s.own /\ t.session = s.session /\ t.trusted = s.trusted
       /\ t.prekeys = s.prekeys /\ t.signed = O /\ t \in Store
  BY <1>8, <1>9 DEF Store
<1>12. StoreOk(t) /\ Grown(s, t)
  BY <1>8, <1>11 DEF StoreOk, Grown
<1> QED
  BY <1>4, <1>7, <1>10, <1>11, <1>12

(* The signed prekeys that maintain_key_inventory leaves. *)
SignedNext(S, since) ==
  LET first == IF S = {} THEN {1} ELSE S
  IN  IF RotationDue(since) THEN {Newest(first), Newest(first) + 1} ELSE first

(* t is s after maintain_key_inventory. *)
IsMaintained(s, since, t) ==
  /\ t \in Store /\ StoreOk(t) /\ Grown(s, t)
  /\ t.signed # {} /\ t.signed = SignedNext(s.signed, since)
  /\ t = s => ~RotationDue(since)

LEMMA MaintainedOk ==
  ASSUME disk \in Store, StoreOk(disk), mem \in Store, StoreOk(mem),
         given \subseteq Bundle, IsFiniteSet(given), month \in Nat,
         NEW s \in Store, StoreOk(s), NEW since \in Nat
  PROVE  IsMaintained(s, since, Maintained(s, since))
<1>1. PICK u : u = WithFirstKeys(s)
  OBVIOUS
<1>2. PICK v : v = Replenished(u)
  OBVIOUS
<1>3. PICK t : t = Overlap(Rotated(v, since))
  OBVIOUS
<1>4. PICK first : first = IF s.signed = {} THEN {1} ELSE s.signed
  OBVIOUS
<1>5. u \in Store /\ StoreOk(u) /\ Grown(s, u) /\ u.signed = first
  BY <1>1, <1>4, WithFirstKeysOk
<1>6. v \in Store /\ StoreOk(v) /\ Grown(u, v) /\ v.signed = first
  BY <1>2, <1>5, ReplenishedOk
<1>7. first # {}
  BY <1>4
<1>8. /\ t \in Store /\ StoreOk(t) /\ Grown(v, t)
      /\ t.signed = IF RotationDue(since) THEN {Newest(first), Newest(first) + 1} ELSE first
  BY <1>3, <1>6, <1>7, SignedAfter
<1>9. Grown(s, t)
  BY <1>5, <1>6, <1>8, GrownTwice
<1>10. Maintained(s, since) = t
  BY <1>1, <1>2, <1>3 DEF Maintained
<1>11. ASSUME t = s, RotationDue(since)
       PROVE  FALSE
  <2>1. t.signed = {Newest(first), Newest(first) + 1} /\ first = t.signed
    BY <1>4, <1>8, <1>11
  <2>2. first \in SUBSET Nat /\ SignedOk(first)
    BY <1>6 DEF Store, StoreOk
  <2>3. Newest(first) \in Nat /\ \A l \in first : l <= Newest(first)
    BY <1>7, <2>2, NewestOk
  <2> QED
    BY <2>1, <2>3
<1>12. t.signed # {}
  BY <1>7, <1>8
<1>13. t.signed = SignedNext(s.signed, since)
  BY <1>4, <1>8 DEF SignedNext
<1> QED
  BY <1>8, <1>9, <1>10, <1>11, <1>12, <1>13 DEF IsMaintained

-----------------------------------------------------------------------------
(* The number of a handshake this device starts is in no session and no    *)
(* ciphertext.                                                             *)
LEMMA NewLineOk ==
  ASSUME TypeOK, Shape
  PROVE  /\ NewLine \in Nat
         /\ \A o \in out : o.line.no # NewLine
         /\ \A p \in Peer : \A l \in disk.session[p].lines \cup mem.session[p].lines : l.no # NewLine
<1>1. PICK O : O = {o.line : o \in out}
  OBVIOUS
<1>2. IsFiniteSet(O) /\ O \in SUBSET Line
  <2>1. [o \in out |-> o.line] \in Surjection(out, O)
    BY <1>1 DEF Surjection
  <2>2. IsFiniteSet(out)
    BY DEF Shape
  <2> QED
    BY <2>1, <2>2, <1>1, FS_Surjection DEF TypeOK
<1>3. PICK D : D = [p \in Peer |-> disk.session[p].lines \cup mem.session[p].lines]
  OBVIOUS
<1>4. PICK U : U = {D[p] : p \in Peer}
  OBVIOUS
<1>5. \A T \in U : IsFiniteSet(T) /\ T \in SUBSET Line
  <2>1. ASSUME NEW p \in Peer
        PROVE  IsFiniteSet(D[p]) /\ D[p] \in SUBSET Line
    <3>1. IsFiniteSet(disk.session[p].lines) /\ IsFiniteSet(mem.session[p].lines)
      BY DEF Shape, StoreOk, SessionOk
    <3>2. IsFiniteSet(disk.session[p].lines \cup mem.session[p].lines)
      BY <3>1, FS_Union
    <3>3. disk.session[p] \in Session /\ mem.session[p] \in Session
      BY DEF TypeOK, Store
    <3> QED
      BY <1>3, <3>2, <3>3 DEF Session
  <2> QED
    BY <1>4, <2>1
<1>6. IsFiniteSet(U)
  <2>1. D \in Surjection(Peer, U)
    BY <1>3, <1>4 DEF Surjection
  <2> QED
    BY <2>1, StoreAssumption, FS_Surjection
<1>7. IsFiniteSet(UNION U) /\ UNION U \in SUBSET Line
  BY <1>5, <1>6, FS_UNION
<1>8. PICK L : L = O \cup UNION U
  OBVIOUS
<1>9. IsFiniteSet(L) /\ L \in SUBSET Line
  BY <1>2, <1>7, <1>8, FS_Union
<1>10. PICK N : N = {l.no : l \in L}
  OBVIOUS
<1>11. IsFiniteSet(N) /\ N \in SUBSET Nat
  <2>1. [l \in L |-> l.no] \in Surjection(L, N)
    BY <1>10 DEF Surjection
  <2> QED
    BY <2>1, <1>9, <1>10, FS_Surjection DEF Line
<1>12. NewLine = CHOOSE n \in Fresh(N, 1) : TRUE
  <2>1. UNION U = UNION {disk.session[p].lines \cup mem.session[p].lines : p \in Peer}
    BY <1>3, <1>4
  <2> QED
    BY <1>1, <1>8, <1>10, <2>1 DEF NewLine
<1>13. Fresh(N, 1) \in SUBSET Nat /\ Fresh(N, 1) \cap N = {}
  BY <1>11, FreshNumbers
<1>14. NewLine \in Fresh(N, 1)
  BY <1>11, <1>12, FreshNumber
<1>15. NewLine \in Nat /\ NewLine \notin N
  BY <1>13, <1>14
<1>16. \A o \in out : o.line \in L
  BY <1>1, <1>8
<1>17. \A p \in Peer : \A l \in disk.session[p].lines \cup mem.session[p].lines : l \in L
  BY <1>3, <1>4, <1>8
<1> QED
  BY <1>10, <1>15, <1>16, <1>17

(* encrypt_for on a loaded store. *)
Enciphered(s, p, g) ==
  [s EXCEPT !.session[p] = CountedIn(SessionFor(@, g))]

OwnLine(g) == [gen |-> g, bundle |-> None, no |-> NewLine]

(* t is s with one more ciphertext for p. *)
IsEnciphered(s, p, g, t) ==
  /\ t \in Store /\ StoreOk(t)
  /\ t.own = s.own /\ t.prekeys = s.prekeys /\ t.signed = s.signed
  /\ t.trusted = s.trusted
  /\ \A q \in Peer : q # p => t.session[q] = s.session[q]
  /\ Exists(t.session[p]) /\ t.session[p].got = s.session[p].got
  /\ t.session[p].made = s.session[p].made + 1
  /\ Exists(s.session[p]) => /\ t.session[p].lines = s.session[p].lines
                             /\ t.session[p].cur = s.session[p].cur
  /\ ~Exists(s.session[p]) => /\ t.session[p].lines = {OwnLine(g)}
                              /\ t.session[p].cur = OwnLine(g)

LEMMA EncipheredOk ==
  ASSUME NewLine \in Nat, NEW s \in Store, StoreOk(s), NEW p \in Peer, NEW g \in Nat
  PROVE  IsEnciphered(s, p, g, Enciphered(s, p, g))
<1>1. PICK x \in Session : x = s.session[p] /\ SessionOk(x)
  BY DEF Store, StoreOk
<1>2. PICK l \in Line : l = OwnLine(g)
  BY DEF OwnLine, Line
<1>3. PICK z : z = SessionFor(x, g)
  OBVIOUS
<1>4. /\ z \in Session /\ SessionOk(z) /\ Exists(z) /\ z.got = x.got /\ z.made = x.made
      /\ Exists(x) => z = x
      /\ ~Exists(x) => z.lines = {l} /\ z.cur = l
  <2>1. CASE Exists(x)
    BY <1>1, <1>3, <2>1 DEF SessionFor
  <2>2. CASE ~Exists(x)
    <3>1. x = NoSession
      BY <1>1, <2>2 DEF SessionOk, Exists
    <3>2. z = [NoSession EXCEPT !.lines = {l}, !.cur = l]
      BY <1>2, <1>3, <2>2 DEF SessionFor, OwnLine
    <3>3. z.lines = {l} /\ z.cur = l /\ z.got = {} /\ z.made = 0 /\ z \in Session
      BY <3>2 DEF NoSession, Session
    <3> QED
      BY <2>2, <3>1, <3>3, NoSessionOk, FS_Singleton DEF SessionOk, Exists
  <2> QED
    BY <2>1, <2>2
<1>5. PICK y : y = [z EXCEPT !.made = z.made + 1]
  OBVIOUS
<1>6. /\ y \in Session /\ y.lines = z.lines /\ y.cur = z.cur /\ y.got = z.got
      /\ z.made \in Nat /\ y.made = z.made + 1
  BY <1>4, <1>5 DEF Session
<1>7. SessionOk(y) /\ Exists(y)
  BY <1>4, <1>6 DEF SessionOk, Exists
<1>8. PICK t : t = [s EXCEPT !.session[p] = y]
  OBVIOUS
<1>9. Enciphered(s, p, g) = t
  <2>1. y = CountedIn(SessionFor(s.session[p], g))
    BY <1>1, <1>3, <1>5 DEF CountedIn
  <2> QED
    BY <2>1, <1>8 DEF Enciphered
<1>10. /\ t.own = s.own /\ t.prekeys = s.prekeys /\ t.signed = s.signed
       /\ t.trusted = s.trusted /\ t.session = [s.session EXCEPT ![p] = y] /\ t \in Store
  BY <1>6, <1>8 DEF Store
<1>11. t.session[p] = y /\ \A q \in Peer : q # p => t.session[q] = s.session[q]
  BY <1>10 DEF Store
<1>12. StoreOk(t)
  BY <1>7, <1>10, <1>11 DEF StoreOk
<1> QED
  <2>1. /\ Exists(x) => t.session[p].lines = x.lines /\ t.session[p].cur = x.cur
        /\ ~Exists(x) => t.session[p].lines = {OwnLine(g)} /\ t.session[p].cur = OwnLine(g)
    BY <1>2, <1>4, <1>6, <1>11
  <2>2. /\ Exists(t.session[p]) /\ t.session[p].got = x.got
        /\ t.session[p].made = x.made + 1
    BY <1>4, <1>6, <1>7, <1>11
  <2> QED
    BY <2>1, <2>2, <1>1, <1>9, <1>10, <1>11, <1>12 DEF IsEnciphered

(* t is s after message_decrypt of m, written by p in the line l. *)
IsOpened(s, m, p, l, t) ==
  /\ t \in Store /\ StoreOk(t)
  /\ t.own = s.own /\ t.signed = s.signed /\ t.trusted = s.trusted
  /\ t.prekeys = IF l \in s.session[p].lines THEN s.prekeys ELSE s.prekeys \ {l.bundle.key}
  /\ \A q \in Peer : q # p => t.session[q] = s.session[q]
  /\ t.session[p].lines = s.session[p].lines \cup {l} /\ t.session[p].cur = l
  /\ t.session[p].made = s.session[p].made /\ t.session[p].got = s.session[p].got \cup {m}

LEMMA AfterOpeningOk ==
  ASSUME NEW s \in Store, StoreOk(s), NEW m \in Msg, NEW p \in Peer, NEW l \in Line,
         mail[m].peer = p, mail[m].line = l
  PROVE  IsOpened(s, m, p, l, AfterOpening(s, m))
<1>1. PICK x \in Session : x = s.session[p] /\ SessionOk(x)
  BY DEF Store, StoreOk
<1>2. PICK y : y = [x EXCEPT !.lines = x.lines \cup {l}, !.cur = l, !.got = x.got \cup {m}]
  OBVIOUS
<1>3. /\ y \in Session /\ y.lines = x.lines \cup {l} /\ y.cur = l
      /\ y.made = x.made /\ y.got = x.got \cup {m}
  BY <1>2 DEF Session
<1>4. SessionOk(y)
  <2>1. IsFiniteSet(x.lines \cup {l})
    BY <1>1, FS_AddElement DEF SessionOk
  <2> QED
    BY <1>3, <2>1 DEF SessionOk
<1>5. PICK K : K = IF l \in x.lines THEN s.prekeys ELSE s.prekeys \ {l.bundle.key}
  OBVIOUS
<1>6. K \in SUBSET Nat /\ IsFiniteSet(K) /\ 0 \notin K
  <2>1. K \in SUBSET s.prekeys /\ IsFiniteSet(s.prekeys) /\ 0 \notin s.prekeys
    BY <1>5 DEF StoreOk
  <2> QED
    BY <2>1, FS_Subset DEF Store
<1>7. PICK t : t = [s EXCEPT !.prekeys = K, !.session[p] = y]
  OBVIOUS
<1>8. AfterOpening(s, m) = t
  <2>1. y = OpenedIn(s.session[p], m)
    BY <1>1, <1>2 DEF OpenedIn
  <2> QED
    BY <1>1, <1>5, <1>7, <2>1 DEF AfterOpening, KnownLine
<1>9. /\ t.own = s.own /\ t.signed = s.signed /\ t.trusted = s.trusted
      /\ t.prekeys = K /\ t.session = [s.session EXCEPT ![p] = y] /\ t \in Store
  BY <1>3, <1>6, <1>7 DEF Store
<1>10. t.session[p] = y /\ \A q \in Peer : q # p => t.session[q] = s.session[q]
  BY <1>9 DEF Store
<1>11. StoreOk(t)
  BY <1>4, <1>6, <1>9, <1>10 DEF StoreOk
<1> QED
  BY <1>1, <1>3, <1>5, <1>8, <1>9, <1>10, <1>11 DEF IsOpened

-----------------------------------------------------------------------------
(* The inductive invariant. *)

(* Every handshake is this device's own or made of a bundle it gave away. *)
Known(l) == l.bundle \in given \cup {None}

LinesKnown ==
  /\ \A p \in Peer : \A l \in disk.session[p].lines \cup mem.session[p].lines : Known(l)
  /\ \A o \in out : Known(o.line)
  /\ \A m \in Msg : mail[m] # None => Known(mail[m].line)

(* A loaded session is the one on disk or a later state of it. *)
Ahead(p) ==
  Exists(mem.session[p]) =>
    /\ disk.session[p].lines \subseteq mem.session[p].lines
    /\ disk.session[p].made <= mem.session[p].made
    /\ disk.session[p].got \subseteq mem.session[p].got

MemoryAhead == \A p \in Peer : Ahead(p)

(* The one-time prekey of a handshake that was used is gone. *)
Spent(l, s) == l.bundle # None => l.bundle.key \notin s.prekeys

SpentOk ==
  /\ \A p \in Peer :
       /\ \A l \in disk.session[p].lines : Spent(l, disk) /\ Spent(l, mem)
       /\ \A l \in mem.session[p].lines : Spent(l, mem)
  /\ \A o \in out : Spent(o.line, disk) /\ Spent(o.line, mem)
  /\ \A m \in seen : Spent(mail[m].line, disk) /\ Spent(mail[m].line, mem)

(* A session counts the ciphertexts that were returned in it. *)
Counts(s) ==
  \A o \in out : o.line \in s.session[o.peer].lines => o.no <= s.session[o.peer].made

MadeOk == Counts(disk) /\ Counts(mem) /\ FreshCiphertext

(* A session knows the messages whose plaintext was returned. *)
Got(s) ==
  \A m \in seen :
    /\ mail[m] # None
    /\ mail[m].line \in s.session[mail[m].peer].lines => m \in s.session[mail[m].peer].got

Lost == "unsaved" \in cut
Opening(m) == job.op = "decrypt" /\ job.msg = m

GotOk ==
  /\ Got(disk) /\ Got(mem)
  /\ \/ Lost
     \/ \A p \in Peer : /\ disk.session[p].got \subseteq seen
                        /\ \A m \in mem.session[p].got : m \in seen \/ Opening(m)
  /\ StaleWasRead

(* Only verified identities are trusted. *)
TrustOk == \A p \in Peer : disk.trusted[p] \cup mem.trusted[p] \subseteq verified[p]

RecordOk ==
  "replacement" \notin cut =>
    1 .. (IF job.op = "replace" THEN disk.own - 1 ELSE disk.own) \subseteq recovery

(* Where the running operation stands, and what it has done so far. *)
ClockOk == 1 <= month /\ created <= month

Keying ==
  job.op \in {"export", "encrypt", "decrypt", "replace"} =>
    /\ job.at \in {"keys", "rotation", "work"} \/ AtStep({"encrypt"}, "persist")
    /\ mem.signed # {}
    /\ job.at = "work" => created = month
    /\ job.at = "rotation" => mem.signed = disk.signed /\ created < month

Stages ==
  /\ job.op = "none" => job = NoJob
  /\ job.op = "trust" => job.at \in {"row", "persist"}
  /\ job.op = "accept" => job.at \in {"session", "row", "record", "persist"}
  /\ job.op = "revoke" => job.at \in {"session", "identity", "row"}
  /\ job.op \in {"encrypt", "decrypt", "trust", "accept", "revoke"} => job.peer \in Peer
  /\ job.op \in {"trust", "accept"} => mem.trusted[job.peer] = {job.gen}
  /\ AtStep({"revoke"}, "row") => disk.trusted[job.peer] = {}

(* The disk trusts no other identity of p than the memory does. *)
SameTrust(p) == disk.trusted[p] # {} => disk.trusted[p] = mem.trusted[p]

Enciphering ==
  AtStep({"encrypt"}, "persist") =>
    /\ Exists(mem.session[job.peer])
    /\ mem.trusted[job.peer] = {mem.session[job.peer].cur.gen}
    /\ SameTrust(job.peer)

Deciphering ==
  job.op = "decrypt" =>
    /\ job.msg \in Msg /\ job.msg \notin seen
    /\ mail[job.msg] # None /\ mail[job.msg].peer = job.peer
    /\ mail[job.msg].line \in mem.session[job.peer].lines
    /\ job.msg \in mem.session[job.peer].got
    /\ mem.trusted[job.peer] = {mail[job.msg].line.gen}
    /\ SameTrust(job.peer)

(* What every step needs to know of the state it starts in. *)
Sound == TypeOK /\ Shape /\ ClockOk /\ Keying /\ Stages /\ Enciphering /\ Deciphering

-----------------------------------------------------------------------------
(* What the parts of the actions leave. *)
LEMMA GotoOk ==
  ASSUME TypeOK, NEW a \in At, Goto(a)
  PROVE  /\ job' \in Job /\ job'.op = job.op /\ job'.at = a
         /\ job'.peer = job.peer /\ job'.gen = job.gen /\ job'.msg = job.msg
BY DEF TypeOK, Goto, Job

LEMMA ReturnOk ==
  ASSUME Return
  PROVE  job' = NoJob /\ job' \in Job /\ job'.op = "none" /\ job'.at = "idle"
BY DEF Return, NoJob, Job, Op, At

LEMMA IdleOk ==
  ASSUME Idle
  PROVE  job.op = "none" /\ job.at = "idle"
BY DEF Idle, NoJob

LEMMA LetterOk ==
  ASSUME TypeOK, NEW m \in Msg, mail[m] # None
  PROVE  /\ mail[m].peer \in Peer /\ mail[m].line \in Line
         /\ mail[m] = [peer |-> mail[m].peer, line |-> mail[m].line]
BY DEF TypeOK, Letter

(* A store s was maintained at the start of the operation j. *)
Maintains(j, s, since) ==
  /\ IsMaintained(s, since, mem')
  /\ job' \in Job /\ job'.op = j.op /\ job'.peer = j.peer /\ job'.gen = j.gen
  /\ job'.msg = j.msg
  /\ job'.at \in {"work", "keys"}
  /\ job'.at = "work" => mem' = s

LEMMA MaintainOk ==
  ASSUME TypeOK, Shape, NEW s \in Store, StoreOk(s), NEW since \in Nat, NEW j \in Job,
         Maintain(j, s, since)
  PROVE  Maintains(j, s, since)
<1>1. PICK t : t = Maintained(s, since)
  OBVIOUS
<1>2. /\ disk \in Store /\ StoreOk(disk) /\ mem \in Store /\ StoreOk(mem)
      /\ given \subseteq Bundle /\ IsFiniteSet(given) /\ month \in Nat
  BY DEF TypeOK, Shape
<1>3. IsMaintained(s, since, t)
  BY <1>1, <1>2, MaintainedOk
<1>4. mem' = t /\ job' = [j EXCEPT !.at = IF t = s THEN "work" ELSE "keys"]
  BY <1>1 DEF Maintain
<1>5. /\ job' \in Job /\ job'.op = j.op /\ job'.peer = j.peer /\ job'.gen = j.gen
      /\ job'.msg = j.msg
      /\ job'.at = IF t = s THEN "work" ELSE "keys"
  BY <1>4 DEF Job, At
<1> QED
  BY <1>3, <1>4, <1>5 DEF Maintains

(* load_peer on the memory. *)
LoadedSession(p) == IF Exists(disk.session[p]) THEN disk.session[p] ELSE mem.session[p]
LoadedTrust(p) == IF disk.trusted[p] # {} THEN disk.trusted[p] ELSE mem.trusted[p]

LEMMA LoadedOk ==
  ASSUME TypeOK, Shape, NEW p \in Peer
  PROVE  IsLoaded(mem, p, LoadPeer(mem, p))
<1>1. disk \in Store /\ StoreOk(disk) /\ mem \in Store /\ StoreOk(mem)
  BY DEF TypeOK, Shape
<1> QED
  BY <1>1, LoadPeerOk

(* The memory now knows p as the disk does, or as before. *)
Loads(p) ==
  /\ mem' \in Store /\ StoreOk(mem')
  /\ mem'.own = mem.own /\ mem'.prekeys = mem.prekeys /\ mem'.signed = mem.signed
  /\ mem'.trusted[p] = LoadedTrust(p)
  /\ \A q \in Peer : q # p => /\ mem'.session[q] = mem.session[q]
                              /\ mem'.trusted[q] = mem.trusted[q]

(* Encipher made a ciphertext. *)
Enciphers(p) ==
  /\ Loads(p)
  /\ Exists(mem'.session[p]) /\ mem'.session[p].got = LoadedSession(p).got
  /\ mem'.session[p].made = LoadedSession(p).made + 1
  /\ \/ /\ Exists(LoadedSession(p)) /\ mem'.session[p].lines = LoadedSession(p).lines
        /\ mem'.session[p].cur = LoadedSession(p).cur
     \/ /\ ~Exists(LoadedSession(p)) /\ mem'.session[p].lines = {OwnLine(job.gen)}
        /\ mem'.session[p].cur = OwnLine(job.gen)
  /\ mem'.trusted[p] = {job.gen} /\ mem'.session[p].cur.gen = job.gen

LEMMA EncipherOk ==
  ASSUME Sound, Encipher
  PROVE  LET p == job.peer
         IN  /\ AtStep({"encrypt"}, "work") /\ p \in Peer
             /\ \/ Loads(p) /\ mem'.session[p] = LoadedSession(p) /\ Return
                \/ Enciphers(p) /\ Goto("persist")
<1>1. AtStep({"encrypt"}, "work") /\ job.op = "encrypt"
  BY DEF Encipher, AtStep
<1>2. PICK p \in Peer : p = job.peer
  BY <1>1 DEF Sound, Stages
<1>3. PICK s : s = LoadPeer(mem, p)
  OBVIOUS
<1>4. IsLoaded(mem, p, s)
  BY <1>3, LoadedOk DEF Sound
<1>5. /\ s \in Store /\ StoreOk(s)
      /\ s.own = mem.own /\ s.prekeys = mem.prekeys /\ s.signed = mem.signed
      /\ s.session[p] = LoadedSession(p) /\ s.trusted[p] = LoadedTrust(p)
      /\ \A q \in Peer : q # p => /\ s.session[q] = mem.session[q]
                                  /\ s.trusted[q] = mem.trusted[q]
  BY <1>4 DEF IsLoaded, LoadedSession, LoadedTrust
<1>6. \/ mem' = s /\ Return
      \/ Sendable(s, p, job.gen) /\ mem' = Enciphered(s, p, job.gen) /\ Goto("persist")
  BY <1>2, <1>3 DEF Encipher, Enciphered
<1>7. CASE mem' = s /\ Return
  BY <1>1, <1>2, <1>5, <1>7 DEF Loads
<1>8. CASE Sendable(s, p, job.gen) /\ mem' = Enciphered(s, p, job.gen) /\ Goto("persist")
  <2>1. PICK g \in Nat : g = job.gen
    BY DEF Sound, TypeOK, Job
  <2>2. NewLine \in Nat
    BY NewLineOk DEF Sound
  <2>3. PICK t : t = Enciphered(s, p, g)
    OBVIOUS
  <2>4. /\ t \in Store /\ StoreOk(t)
        /\ t.own = s.own /\ t.prekeys = s.prekeys /\ t.signed = s.signed
        /\ t.trusted = s.trusted
        /\ \A q \in Peer : q # p => t.session[q] = s.session[q]
        /\ Exists(t.session[p]) /\ t.session[p].got = s.session[p].got
        /\ t.session[p].made = s.session[p].made + 1
        /\ Exists(s.session[p]) => /\ t.session[p].lines = s.session[p].lines
                                   /\ t.session[p].cur = s.session[p].cur
        /\ ~Exists(s.session[p]) => /\ t.session[p].lines = {OwnLine(g)}
                                    /\ t.session[p].cur = OwnLine(g)
    <3>1. s \in Store /\ StoreOk(s)
      BY <1>5
    <3>2. IsEnciphered(s, p, g, t)
      BY <3>1, <2>2, <2>3, EncipheredOk
    <3> QED
      BY <3>2 DEF IsEnciphered
  <2>5. s.trusted[p] = {g} /\ (Exists(s.session[p]) => s.session[p].cur.gen = g)
    BY <1>8, <2>1 DEF Sendable
  <2>6. OwnLine(g).gen = g
    BY DEF OwnLine
  <2>7. mem' = t
    BY <1>8, <2>1, <2>3
  <2>8. Enciphers(p)
    BY <1>5, <2>1, <2>4, <2>5, <2>6, <2>7 DEF Enciphers, Loads
  <2> QED
    BY <1>1, <1>2, <1>8, <2>8
<1> QED
  BY <1>6, <1>7, <1>8

(* Decrypt(m) opened m, and the keys were maintained. *)
Deciphers(p, m) ==
  /\ mem' \in Store /\ StoreOk(mem') /\ mem'.own = mem.own
  /\ mem'.trusted[p] = LoadedTrust(p) /\ LoadedTrust(p) = {mail[m].line.gen}
  /\ \A q \in Peer : q # p => /\ mem'.session[q] = mem.session[q]
                              /\ mem'.trusted[q] = mem.trusted[q]
  /\ mem'.session[p].lines = LoadedSession(p).lines \cup {mail[m].line}
  /\ mem'.session[p].made = LoadedSession(p).made
  /\ mem'.session[p].got = LoadedSession(p).got \cup {m}
  /\ m \notin LoadedSession(p).got \/ mail[m].line \notin LoadedSession(p).lines

(* The prekeys and the job that Decrypt(m) leaves. *)
Rekeys(p, m, l) ==
  /\ \/ l \in LoadedSession(p).lines /\ mem.prekeys \subseteq mem'.prekeys
     \/ /\ l \notin LoadedSession(p).lines /\ l.bundle # None
        /\ l.bundle.own = mem.own /\ l.bundle.signed \in mem.signed
        /\ l.bundle.key \in mem.prekeys /\ l.bundle.key \notin mem'.prekeys
        /\ mem.prekeys \ {l.bundle.key} \subseteq mem'.prekeys
  /\ \A k \in mem'.prekeys \ mem.prekeys : k \notin disk.prekeys /\ \A b \in given : b.key # k
  /\ mem'.signed # {} /\ mem'.signed = SignedNext(mem.signed, created)
  /\ job' \in Job /\ job'.op = "decrypt" /\ job'.peer = p /\ job'.msg = m
  /\ job'.at \in {"work", "keys"}
  /\ job'.at = "work" => mem'.signed = mem.signed /\ ~RotationDue(created)

LEMMA DecryptOk ==
  ASSUME Sound, NEW m \in Msg, Decrypt(m)
  PROVE  /\ Idle /\ mail[m] # None /\ m \notin dropped
         /\ mail[m].peer \in Peer /\ mail[m].line \in Line
         /\ Deciphers(mail[m].peer, m) /\ Rekeys(mail[m].peer, m, mail[m].line)
<1>1. Idle /\ mail[m] # None /\ m \notin dropped
  BY DEF Decrypt, Waiting
<1>2. PICK p \in Peer : p = mail[m].peer
  BY <1>1, LetterOk DEF Sound
<1>3. PICK l \in Line : l = mail[m].line
  BY <1>1, LetterOk DEF Sound
<1>4. PICK s : s = LoadPeer(mem, p)
  OBVIOUS
<1>5. IsLoaded(mem, p, s)
  BY <1>4, LoadedOk DEF Sound
<1>6. /\ s \in Store /\ StoreOk(s)
      /\ s.own = mem.own /\ s.prekeys = mem.prekeys /\ s.signed = mem.signed
      /\ s.session[p] = LoadedSession(p) /\ s.trusted[p] = LoadedTrust(p)
      /\ \A q \in Peer : q # p => /\ s.session[q] = mem.session[q]
                                  /\ s.trusted[q] = mem.trusted[q]
  BY <1>5 DEF IsLoaded, LoadedSession, LoadedTrust
<1>7. PICK u : u = AfterOpening(s, m)
  OBVIOUS
<1>8. /\ u \in Store /\ StoreOk(u)
      /\ u.own = s.own /\ u.signed = s.signed /\ u.trusted = s.trusted
      /\ u.prekeys = (IF l \in s.session[p].lines THEN s.prekeys
                      ELSE s.prekeys \ {l.bundle.key})
      /\ \A q \in Peer : q # p => u.session[q] = s.session[q]
      /\ u.session[p].lines = s.session[p].lines \cup {l}
      /\ u.session[p].made = s.session[p].made /\ u.session[p].got = s.session[p].got \cup {m}
  <2>1. s \in Store /\ StoreOk(s)
    BY <1>6
  <2> QED
    <3>1. mail[m].peer = p /\ mail[m].line = l
      BY <1>2, <1>3
    <3>2. IsOpened(s, m, p, l, u)
      BY <1>7, <2>1, <3>1, AfterOpeningOk
    <3> QED
      BY <3>2 DEF IsOpened
<1>9. PICK j \in Job : /\ j = NewJob("decrypt", "work", p, 0, m)
                       /\ j.op = "decrypt" /\ j.peer = p /\ j.msg = m
  <2>1. PICK j : j = NewJob("decrypt", "work", p, 0, m)
    OBVIOUS
  <2>2. j \in Job /\ j.op = "decrypt" /\ j.peer = p /\ j.msg = m
    BY <2>1 DEF NewJob, Job, Op, At
  <2> QED
    BY <2>1, <2>2
<1>10. Maintain(j, u, created) /\ Opens(s, m)
  BY <1>2, <1>4, <1>7, <1>9 DEF Decrypt
<1>11. TypeOK /\ Shape /\ created \in Nat /\ u \in Store /\ StoreOk(u)
  BY <1>8 DEF Sound, TypeOK
<1>12. Maintains(j, u, created)
  BY <1>10, <1>11, MaintainOk
<1>13. /\ mem' \in Store /\ StoreOk(mem') /\ Grown(u, mem') /\ mem'.signed # {}
       /\ mem'.signed = SignedNext(u.signed, created)
       /\ mem' = u => ~RotationDue(created)
       /\ job' \in Job /\ job'.op = j.op /\ job'.peer = j.peer /\ job'.gen = j.gen
       /\ job'.msg = j.msg
       /\ job'.at \in {"work", "keys"}
       /\ job'.at = "work" => mem' = u
  BY <1>12 DEF Maintains, IsMaintained
<1>14. PICK t : t = mem'
  OBVIOUS
<1>15. /\ t.own = u.own /\ t.session = u.session /\ t.trusted = u.trusted
       /\ u.prekeys \subseteq t.prekeys
       /\ \A k \in t.prekeys \ u.prekeys :
            k \notin disk.prekeys \cup mem.prekeys /\ \A b \in given : b.key # k
  BY <1>13, <1>14 DEF Grown
<1>16. /\ s.trusted[p] = {l.gen}
       /\ \/ l \in s.session[p].lines /\ m \notin s.session[p].got
          \/ Handshake(s, m)
  BY <1>2, <1>3, <1>10 DEF Opens, Trusted, KnownLine
<1>17. Handshake(s, m) => /\ l \notin s.session[p].lines /\ l.bundle # None
                          /\ l.bundle.own = s.own
                          /\ l.bundle.key \in s.prekeys /\ l.bundle.signed \in s.signed
  BY <1>2, <1>3 DEF Handshake, KnownLine
<1>18. Deciphers(p, m)
  <2>1. /\ t.session[p].lines = LoadedSession(p).lines \cup {l}
        /\ t.session[p].made = LoadedSession(p).made
        /\ t.session[p].got = LoadedSession(p).got \cup {m}
        /\ t.trusted[p] = LoadedTrust(p) /\ t.own = mem.own
    BY <1>6, <1>8, <1>15
  <2>2. \A q \in Peer : q # p => /\ t.session[q] = mem.session[q]
                                 /\ t.trusted[q] = mem.trusted[q]
    BY <1>6, <1>8, <1>15
  <2>3. LoadedTrust(p) = {l.gen}
        /\ (m \notin LoadedSession(p).got \/ l \notin LoadedSession(p).lines)
    BY <1>6, <1>16, <1>17
  <2>4. t \in Store /\ StoreOk(t)
    BY <1>13, <1>14
  <2> QED
    BY <2>1, <2>2, <2>3, <2>4, <1>3, <1>14 DEF Deciphers
<1>19. Rekeys(p, m, l)
  <2>1. \/ l \in LoadedSession(p).lines /\ mem.prekeys \subseteq t.prekeys
        \/ /\ l \notin LoadedSession(p).lines /\ l.bundle # None
           /\ l.bundle.own = mem.own /\ l.bundle.signed \in mem.signed
           /\ l.bundle.key \in mem.prekeys /\ l.bundle.key \notin t.prekeys
           /\ mem.prekeys \ {l.bundle.key} \subseteq t.prekeys
    <3>1. CASE l \in s.session[p].lines
      BY <3>1, <1>6, <1>8, <1>15
    <3>2. CASE l \notin s.session[p].lines
      BY <3>2, <1>6, <1>8, <1>15, <1>16, <1>17
    <3> QED
      BY <3>1, <3>2
  <2>2. \A k \in t.prekeys \ mem.prekeys : k \notin disk.prekeys /\ \A b \in given : b.key # k
    <3>1. u.prekeys \subseteq mem.prekeys
      BY <1>6, <1>8
    <3> QED
      BY <3>1, <1>15
  <2>3. u.signed = mem.signed
    BY <1>6, <1>8
  <2>4. t.signed # {} /\ t.signed = SignedNext(mem.signed, created)
    BY <2>3, <1>13, <1>14
  <2>5. /\ job' \in Job /\ job'.op = "decrypt" /\ job'.peer = p /\ job'.msg = m
        /\ job'.at \in {"work", "keys"}
        /\ job'.at = "work" => t.signed = mem.signed /\ ~RotationDue(created)
    BY <2>3, <1>9, <1>13, <1>14
  <2> QED
    BY <2>1, <2>2, <2>4, <2>5, <1>14 DEF Rekeys
<1> QED
  BY <1>1, <1>2, <1>3, <1>18, <1>19

(* persist_peer at the end of an operation on p. *)
Persists(p) ==
  /\ disk' \in Store /\ StoreOk(disk')
  /\ disk'.own = mem.own /\ disk'.prekeys = mem.prekeys /\ disk'.signed = mem.signed
  /\ disk'.session[p] = IF Exists(mem.session[p]) THEN mem.session[p] ELSE disk.session[p]
  /\ disk'.trusted[p] = IF mem.trusted[p] # {} THEN mem.trusted[p] ELSE disk.trusted[p]
  /\ \A q \in Peer : q # p => /\ disk'.session[q] = disk.session[q]
                              /\ disk'.trusted[q] = disk.trusted[q]

LEMMA PersistsOk ==
  ASSUME TypeOK, Shape, NEW p \in Peer, disk' = Persisted(disk, mem, p)
  PROVE  Persists(p)
<1>1. PICK d \in Store : d = disk /\ StoreOk(d)
  BY DEF TypeOK, Shape
<1>2. PICK s \in Store : s = mem /\ StoreOk(s)
  BY DEF TypeOK, Shape
<1>3. PICK t : t = Persisted(d, s, p)
  OBVIOUS
<1>4. IsPersisted(d, s, p, t)
  BY <1>1, <1>2, <1>3, PersistedOk
<1>5. disk' = t
  BY <1>1, <1>2, <1>3
<1> QED
  BY <1>1, <1>2, <1>4, <1>5 DEF Persists, IsPersisted

(* The memory starts again from the database. *)
Restarts ==
  /\ mem' \in Store /\ StoreOk(mem')
  /\ mem'.own = disk'.own /\ mem'.prekeys = disk'.prekeys /\ mem'.signed = disk'.signed
  /\ \A p \in Peer : mem'.session[p] = NoSession /\ mem'.trusted[p] = {}

LEMMA RestartsOk ==
  ASSUME disk' \in Store, StoreOk(disk'), mem' = Opened(disk')
  PROVE  Restarts
<1>1. PICK d : d = disk'
  OBVIOUS
<1>2. PICK t : t = Opened(d)
  OBVIOUS
<1>3. /\ t \in Store /\ StoreOk(t)
      /\ t.own = d.own /\ t.prekeys = d.prekeys /\ t.signed = d.signed
      /\ \A p \in Peer : t.session[p] = NoSession /\ t.trusted[p] = {}
  <2>1. d \in Store /\ StoreOk(d)
    BY <1>1
  <2> QED
    BY <1>2, <2>1, OpenedOk
<1>4. disk' = d /\ mem' = t
  BY <1>1, <1>2
<1> QED
  BY <1>3, <1>4 DEF Restarts

-----------------------------------------------------------------------------
(* Types and shape are kept by every step. *)
Quiet ==
  \/ PersistKeys \/ RecordRotation \/ Export \/ HandOut
  \/ (\E p \in Peer : \E g \in 0 .. peerGen[p] : Encrypt(p, g))
  \/ (\E p \in Peer : Revoke(p)) \/ ForgetRevocation \/ AcceptRow \/ AcceptRecord
  \/ RecordReplacement \/ StatementFails
  \/ (\E p \in Peer : PeerReplaces(p)) \/ MonthPasses
  \/ (\E p \in Peer, m \in Msg : PeerWrites(p, m)) \/ UNCHANGED vars

LEMMA NextCases ==
  ASSUME [Next]_vars
  PROVE  \/ Quiet
         \/ Encipher \/ ReturnCiphertext
         \/ (\E m \in Msg : Decrypt(m)) \/ (\E m \in Msg : DecryptErr(m)) \/ ReturnPlaintext
         \/ (\E p \in Peer : Trust(p)) \/ (\E p \in Peer : Accept(p))
         \/ DropSession \/ DropIdentity \/ RevokeRow \/ FinishTrust
         \/ Replace \/ Kill \/ Reopen
BY DEF Next, Quiet, Maintenance, Sending, Receiving, Trusting, Revoking, Replacing, Mishap, Outside

LEMMA BundlesOk ==
  ASSUME TypeOK, Shape, mem.signed # {}, NEW b \in BundlesFrom(mem)
  PROVE  /\ b \in Bundle /\ b.own = disk.own /\ b.key # 0 /\ b.key \in mem.prekeys
         /\ b.signed = Newest(mem.signed) /\ b.signed \in mem.signed /\ b.month = month
<1>1. mem.signed \in SUBSET Nat /\ SignedOk(mem.signed) /\ mem.prekeys \in SUBSET Nat
      /\ 0 \notin mem.prekeys /\ mem.own \in Nat /\ month \in Nat
  BY DEF TypeOK, Store, Shape, StoreOk
<1>2. Newest(mem.signed) \in mem.signed
  BY <1>1, NewestOk
<1>3. PICK k \in mem.prekeys :
        b = [own |-> mem.own, key |-> k, signed |-> Newest(mem.signed), month |-> month]
  BY DEF BundlesFrom
<1> QED
  BY <1>1, <1>2, <1>3 DEF Bundle, Shape

LEMMA QuietTypes ==
  ASSUME Sound, Quiet
  PROVE  TypeOK' /\ Shape'
<1>1. TypeOK /\ Shape
  BY DEF Sound
<1>2. CASE PersistKeys
  <2>1. PICK t : t = WithKeys(disk, mem)
    OBVIOUS
  <2>2. t \in Store /\ StoreOk(t) /\ t.own = mem.own
    BY <2>1, <1>1, WithKeysOk DEF TypeOK, Shape
  <2>3. disk' = t /\ mem' = mem /\ given' = given /\ out' = out
    BY <1>2, <2>1 DEF PersistKeys, record, history
  <2>4. job' \in Job
    <3>1. Goto("rotation") \/ Goto("work")
      BY <1>2 DEF PersistKeys
    <3> QED
      BY <3>1, <1>1, GotoOk DEF At
  <2>5. TypeOK'
    BY <1>1, <1>2, <2>2, <2>3, <2>4 DEF TypeOK, PersistKeys, outside, record, history
  <2>6. Shape'
    BY <1>1, <2>2, <2>3 DEF Shape
  <2> QED
    BY <2>5, <2>6
<1>3. CASE RecordRotation
  <2>1. job' \in Job
    BY <1>1, <1>3, GotoOk DEF RecordRotation, At
  <2> QED
    BY <1>1, <1>3, <2>1 DEF TypeOK, Shape, RecordRotation, outside, record, history
<1>4. ASSUME NEW j \in Job, Maintain(j, mem, created),
             UNCHANGED <<store, outside, history>>, events' \in Nat
      PROVE  TypeOK' /\ Shape'
  <2>1. Maintains(j, mem, created)
    BY <1>1, <1>4, MaintainOk DEF TypeOK, Shape
  <2>2. /\ mem' \in Store /\ StoreOk(mem') /\ mem'.own = mem.own /\ job' \in Job
    BY <2>1 DEF Maintains, IsMaintained, Grown
  <2>3. TypeOK'
    BY <1>1, <1>4, <2>2 DEF TypeOK, store, outside, history
  <2>4. Shape'
    BY <1>1, <1>4, <2>2 DEF Shape, store, history
  <2> QED
    BY <2>3, <2>4
<1>5. CASE Export
  <2>1. PICK j : j = NewJob("export", "work", None, 0, None)
    OBVIOUS
  <2>2. j \in Job
    BY <2>1 DEF NewJob, Job, Op, At
  <2>3. Maintain(j, mem, created) /\ UNCHANGED <<store, outside, history>> /\ events' = events
    BY <1>5, <2>1 DEF Export, record
  <2> QED
    BY <1>1, <1>4, <2>2, <2>3 DEF TypeOK
<1>6. CASE HandOut
  <2>1. given' = given \/ \E b \in BundlesFrom(mem) : given' = given \cup {b}
    BY <1>6 DEF HandOut
  <2>2. mem.signed # {}
    BY <1>6 DEF HandOut, AtStep, Sound, Keying
  <2>3. /\ given' \subseteq Bundle /\ IsFiniteSet(given')
        /\ \A b \in given' : b.own <= disk.own /\ b.key # 0
    <3>1. CASE given' = given
      BY <3>1, <1>1 DEF TypeOK, Shape
    <3>2. ASSUME NEW b \in BundlesFrom(mem), given' = given \cup {b}
          PROVE  /\ given' \subseteq Bundle /\ IsFiniteSet(given')
                 /\ \A c \in given' : c.own <= disk.own /\ c.key # 0
      <4>1. b \in Bundle /\ b.own = disk.own /\ b.key # 0 /\ b.own <= disk.own
        BY <1>1, <2>2, BundlesOk DEF Bundle
      <4>2. IsFiniteSet(given \cup {b})
        BY <1>1, FS_AddElement DEF Shape
      <4> QED
        BY <4>1, <4>2, <3>2, <1>1 DEF TypeOK, Shape
    <3> QED
      BY <2>1, <3>1, <3>2
  <2>4. job' \in Job
    BY <1>6, ReturnOk DEF HandOut
  <2>5. TypeOK'
    BY <1>1, <1>6, <2>3, <2>4 DEF TypeOK, HandOut, store, outside
  <2>6. Shape'
    BY <1>1, <1>6, <2>3 DEF Shape, HandOut, store
  <2> QED
    BY <2>5, <2>6
<1>7. ASSUME NEW p \in Peer, NEW g \in 0 .. peerGen[p], Encrypt(p, g)
      PROVE  TypeOK' /\ Shape'
  <2>1. PICK j : j = NewJob("encrypt", "work", p, g, None)
    OBVIOUS
  <2>2. j \in Job
    BY <2>1 DEF NewJob, Job, Op, At
  <2>3. Maintain(j, mem, created) /\ UNCHANGED <<store, outside, history>> /\ events' = events + 1
    BY <1>7, <2>1 DEF Encrypt, Counted
  <2> QED
    BY <1>1, <1>4, <2>2, <2>3 DEF TypeOK
<1>8. ASSUME NEW p \in Peer, Revoke(p)
      PROVE  TypeOK' /\ Shape'
  <2>1. job' \in Job
    BY <1>8 DEF Revoke, NewJob, Job, Op, At
  <2>2. events' = events + 1
    BY <1>8 DEF Revoke, Counted
  <2> QED
    BY <1>1, <1>8, <2>1, <2>2 DEF TypeOK, Shape, Revoke, store, outside, history
<1>9. CASE ForgetRevocation
  <2>1. job' \in Job
    BY <1>1, <1>9, GotoOk DEF ForgetRevocation, At
  <2>2. revoked' \in [Peer -> RevocationRow]
    BY <1>1, <1>9 DEF ForgetRevocation, TypeOK, RevocationRow
  <2> QED
    BY <1>1, <1>9, <2>1, <2>2 DEF TypeOK, Shape, ForgetRevocation, outside, record, history
<1>10. CASE AcceptRow
  <2>1. job' \in Job
    BY <1>1, <1>10, GotoOk DEF AcceptRow, At
  <2>2. job.gen \in Nat
    BY <1>1 DEF TypeOK, Job
  <2>3. revoked' \in [Peer -> RevocationRow]
    BY <1>1, <1>10, <2>2 DEF AcceptRow, TypeOK, RevocationRow
  <2> QED
    BY <1>1, <1>10, <2>1, <2>3 DEF TypeOK, Shape, AcceptRow, outside, record, history
<1>11. CASE AcceptRecord
  <2>1. job' \in Job
    BY <1>1, <1>11, GotoOk DEF AcceptRecord, At
  <2> QED
    BY <1>1, <1>11, <2>1 DEF TypeOK, Shape, AcceptRecord, store, outside, record, history
<1>12. CASE RecordReplacement
  <2>1. PICK b \in BundlesFrom(mem) : given' = given \cup {b}
    BY <1>12 DEF RecordReplacement
  <2>2. mem.signed # {}
    BY <1>12 DEF RecordReplacement, AtStep, Sound, Keying
  <2>3. b \in Bundle /\ b.own = disk.own /\ b.key # 0 /\ b.own <= disk.own
    BY <1>1, <2>2, BundlesOk DEF Bundle
  <2>4. IsFiniteSet(given \cup {b})
    BY <1>1, FS_AddElement DEF Shape
  <2>5. job' \in Job
    BY <1>12, ReturnOk DEF RecordReplacement
  <2>6. recovery' \subseteq Nat
    <3>1. mem.own \in Nat
      BY <1>1 DEF TypeOK, Store
    <3> QED
      BY <3>1, <1>1, <1>12 DEF RecordReplacement, TypeOK
  <2>7. TypeOK'
    BY <1>1, <1>12, <2>1, <2>3, <2>5, <2>6 DEF TypeOK, RecordReplacement, outside
  <2>8. Shape'
    BY <1>1, <1>12, <2>1, <2>3, <2>4 DEF Shape, RecordReplacement
  <2> QED
    BY <2>7, <2>8
<1>13. CASE StatementFails
  <2>1. job' \in Job
    BY <1>13, ReturnOk DEF StatementFails, Interrupted
  <2>2. events' = events + 1 /\ cut' \subseteq Cuts
    BY <1>1, <1>13 DEF StatementFails, Interrupted, Counted, Undone, TypeOK
  <2> QED
    BY <1>1, <1>13, <2>1, <2>2 DEF TypeOK, Shape, StatementFails, Interrupted, store, outside
<1>14. ASSUME NEW p \in Peer, PeerReplaces(p)
       PROVE  TypeOK' /\ Shape'
  <2>1. events' = events + 1
    BY <1>14 DEF PeerReplaces, Counted
  <2>2. peerGen' \in [Peer -> Nat]
    BY <1>1, <1>14 DEF PeerReplaces, TypeOK
  <2> QED
    BY <1>1, <1>14, <2>1, <2>2 DEF TypeOK, Shape, PeerReplaces, store, history
<1>15. CASE MonthPasses
  <2>1. events' = events + 1
    BY <1>15 DEF MonthPasses, Counted
  <2> QED
    BY <1>1, <1>15, <2>1 DEF TypeOK, Shape, MonthPasses, store, history
<1>16. ASSUME NEW p \in Peer, NEW m \in Msg, PeerWrites(p, m)
       PROVE  TypeOK' /\ Shape'
  <2>1. PICK l \in LinesOf(p) : mail' = [mail EXCEPT ![m] = [peer |-> p, line |-> l]]
    BY <1>16 DEF PeerWrites
  <2>2. l \in Line
    BY <1>1 DEF LinesOf, TypeOK, Line
  <2>3. mail' \in [Msg -> Letter \cup {None}]
    BY <1>1, <2>1, <2>2 DEF TypeOK, Letter
  <2> QED
    BY <1>1, <1>16, <2>3 DEF TypeOK, Shape, PeerWrites, store, record, history
<1>17. CASE UNCHANGED vars
  BY <1>1, <1>17 DEF TypeOK, Shape, vars
<1> QED
  BY <1>2, <1>3, <1>5, <1>6, <1>7, <1>8, <1>9, <1>10, <1>11, <1>12, <1>13, <1>14, <1>15, <1>16, <1>17
  DEF Quiet

(* What the other actions do to the two stores. *)
LEMMA ReturnCiphertextOk ==
  ASSUME Sound, ReturnCiphertext
  PROVE  LET p == job.peer
             x == mem.session[job.peer]
         IN  /\ AtStep({"encrypt"}, "persist") /\ p \in Peer /\ Persists(p)
             /\ Exists(x) /\ x.cur \in x.lines /\ x.cur \in Line /\ x.made \in Nat
             /\ mem.trusted[p] = {x.cur.gen}
             /\ Ciphertext = [peer |-> p, line |-> x.cur, no |-> x.made, own |-> mem.own]
             /\ out' = out \cup {Ciphertext}
<1>1. AtStep({"encrypt"}, "persist") /\ job.op = "encrypt"
  BY DEF ReturnCiphertext, AtStep
<1>2. PICK p \in Peer : p = job.peer
  BY <1>1 DEF Sound, Stages
<1>3. Persists(p)
  BY <1>2, PersistsOk DEF Sound, ReturnCiphertext
<1>4. PICK x \in Session : x = mem.session[p] /\ SessionOk(x)
  BY DEF Sound, TypeOK, Store, Shape, StoreOk
<1>5. Exists(x) /\ mem.trusted[p] = {x.cur.gen}
  BY <1>1, <1>2, <1>4 DEF Sound, Enciphering
<1>6. x.cur \in x.lines /\ x.cur \in Line /\ x.made \in Nat
  BY <1>4, <1>5 DEF SessionOk, Exists, Session
<1>7. Ciphertext = [peer |-> p, line |-> x.cur, no |-> x.made, own |-> mem.own]
  BY <1>2, <1>4 DEF Ciphertext
<1> QED
  BY <1>1, <1>2, <1>3, <1>4, <1>5, <1>6, <1>7 DEF ReturnCiphertext

LEMMA ReturnPlaintextOk ==
  ASSUME Sound, ReturnPlaintext
  PROVE  /\ AtStep({"decrypt"}, "work") /\ job.peer \in Peer /\ Persists(job.peer)
         /\ job.msg \in Msg /\ seen' = seen \cup {job.msg}
<1>1. AtStep({"decrypt"}, "work") /\ job.op = "decrypt"
  BY DEF ReturnPlaintext, AtStep
<1>2. PICK p \in Peer : p = job.peer
  BY <1>1 DEF Sound, Stages
<1>3. Persists(p)
  BY <1>2, PersistsOk DEF Sound, ReturnPlaintext
<1> QED
  BY <1>1, <1>2, <1>3 DEF Sound, Deciphering, ReturnPlaintext

LEMMA DecryptErrOk ==
  ASSUME Sound, NEW m \in Msg, DecryptErr(m)
  PROVE  LET p == mail[m].peer
         IN  /\ Idle /\ mail[m] # None /\ p \in Peer
             /\ Loads(p) /\ mem'.session[p] = LoadedSession(p)
             /\ \/ dropped' = dropped
                \/ /\ dropped' = dropped \cup {m} /\ mail[m].line \in LoadedSession(p).lines
                   /\ m \in LoadedSession(p).got
<1>1. Idle /\ mail[m] # None
  BY DEF DecryptErr, Waiting
<1>2. PICK p \in Peer : p = mail[m].peer
  BY <1>1, LetterOk DEF Sound
<1>3. PICK s : s = LoadPeer(mem, p)
  OBVIOUS
<1>4. IsLoaded(mem, p, s)
  BY <1>3, LoadedOk DEF Sound
<1>5. mem' = s
  BY <1>2, <1>3 DEF DecryptErr
<1>6. Loads(p) /\ mem'.session[p] = LoadedSession(p) /\ s.session[p] = LoadedSession(p)
  BY <1>4, <1>5 DEF IsLoaded, Loads, LoadedSession, LoadedTrust
<1>7. \/ dropped' = dropped
      \/ Duplicate(s, m) /\ dropped' = dropped \cup {m}
  BY <1>2, <1>3 DEF DecryptErr
<1>8. Duplicate(s, m) => mail[m].line \in s.session[p].lines /\ m \in s.session[p].got
  BY <1>2 DEF Duplicate, KnownLine
<1> QED
  BY <1>1, <1>2, <1>6, <1>7, <1>8

(* trust_peer and accept_recovery in memory: the user vouches for p. *)
Vouches(p) ==
  /\ mem' \in Store /\ StoreOk(mem')
  /\ mem'.own = mem.own /\ mem'.prekeys = mem.prekeys /\ mem'.signed = mem.signed
  /\ mem'.session = mem.session /\ mem'.trusted[p] = {peerGen[p]}
  /\ \A q \in Peer : q # p => mem'.trusted[q] = mem.trusted[q]
  /\ verified' = [verified EXCEPT ![p] = @ \cup {peerGen[p]}]
  /\ job' \in Job /\ job'.peer = p /\ job'.gen = peerGen[p]
  /\ \/ job'.op = "trust" /\ job'.at = "row"
     \/ job'.op = "accept" /\ job'.at = "session"
  /\ UNCHANGED <<disk, created, revoked, recovery, month, mail, peerGen,
                 given, dropped, out, seen, cut, events>>

LEMMA VouchesOk ==
  ASSUME Sound, NEW p \in Peer, Trust(p) \/ Accept(p)
  PROVE  Idle /\ Vouches(p)
<1>1. PICK g \in Nat : g = peerGen[p]
  BY DEF Sound, TypeOK
<1>2. PICK s \in Store : s = mem /\ StoreOk(s)
  BY DEF Sound, TypeOK, Shape
<1>3. PICK t : t = [s EXCEPT !.trusted[p] = {g}]
  OBVIOUS
<1>4. /\ t \in Store /\ t.own = s.own /\ t.prekeys = s.prekeys /\ t.signed = s.signed
      /\ t.session = s.session /\ t.trusted[p] = {g}
      /\ \A q \in Peer : q # p => t.trusted[q] = s.trusted[q]
  BY <1>3 DEF Store
<1>5. StoreOk(t)
  BY <1>2, <1>4 DEF StoreOk
<1>6. mem' = t
  BY <1>1, <1>2, <1>3 DEF Trust, Accept
<1>7. /\ job' \in Job /\ job'.peer = p /\ job'.gen = g
      /\ \/ job'.op = "trust" /\ job'.at = "row"
         \/ job'.op = "accept" /\ job'.at = "session"
  BY <1>1 DEF Trust, Accept, NewJob, Job, Op, At
<1>8. verified' = [verified EXCEPT ![p] = @ \cup {peerGen[p]}]
  BY DEF Trust, Accept
<1>9. UNCHANGED <<disk, created, revoked, recovery, month, mail, peerGen,
                  given, dropped, out, seen, cut, events>>
  BY DEF Trust, Accept, store, outside
<1>10. Idle
  BY DEF Trust, Accept
<1> QED
  BY <1>1, <1>2, <1>4, <1>5, <1>6, <1>7, <1>8, <1>9, <1>10 DEF Vouches

(* The database drops its session with p, or the identity it trusts. *)
Drops(p) ==
  /\ disk' \in Store /\ StoreOk(disk')
  /\ disk'.own = disk.own /\ disk'.prekeys = disk.prekeys /\ disk'.signed = disk.signed
  /\ disk'.session[p] = disk.session[p] \/ disk'.session[p] = NoSession
  /\ disk'.trusted[p] = disk.trusted[p] \/ disk'.trusted[p] = {}
  /\ \A q \in Peer : q # p => /\ disk'.session[q] = disk.session[q]
                              /\ disk'.trusted[q] = disk.trusted[q]
  /\ UNCHANGED <<created, revoked, recovery, mem, month, mail, peerGen, given, dropped,
                 out, seen, verified, cut, events>>

LEMMA DropSessionOk ==
  ASSUME Sound, DropSession
  PROVE  /\ AtStep({"accept", "revoke"}, "session") /\ job.peer \in Peer /\ Drops(job.peer)
         /\ disk'.session[job.peer] = NoSession /\ disk'.trusted = disk.trusted
<1>1. AtStep({"accept", "revoke"}, "session")
  BY DEF DropSession
<1>2. PICK p \in Peer : p = job.peer
  BY <1>1 DEF Sound, Stages, AtStep
<1>3. PICK d \in Store : d = disk /\ StoreOk(d)
  BY DEF Sound, TypeOK, Shape
<1>4. PICK t : t = [d EXCEPT !.session[p] = NoSession]
  OBVIOUS
<1>5. /\ t \in Store /\ t.own = d.own /\ t.prekeys = d.prekeys /\ t.signed = d.signed
      /\ t.trusted = d.trusted /\ t.session[p] = NoSession
      /\ \A q \in Peer : q # p => t.session[q] = d.session[q]
  BY <1>4, NoSessionOk DEF Store
<1>6. StoreOk(t)
  BY <1>3, <1>5, NoSessionOk DEF StoreOk
<1>7. disk' = t
  BY <1>2, <1>3, <1>4 DEF DropSession
<1>8. UNCHANGED <<created, revoked, recovery, mem, month, mail, peerGen, given, dropped,
                  out, seen, verified, cut, events>>
  BY DEF DropSession, outside, record, history
<1> QED
  BY <1>1, <1>2, <1>3, <1>5, <1>6, <1>7, <1>8 DEF Drops

LEMMA DropIdentityOk ==
  ASSUME Sound, DropIdentity
  PROVE  /\ AtStep({"revoke"}, "identity") /\ job.peer \in Peer /\ Drops(job.peer)
         /\ disk'.trusted[job.peer] = {} /\ disk'.session = disk.session
<1>1. AtStep({"revoke"}, "identity")
  BY DEF DropIdentity
<1>2. PICK p \in Peer : p = job.peer
  BY <1>1 DEF Sound, Stages, AtStep
<1>3. PICK d \in Store : d = disk /\ StoreOk(d)
  BY DEF Sound, TypeOK, Shape
<1>4. PICK t : t = [d EXCEPT !.trusted[p] = {}]
  OBVIOUS
<1>5. /\ t \in Store /\ t.own = d.own /\ t.prekeys = d.prekeys /\ t.signed = d.signed
      /\ t.session = d.session /\ t.trusted[p] = {}
      /\ \A q \in Peer : q # p => t.trusted[q] = d.trusted[q]
  BY <1>4 DEF Store
<1>6. StoreOk(t)
  BY <1>3, <1>5 DEF StoreOk
<1>7. disk' = t
  BY <1>2, <1>3, <1>4 DEF DropIdentity
<1>8. UNCHANGED <<created, revoked, recovery, mem, month, mail, peerGen, given, dropped,
                  out, seen, verified, cut, events>>
  BY DEF DropIdentity, outside, record, history
<1> QED
  BY <1>1, <1>2, <1>3, <1>5, <1>6, <1>7, <1>8 DEF Drops

(* The memory starts again and the database stays. *)
Resets ==
  /\ Restarts
  /\ UNCHANGED <<disk, created, recovery, month, mail, peerGen, given, dropped, out, seen>>

LEMMA ResetsOk ==
  ASSUME Sound, RevokeRow \/ Kill \/ Reopen
  PROVE  Resets
<1>1. disk' = disk /\ mem' = Opened(disk')
  BY DEF RevokeRow, Kill, Reopen, Interrupted, store
<1>2. disk' \in Store /\ StoreOk(disk')
  BY <1>1 DEF Sound, TypeOK, Shape
<1>3. Restarts
  BY <1>1, <1>2, RestartsOk
<1>4. UNCHANGED <<created, recovery, month, mail, peerGen, given, dropped, out, seen>>
  BY DEF RevokeRow, Kill, Reopen, Interrupted, store, outside, record, history
<1> QED
  BY <1>1, <1>3, <1>4 DEF Resets

LEMMA FinishTrustOk ==
  ASSUME Sound, FinishTrust
  PROVE  /\ AtStep({"trust", "accept"}, "persist") /\ job.peer \in Peer /\ Persists(job.peer)
         /\ mem.trusted[job.peer] = {job.gen}
         /\ \/ job.op = "trust" /\ mem' = mem
            \/ job.op = "accept" /\ Restarts
<1>1. AtStep({"trust", "accept"}, "persist")
  BY DEF FinishTrust
<1>2. PICK p \in Peer : p = job.peer
  BY <1>1 DEF Sound, Stages, AtStep
<1>3. Persists(p)
  BY <1>2, PersistsOk DEF Sound, FinishTrust
<1>4. CASE job.op = "accept"
  <2>1. mem' = Opened(disk')
    BY <1>4 DEF FinishTrust
  <2>2. Restarts
    BY <1>3, <2>1, RestartsOk DEF Persists
  <2> QED
    BY <1>1, <1>2, <1>3, <1>4, <2>2 DEF Sound, Stages
<1>5. CASE job.op = "trust"
  BY <1>1, <1>2, <1>3, <1>5 DEF Sound, Stages, FinishTrust
<1> QED
  BY <1>1, <1>4, <1>5 DEF AtStep

(* Replace: both sides have the new identity, the memory its first keys. *)
LEMMA ReplaceOk ==
  ASSUME Sound, Replace
  PROVE  /\ Idle /\ disk.own \in Nat
         /\ disk' \in Store /\ StoreOk(disk') /\ disk'.own = disk.own + 1
         /\ disk'.prekeys = {} /\ disk'.signed = {}
         /\ mem' \in Store /\ StoreOk(mem') /\ mem'.own = disk.own + 1
         /\ \A k \in mem'.prekeys : k \notin disk.prekeys \cup mem.prekeys
                                    /\ \A b \in given : b.key # k
         /\ mem'.signed # {}
         /\ \A p \in Peer : /\ disk'.session[p] = NoSession /\ disk'.trusted[p] = {}
                            /\ mem'.session[p] = NoSession /\ mem'.trusted[p] = {}
         /\ job' \in Job /\ job'.op = "replace" /\ job'.at = "keys"
<1>1. disk.own \in Nat /\ disk.own + 1 \in Nat
  BY DEF Sound, TypeOK, Store
<1>2. PICK s : s = NewStore(disk.own + 1)
  OBVIOUS
<1>3. /\ s \in Store /\ StoreOk(s) /\ s.own = disk.own + 1 /\ s.prekeys = {} /\ s.signed = {}
      /\ \A p \in Peer : s.session[p] = NoSession /\ s.trusted[p] = {}
  BY <1>1, <1>2, NewStoreOk
<1>4. PICK j : j = NewJob("replace", "work", None, 0, None)
  OBVIOUS
<1>5. j \in Job /\ j.op = "replace"
  BY <1>4 DEF NewJob, Job, Op, At
<1>6. Maintain(j, s, 0)
  BY <1>2, <1>4 DEF Replace
<1>7. Maintains(j, s, 0)
  BY <1>3, <1>5, <1>6, MaintainOk DEF Sound
<1>8. IsMaintained(s, 0, mem')
  BY <1>7 DEF Maintains
<1>9. mem' # s
  BY <1>3, <1>8 DEF IsMaintained
<1>10. job' \in Job /\ job'.op = "replace" /\ job'.at = "keys"
  BY <1>5, <1>7, <1>9 DEF Maintains
<1>11. disk' = s /\ Idle
  BY <1>2 DEF Replace
<1>12. /\ mem' \in Store /\ StoreOk(mem') /\ mem'.own = s.own /\ mem'.signed # {}
       /\ mem'.session = s.session /\ mem'.trusted = s.trusted
       /\ \A k \in mem'.prekeys \ s.prekeys :
            k \notin disk.prekeys \cup mem.prekeys /\ \A b \in given : b.key # k
  BY <1>8 DEF IsMaintained, Grown
<1> QED
  BY <1>1, <1>3, <1>10, <1>11, <1>12

LEMMA TypesKept ==
  ASSUME Sound, [Next]_vars
  PROVE  TypeOK' /\ Shape'
<1>1. TypeOK /\ Shape
  BY DEF Sound
<1>2. CASE Quiet
  BY <1>2, QuietTypes
<1>3. CASE Encipher
  <2>1. mem' \in Store /\ StoreOk(mem') /\ mem'.own = mem.own
    BY <1>3, EncipherOk DEF Loads, Enciphers
  <2>2. job' \in Job
    <3>1. Return \/ Goto("persist")
      BY <1>3, EncipherOk
    <3> QED
      BY <3>1, <1>1, ReturnOk, GotoOk DEF At
  <2> QED
    BY <1>1, <1>3, <2>1, <2>2 DEF TypeOK, Shape, Encipher, store, outside, record, history
<1>4. CASE ReturnCiphertext
  <2>1. PICK p \in Peer : p = job.peer
    BY <1>4, ReturnCiphertextOk
  <2>2. PICK c : c = Ciphertext
    OBVIOUS
  <2>3. disk' \in Store /\ StoreOk(disk') /\ disk'.own = mem.own /\ out' = out \cup {c}
    BY <1>4, <2>2, ReturnCiphertextOk DEF Persists
  <2>4. c \in [peer : Peer, line : Line, no : Nat, own : Nat]
    <3>1. PICK x : x = mem.session[job.peer]
      OBVIOUS
    <3>2. c = [peer |-> p, line |-> x.cur, no |-> x.made, own |-> mem.own]
          /\ x.cur \in Line /\ x.made \in Nat
      BY <1>4, <2>1, <2>2, <3>1, ReturnCiphertextOk
    <3>3. mem.own \in Nat
      BY <1>1 DEF TypeOK, Store
    <3> QED
      BY <3>2, <3>3
  <2>5. IsFiniteSet(out \cup {c})
    BY <1>1, FS_AddElement DEF Shape
  <2>6. job' \in Job
    BY <1>4, ReturnOk DEF ReturnCiphertext
  <2>7. TypeOK'
    BY <1>1, <1>4, <2>3, <2>4, <2>6 DEF TypeOK, ReturnCiphertext, outside
  <2>8. Shape'
    BY <1>1, <1>4, <2>3, <2>5 DEF Shape, ReturnCiphertext
  <2> QED
    BY <2>7, <2>8
<1>5. ASSUME NEW m \in Msg, Decrypt(m)
      PROVE  TypeOK' /\ Shape'
  <2>1. mem' \in Store /\ StoreOk(mem') /\ mem'.own = mem.own /\ job' \in Job
    BY <1>5, DecryptOk DEF Deciphers, Rekeys
  <2> QED
    BY <1>1, <1>5, <2>1 DEF TypeOK, Shape, Decrypt, store, outside, record, history
<1>6. ASSUME NEW m \in Msg, DecryptErr(m)
      PROVE  TypeOK' /\ Shape'
  <2>1. mem' \in Store /\ StoreOk(mem') /\ mem'.own = mem.own
    BY <1>6, DecryptErrOk DEF Loads
  <2>2. dropped' \subseteq Msg
    BY <1>1, <1>6, DecryptErrOk DEF TypeOK
  <2> QED
    BY <1>1, <1>6, <2>1, <2>2 DEF TypeOK, Shape, DecryptErr, store, outside
<1>7. CASE ReturnPlaintext
  <2>1. disk' \in Store /\ StoreOk(disk') /\ disk'.own = mem.own
    BY <1>7, ReturnPlaintextOk DEF Persists
  <2>2. seen' \subseteq Msg
    BY <1>1, <1>7, ReturnPlaintextOk DEF TypeOK
  <2>3. job' \in Job
    BY <1>7, ReturnOk DEF ReturnPlaintext
  <2> QED
    BY <1>1, <1>7, <2>1, <2>2, <2>3 DEF TypeOK, Shape, ReturnPlaintext, outside
<1>8. ASSUME NEW p \in Peer, Trust(p) \/ Accept(p)
      PROVE  TypeOK' /\ Shape'
  <2>1. Vouches(p)
    BY <1>8, VouchesOk
  <2>2. verified' \in [Peer -> SUBSET Nat]
    BY <1>1, <2>1 DEF TypeOK, Vouches
  <2> QED
    BY <1>1, <2>1, <2>2 DEF TypeOK, Shape, Vouches
<1>9. CASE DropSession \/ DropIdentity
  <2>1. Drops(job.peer)
    BY <1>9, DropSessionOk, DropIdentityOk
  <2>2. job' \in Job
    <3>1. Goto("row") \/ Goto("identity")
      BY <1>9 DEF DropSession, DropIdentity
    <3> QED
      BY <3>1, <1>1, GotoOk DEF At
  <2> QED
    BY <1>1, <2>1, <2>2 DEF TypeOK, Shape, Drops
<1>10. CASE RevokeRow \/ Kill \/ Reopen
  <2>1. Resets
    BY <1>10, ResetsOk
  <2>2. job' \in Job
    BY <1>1, <1>10, ReturnOk DEF TypeOK, RevokeRow, Kill, Reopen, Interrupted
  <2>3. /\ revoked' \in [Peer -> RevocationRow] /\ verified' \in [Peer -> SUBSET Nat]
        /\ events' \in Nat /\ cut' \subseteq Cuts
    <3>1. CASE RevokeRow
      <4>1. [on |-> TRUE, but |-> {}] \in RevocationRow
        BY DEF RevocationRow
      <4> QED
        BY <1>1, <3>1, <4>1 DEF TypeOK, RevokeRow
    <3>2. CASE Kill
      <4>1. events' = events + 1 /\ cut' = cut \cup Undone("kill")
        BY <3>2 DEF Kill, Interrupted, Counted
      <4>2. Undone("kill") \subseteq Cuts
        BY DEF Undone
      <4> QED
        BY <1>1, <3>2, <4>1, <4>2 DEF TypeOK, Kill, Interrupted, store
    <3>3. CASE Reopen
      BY <1>1, <3>3 DEF TypeOK, Reopen, store, record, history
    <3> QED
      BY <1>10, <3>1, <3>2, <3>3
  <2>4. TypeOK'
    BY <1>1, <2>1, <2>2, <2>3 DEF TypeOK, Resets, Restarts
  <2>5. Shape'
    BY <1>1, <2>1 DEF Shape, Resets, Restarts
  <2> QED
    BY <2>4, <2>5
<1>11. CASE FinishTrust
  <2>1. disk' \in Store /\ StoreOk(disk') /\ disk'.own = mem.own
    BY <1>11, FinishTrustOk DEF Persists
  <2>2. mem' \in Store /\ StoreOk(mem') /\ mem'.own = disk'.own
    BY <1>1, <1>11, <2>1, FinishTrustOk DEF Restarts, TypeOK, Shape
  <2>3. verified' \in [Peer -> SUBSET Nat]
    BY <1>1, <1>11 DEF TypeOK, Job, FinishTrust
  <2>4. job' \in Job
    BY <1>11, ReturnOk DEF FinishTrust
  <2>5. disk'.own = disk.own
    BY <1>1, <2>1 DEF Shape
  <2> QED
    BY <1>1, <1>11, <2>1, <2>2, <2>3, <2>4, <2>5 DEF TypeOK, Shape, FinishTrust, outside
<1>12. CASE Replace
  <2>1. /\ disk.own \in Nat /\ disk' \in Store /\ StoreOk(disk') /\ disk'.own = disk.own + 1
        /\ mem' \in Store /\ StoreOk(mem') /\ mem'.own = disk.own + 1 /\ job' \in Job
    BY <1>12, ReplaceOk
  <2>2. events' \in Nat /\ verified' \in [Peer -> SUBSET Nat] /\ created' = 0
    BY <1>1, <1>12 DEF TypeOK, Replace, Counted
  <2>3. TypeOK'
    BY <1>1, <1>12, <2>1, <2>2 DEF TypeOK, Replace, outside
  <2>4. \A b \in given : b.own <= disk.own + 1
    BY <1>1, <2>1 DEF TypeOK, Shape, Bundle
  <2>5. Shape'
    BY <1>1, <1>12, <2>1, <2>4 DEF Shape, Replace
  <2> QED
    BY <2>3, <2>5
<1> QED
  BY <1>2, <1>3, <1>4, <1>5, <1>6, <1>7, <1>8, <1>9, <1>10, <1>11, <1>12, NextCases

-----------------------------------------------------------------------------
(* Where the running operation stands. *)
LEMMA NoJobParts ==
  ASSUME job' = NoJob
  PROVE  Keying' /\ Stages' /\ Enciphering' /\ Deciphering'
<1>1. job'.op = "none"
  BY DEF NoJob
<1> QED
  BY <1>1 DEF Keying, Stages, Enciphering, Deciphering, AtStep

Returning ==
  \/ HandOut \/ ReturnCiphertext \/ ReturnPlaintext \/ RevokeRow \/ FinishTrust
  \/ RecordReplacement \/ StatementFails \/ Kill \/ Reopen \/ MonthPasses
  \/ (\E m \in Msg : DecryptErr(m))

LEMMA ReturningParts ==
  ASSUME Returning
  PROVE  Keying' /\ Stages' /\ Enciphering' /\ Deciphering'
<1>1. job' = NoJob
  BY DEF Returning, HandOut, ReturnCiphertext, ReturnPlaintext, RevokeRow, FinishTrust,
         RecordReplacement, StatementFails, Kill, Reopen, MonthPasses, DecryptErr, Interrupted,
         Return, Idle
<1> QED
  BY <1>1, NoJobParts

(* The operations that maintain the keys first. *)
KeyOp == {"export", "encrypt", "decrypt", "replace"}

LEMMA AtKeys ==
  ASSUME Sound, job.at \in {"keys", "rotation"}
  PROVE  job.op \in KeyOp
<1>1. job.op \in Op
  BY DEF Sound, TypeOK, Job
<1> QED
  BY <1>1 DEF Sound, Stages, NoJob, KeyOp, Op

LEMMA KeyingParts ==
  ASSUME Sound, PersistKeys \/ RecordRotation
  PROVE  Keying' /\ Stages' /\ Enciphering' /\ Deciphering'
<1>1. job.op \in KeyOp /\ mem.signed # {}
  BY AtKeys DEF PersistKeys, RecordRotation, Sound, Keying, KeyOp
<1>2. month \in Nat /\ created \in Nat /\ created <= month
  BY DEF Sound, TypeOK, ClockOk
<1>3. /\ disk'.trusted = disk.trusted /\ mem' = mem /\ mail' = mail /\ seen' = seen
      /\ month' = month
  <2>1. WithKeys(disk, mem).trusted = disk.trusted
    BY WithKeysOk DEF Sound, TypeOK, Shape
  <2> QED
    BY <2>1 DEF PersistKeys, RecordRotation, outside, record, history
<1>4. CASE PersistKeys
  <2>1. disk'.signed = mem.signed
    <3>1. WithKeys(disk, mem).signed = mem.signed
      BY WithKeysOk DEF Sound, TypeOK, Shape
    <3> QED
      BY <1>4, <3>1 DEF PersistKeys
  <2>2. \/ Goto("rotation") /\ created < month
        \/ Goto("work") /\ created = month
    BY <1>2, <1>4 DEF PersistKeys, RotationDue
  <2>3. /\ job'.op = job.op /\ job'.peer = job.peer /\ job'.msg = job.msg
        /\ \/ job'.at = "rotation" /\ created < month
           \/ job'.at = "work" /\ created = month
    BY <2>2, GotoOk DEF Sound, At
  <2>4. created' = created
    BY <1>4 DEF PersistKeys
  <2>5. Keying'
    BY <1>1, <1>3, <2>1, <2>3, <2>4 DEF Keying, AtStep
  <2>6. Stages' /\ Enciphering'
    BY <1>1, <1>3, <2>3 DEF Stages, Enciphering, AtStep, KeyOp, Sound
  <2>7. Deciphering'
    BY <1>3, <2>3 DEF Deciphering, SameTrust, Sound
  <2> QED
    BY <2>5, <2>6, <2>7
<1>5. CASE RecordRotation
  <2>1. Goto("work") /\ created' = month
    BY <1>5 DEF RecordRotation
  <2>2. /\ job'.op = job.op /\ job'.peer = job.peer /\ job'.msg = job.msg
        /\ job'.at = "work"
    BY <2>1, GotoOk DEF Sound, At
  <2>3. Keying'
    BY <1>1, <1>3, <2>1, <2>2 DEF Keying, AtStep
  <2>4. Stages' /\ Enciphering'
    BY <1>1, <1>3, <2>2 DEF Stages, Enciphering, AtStep, KeyOp, Sound
  <2>5. Deciphering'
    BY <1>3, <2>2 DEF Deciphering, SameTrust, Sound
  <2> QED
    BY <2>3, <2>4, <2>5
<1> QED
  BY <1>4, <1>5

(* An operation that starts by maintaining the memory's own keys. *)
LEMMA StartingParts ==
  ASSUME Sound, Export \/ \E p \in Peer : \E g \in 0 .. peerGen[p] : Encrypt(p, g)
  PROVE  Keying' /\ Stages' /\ Enciphering' /\ Deciphering'
<1>1. PICK j \in Job : /\ j.op = "export" \/ (j.op = "encrypt" /\ j.peer \in Peer)
                       /\ Maintain(j, mem, created)
                       /\ UNCHANGED <<store, outside, history>>
  <2>1. CASE Export
    <3>1. PICK j : j = NewJob("export", "work", None, 0, None)
      OBVIOUS
    <3>2. j \in Job /\ j.op = "export"
      BY <3>1 DEF NewJob, Job, Op, At
    <3> QED
      BY <2>1, <3>1, <3>2 DEF Export, record
  <2>2. ASSUME NEW p \in Peer, NEW g \in 0 .. peerGen[p], Encrypt(p, g)
        PROVE  \E j \in Job : /\ j.op = "export" \/ (j.op = "encrypt" /\ j.peer \in Peer)
                              /\ Maintain(j, mem, created)
                              /\ UNCHANGED <<store, outside, history>>
    <3>1. PICK j : j = NewJob("encrypt", "work", p, g, None)
      OBVIOUS
    <3>2. j \in Job /\ j.op = "encrypt" /\ j.peer = p
      BY <3>1 DEF NewJob, Job, Op, At
    <3> QED
      BY <2>2, <3>1, <3>2 DEF Encrypt
  <2> QED
    BY <2>1, <2>2
<1>2. created \in Nat /\ mem \in Store /\ StoreOk(mem) /\ month \in Nat /\ created <= month
  BY DEF Sound, TypeOK, Shape, ClockOk
<1>3. Maintains(j, mem, created)
  BY <1>1, <1>2, MaintainOk DEF Sound
<1>4. /\ mem'.signed # {} /\ (mem' = mem => ~RotationDue(created))
  BY <1>3 DEF Maintains, IsMaintained
<1>5. /\ job'.op = j.op /\ job'.peer = j.peer /\ job'.at \in {"work", "keys"}
      /\ job'.at = "work" => mem' = mem
  BY <1>3 DEF Maintains
<1>6. created' = created /\ month' = month
  BY <1>1 DEF store, outside
<1>7. job'.at = "work" => created = month
  BY <1>2, <1>4, <1>5 DEF RotationDue
<1>8. Keying'
  BY <1>1, <1>4, <1>5, <1>6, <1>7 DEF Keying
<1>9. Stages' /\ Enciphering' /\ Deciphering'
  BY <1>1, <1>5 DEF Stages, Enciphering, Deciphering, AtStep
<1> QED
  BY <1>8, <1>9

LEMMA EncipherParts ==
  ASSUME Sound, Encipher
  PROVE  Keying' /\ Stages' /\ Enciphering' /\ Deciphering'
<1>1. PICK p \in Peer : p = job.peer
  BY EncipherOk
<1>2. job.op = "encrypt" /\ job.at = "work"
  BY EncipherOk DEF AtStep
<1>3. CASE Return
  BY <1>3, NoJobParts DEF Return
<1>4. CASE Enciphers(p) /\ Goto("persist")
  <2>1. job'.op = "encrypt" /\ job'.at = "persist" /\ job'.peer = p /\ job'.gen = job.gen
    BY <1>1, <1>2, <1>4, GotoOk DEF Sound, At
  <2>2. disk' = disk
    BY DEF Encipher, store
  <2>3. mem.signed # {}
    BY <1>2 DEF Sound, Keying
  <2>4. /\ mem'.signed = mem.signed /\ mem'.trusted[p] = LoadedTrust(p)
        /\ Exists(mem'.session[p]) /\ mem'.trusted[p] = {mem'.session[p].cur.gen}
    BY <1>4 DEF Enciphers, Loads
  <2>5. Keying'
    BY <2>1, <2>3, <2>4 DEF Keying, AtStep
  <2>6. disk.trusted[p] # {} => disk.trusted[p] = mem'.trusted[p]
    BY <2>4 DEF LoadedTrust
  <2>7. Stages' /\ Deciphering'
    BY <2>1 DEF Stages, Deciphering, AtStep
  <2>8. Enciphering'
    BY <2>1, <2>2, <2>4, <2>6 DEF Enciphering, SameTrust
  <2> QED
    BY <2>5, <2>7, <2>8
<1> QED
  BY <1>1, <1>3, <1>4, EncipherOk

LEMMA DecryptParts ==
  ASSUME Sound, NEW m \in Msg, Decrypt(m), m \notin seen
  PROVE  Keying' /\ Stages' /\ Enciphering' /\ Deciphering'
<1>1. PICK p \in Peer : p = mail[m].peer
  BY DecryptOk
<1>2. Deciphers(p, m) /\ Rekeys(p, m, mail[m].line) /\ mail[m] # None
  BY <1>1, DecryptOk
<1>3. disk' = disk /\ created' = created /\ month' = month /\ mail' = mail /\ seen' = seen
  BY DEF Decrypt, store, outside, record, history
<1>4. /\ job'.op = "decrypt" /\ job'.peer = p /\ job'.msg = m /\ job'.at \in {"work", "keys"}
      /\ job'.at = "work" => ~RotationDue(created)
      /\ mem'.signed # {}
  BY <1>2 DEF Rekeys
<1>5. job'.at = "work" => created' = month'
  BY <1>3, <1>4 DEF RotationDue, Sound, TypeOK, ClockOk
<1>6. Keying' /\ Stages' /\ Enciphering'
  BY <1>4, <1>5 DEF Keying, Stages, Enciphering, AtStep
<1>7. /\ mail[m].line \in mem'.session[p].lines /\ m \in mem'.session[p].got
      /\ mem'.trusted[p] = {mail[m].line.gen} /\ mem'.trusted[p] = LoadedTrust(p)
  BY <1>2 DEF Deciphers
<1>8. disk.trusted[p] # {} => disk.trusted[p] = mem'.trusted[p]
  BY <1>7 DEF LoadedTrust
<1>9. Deciphering'
  BY <1>1, <1>2, <1>3, <1>4, <1>7, <1>8 DEF Deciphering, SameTrust
<1> QED
  BY <1>6, <1>9

(* The operations on trust do not touch the keys. *)
LEMMA TrustingParts ==
  ASSUME Sound,
         \/ \E p \in Peer : Trust(p) \/ Accept(p) \/ Revoke(p)
         \/ ForgetRevocation \/ AcceptRow \/ AcceptRecord \/ DropSession \/ DropIdentity
  PROVE  Keying' /\ Stages' /\ Enciphering' /\ Deciphering'
<1>1. ASSUME NEW p \in Peer, Trust(p) \/ Accept(p)
      PROVE  Keying' /\ Stages' /\ Enciphering' /\ Deciphering'
  <2>1. Vouches(p)
    BY <1>1, VouchesOk
  <2> QED
    BY <2>1 DEF Vouches, Keying, Stages, Enciphering, Deciphering, AtStep
<1>2. ASSUME NEW p \in Peer, Revoke(p)
      PROVE  Keying' /\ Stages' /\ Enciphering' /\ Deciphering'
  <2>1. job'.op = "revoke" /\ job'.at = "session" /\ job'.peer = p
    BY <1>2 DEF Revoke, NewJob
  <2> QED
    BY <2>1 DEF Keying, Stages, Enciphering, Deciphering, AtStep
<1>3. ASSUME NEW a \in {"row", "record", "persist"}, Goto(a), mem' = mem,
             \/ job.op = "trust" /\ a = "persist"
             \/ job.op = "accept"
      PROVE  Keying' /\ Stages' /\ Enciphering' /\ Deciphering'
  <2>1. job'.op = job.op /\ job'.at = a /\ job'.peer = job.peer /\ job'.gen = job.gen
    BY <1>3, GotoOk DEF Sound, At
  <2>2. job.peer \in Peer /\ mem.trusted[job.peer] = {job.gen}
    BY <1>3 DEF Sound, Stages
  <2> QED
    BY <1>3, <2>1, <2>2 DEF Keying, Stages, Enciphering, Deciphering, AtStep
<1>4. CASE ForgetRevocation
  BY <1>3, <1>4 DEF ForgetRevocation, AtStep
<1>5. CASE AcceptRow
  BY <1>3, <1>5 DEF AcceptRow, AtStep
<1>6. CASE AcceptRecord
  BY <1>3, <1>6 DEF AcceptRecord, AtStep
<1>7. CASE DropSession
  <2>1. mem' = mem
    BY <1>7 DEF DropSession
  <2>2. CASE job.op = "accept"
    BY <1>3, <1>7, <2>1, <2>2 DEF DropSession
  <2>3. CASE job.op = "revoke"
    <3>1. job'.op = "revoke" /\ job'.at = "identity" /\ job'.peer = job.peer
      BY <1>7, <2>3, GotoOk DEF DropSession, Sound, At
    <3>2. job.peer \in Peer
      BY <1>7, DropSessionOk
    <3> QED
      BY <3>1, <3>2 DEF Keying, Stages, Enciphering, Deciphering, AtStep
  <2> QED
    BY <1>7, <2>2, <2>3 DEF DropSession, AtStep
<1>8. CASE DropIdentity
  <2>1. job'.op = "revoke" /\ job'.at = "row" /\ job'.peer = job.peer
    BY <1>8, GotoOk DEF DropIdentity, AtStep, Sound, At
  <2>2. job.peer \in Peer /\ disk'.trusted[job.peer] = {}
    BY <1>8, DropIdentityOk
  <2> QED
    BY <2>1, <2>2 DEF Keying, Stages, Enciphering, Deciphering, AtStep
<1> QED
  BY <1>1, <1>2, <1>4, <1>5, <1>6, <1>7, <1>8

(* The peers act while the operation stands still. *)
LEMMA StandingParts ==
  ASSUME Sound,
         \/ \E p \in Peer : PeerReplaces(p)
         \/ \E p \in Peer, m \in Msg : PeerWrites(p, m)
         \/ UNCHANGED vars
  PROVE  Keying' /\ Stages' /\ Enciphering' /\ Deciphering'
<1>1. /\ disk' = disk /\ mem' = mem /\ job' = job /\ seen' = seen
      /\ created' = created /\ month' = month
  BY DEF PeerReplaces, PeerWrites, vars, store, record, history
<1>2. \A m \in Msg : mail[m] # None => mail'[m] = mail[m]
  <2>1. ASSUME NEW p \in Peer, NEW n \in Msg, PeerWrites(p, n)
        PROVE  \A m \in Msg : mail[m] # None => mail'[m] = mail[m]
    <3>1. mail[n] = None /\ \E l \in LinesOf(p) : mail' = [mail EXCEPT ![n] = [peer |-> p, line |-> l]]
      BY <2>1 DEF PeerWrites
    <3>2. mail \in [Msg -> Letter \cup {None}]
      BY DEF Sound, TypeOK
    <3> QED
      BY <3>1, <3>2
  <2> QED
    BY <2>1 DEF PeerReplaces, vars
<1>3. Keying' /\ Stages' /\ Enciphering'
  BY <1>1 DEF Sound, Keying, Stages, Enciphering, SameTrust, AtStep
<1>4. Deciphering'
  BY <1>1, <1>2 DEF Sound, Deciphering, SameTrust
<1> QED
  BY <1>3, <1>4

LEMMA ReplaceParts ==
  ASSUME Sound, Replace
  PROVE  Keying' /\ Stages' /\ Enciphering' /\ Deciphering'
<1>1. job'.op = "replace" /\ job'.at = "keys" /\ mem'.signed # {}
  BY ReplaceOk
<1> QED
  BY <1>1 DEF Keying, Stages, Enciphering, Deciphering, AtStep

LEMMA ClockKept ==
  ASSUME Sound, [Next]_vars
  PROVE  ClockOk' /\ month <= month'
<1>1. month \in Nat /\ created \in Nat /\ 1 <= month /\ created <= month
  BY DEF Sound, TypeOK, ClockOk
<1>2. CASE month' = month /\ created' \in {created, month, 0}
  BY <1>1, <1>2 DEF ClockOk
<1>3. CASE month' = month + 1 /\ created' = created
  BY <1>1, <1>3 DEF ClockOk
<1>4. CASE Quiet
  <2>1. \/ month' = month /\ created' \in {created, month, 0}
        \/ month' = month + 1 /\ created' = created
    BY <1>4 DEF Quiet, PersistKeys, RecordRotation, Export, HandOut, Encrypt, Revoke,
                ForgetRevocation, AcceptRow, AcceptRecord, RecordReplacement, StatementFails,
                Interrupted, PeerReplaces, MonthPasses, PeerWrites, vars, store, outside
  <2> QED
    BY <1>2, <1>3, <2>1
<1>5. CASE ~Quiet
  <2>1. month' = month /\ created' \in {created, month, 0}
    BY <1>5, NextCases
    DEF Encipher, ReturnCiphertext, Decrypt, DecryptErr, ReturnPlaintext, Trust, Accept,
        DropSession, DropIdentity, RevokeRow, FinishTrust, Replace, Kill, Interrupted, Reopen,
        store, outside
  <2> QED
    BY <1>2, <2>1
<1> QED
  BY <1>4, <1>5

LEMMA SoundKept ==
  ASSUME Sound, [Next]_vars, \A m \in Msg : Decrypt(m) => m \notin seen
  PROVE  Sound'
<1>1. TypeOK' /\ Shape' /\ ClockOk'
  BY TypesKept, ClockKept
<1>2. Keying' /\ Stages' /\ Enciphering' /\ Deciphering'
  <2>1. CASE Returning
    BY <2>1, ReturningParts
  <2>2. CASE PersistKeys \/ RecordRotation
    BY <2>2, KeyingParts
  <2>3. CASE Export \/ \E p \in Peer : \E g \in 0 .. peerGen[p] : Encrypt(p, g)
    BY <2>3, StartingParts
  <2>4. CASE Encipher
    BY <2>4, EncipherParts
  <2>5. CASE \E m \in Msg : Decrypt(m)
    BY <2>5, DecryptParts
  <2>6. CASE \/ \E p \in Peer : Trust(p) \/ Accept(p) \/ Revoke(p)
             \/ ForgetRevocation \/ AcceptRow \/ AcceptRecord \/ DropSession \/ DropIdentity
    BY <2>6, TrustingParts
  <2>7. CASE \/ \E p \in Peer : PeerReplaces(p)
             \/ \E p \in Peer, m \in Msg : PeerWrites(p, m)
             \/ UNCHANGED vars
    BY <2>7, StandingParts
  <2>8. CASE Replace
    BY <2>8, ReplaceParts
  <2> QED
    BY <2>1, <2>2, <2>3, <2>4, <2>5, <2>6, <2>7, <2>8, NextCases DEF Quiet, Returning
<1> QED
  BY <1>1, <1>2 DEF Sound

-----------------------------------------------------------------------------
(* The quiet actions leave the sessions and the trusted identities.        *)
Letters == \A m \in Msg : mail[m] # None => mail'[m] = mail[m]

LEMMA QuietFrame ==
  ASSUME Sound, Quiet
  PROVE  /\ disk'.session = disk.session /\ disk'.trusted = disk.trusted /\ disk'.own = disk.own
         /\ mem'.session = mem.session /\ mem'.trusted = mem.trusted /\ mem'.own = mem.own
         /\ UNCHANGED <<dropped, out, seen, verified>>
         /\ given \subseteq given' /\ Letters
<1>1. disk \in Store /\ StoreOk(disk) /\ mem \in Store /\ StoreOk(mem) /\ mem.own = disk.own
  BY DEF Sound, TypeOK, Shape
<1>2. CASE PersistKeys
  <2>1. PICK t : t = WithKeys(disk, mem)
    OBVIOUS
  <2>2. t.session = disk.session /\ t.trusted = disk.trusted /\ t.own = disk.own
    BY <1>1, <2>1, WithKeysOk
  <2> QED
    BY <1>2, <2>1, <2>2 DEF PersistKeys, outside, record, history, Letters
<1>3. ASSUME NEW j \in Job, Maintain(j, mem, created), UNCHANGED <<store, outside, history>>
      PROVE  /\ disk' = disk
             /\ mem'.session = mem.session /\ mem'.trusted = mem.trusted /\ mem'.own = mem.own
             /\ UNCHANGED <<dropped, out, seen, verified>>
             /\ given \subseteq given' /\ Letters
  <2>1. Maintains(j, mem, created)
    BY <1>1, <1>3, MaintainOk DEF Sound, TypeOK
  <2>2. mem'.session = mem.session /\ mem'.trusted = mem.trusted /\ mem'.own = mem.own
    BY <2>1 DEF Maintains, IsMaintained, Grown
  <2> QED
    BY <1>3, <2>2 DEF store, outside, history, Letters
<1>4. CASE Export
  <2>1. PICK j : j = NewJob("export", "work", None, 0, None)
    OBVIOUS
  <2>2. j \in Job
    BY <2>1 DEF NewJob, Job, Op, At
  <2> QED
    BY <1>3, <1>4, <2>1, <2>2 DEF Export, record
<1>5. ASSUME NEW p \in Peer, NEW g \in 0 .. peerGen[p], Encrypt(p, g)
      PROVE  /\ disk' = disk
             /\ mem'.session = mem.session /\ mem'.trusted = mem.trusted /\ mem'.own = mem.own
             /\ UNCHANGED <<dropped, out, seen, verified>>
             /\ given \subseteq given' /\ Letters
  <2>1. PICK j : j = NewJob("encrypt", "work", p, g, None)
    OBVIOUS
  <2>2. j \in Job
    BY <2>1 DEF NewJob, Job, Op, At, Sound, TypeOK
  <2> QED
    BY <1>3, <1>5, <2>1, <2>2 DEF Encrypt
<1>6. ASSUME NEW p \in Peer, NEW m \in Msg, PeerWrites(p, m)
      PROVE  /\ disk' = disk /\ mem' = mem
             /\ UNCHANGED <<dropped, out, seen, verified>>
             /\ given \subseteq given' /\ Letters
  <2>1. mail[m] = None /\ \E l \in LinesOf(p) : mail' = [mail EXCEPT ![m] = [peer |-> p, line |-> l]]
    BY <1>6 DEF PeerWrites
  <2>2. mail \in [Msg -> Letter \cup {None}]
    BY DEF Sound, TypeOK
  <2>3. Letters
    BY <2>1, <2>2 DEF Letters
  <2> QED
    BY <1>6, <2>3 DEF PeerWrites, store, record, history
<1>7. CASE HandOut \/ RecordReplacement
  <2>1. given \subseteq given'
    BY <1>7 DEF HandOut, RecordReplacement
  <2> QED
    BY <1>7, <2>1 DEF HandOut, RecordReplacement, store, outside, Letters
<1>8. CASE \/ RecordRotation \/ (\E p \in Peer : Revoke(p)) \/ ForgetRevocation \/ AcceptRow
           \/ AcceptRecord \/ StatementFails
  BY <1>8 DEF RecordRotation, Revoke, ForgetRevocation, AcceptRow, AcceptRecord, StatementFails,
              Interrupted, store, outside, record, history, Letters
<1>9. CASE MonthPasses \/ UNCHANGED vars
  BY <1>9 DEF MonthPasses, store, history, vars, Letters
<1>10. ASSUME NEW p \in Peer, PeerReplaces(p)
       PROVE  /\ disk' = disk /\ mem' = mem
              /\ UNCHANGED <<dropped, out, seen, verified>> /\ given \subseteq given' /\ Letters
  BY <1>10 DEF PeerReplaces, store, history, Letters
<1> QED
  BY <1>2, <1>4, <1>5, <1>6, <1>7, <1>8, <1>9, <1>10 DEF Quiet

LEMMA LoudFrame ==
  ASSUME [Next]_vars, ~Quiet
  PROVE  /\ UNCHANGED <<month, mail, peerGen, given>> /\ Letters
         /\ ReturnCiphertext \/ out' = out
         /\ ReturnPlaintext \/ seen' = seen
         /\ dropped' = dropped \/ \E m \in Msg : DecryptErr(m)
BY NextCases
DEF Encipher, ReturnCiphertext, Decrypt, DecryptErr, ReturnPlaintext, Trust, Accept,
    DropSession, DropIdentity, RevokeRow, FinishTrust, Replace, Kill, Interrupted, Reopen,
    store, outside, record, history, Letters

(* What load_peer gives is ahead of the database. *)
LEMMA LoadedAhead ==
  ASSUME TypeOK, Shape, NEW p \in Peer
  PROVE  /\ LoadedSession(p) \in Session /\ SessionOk(LoadedSession(p))
         /\ disk.session[p].lines \subseteq LoadedSession(p).lines
         /\ disk.session[p].made <= LoadedSession(p).made
         /\ disk.session[p].got \subseteq LoadedSession(p).got
         /\ LoadedSession(p) = disk.session[p]
            \/ (disk.session[p] = NoSession /\ LoadedSession(p) = mem.session[p])
<1>1. PICK x \in Session : x = disk.session[p] /\ SessionOk(x)
  BY DEF TypeOK, Store, Shape, StoreOk
<1>2. PICK y \in Session : y = mem.session[p] /\ SessionOk(y)
  BY DEF TypeOK, Store, Shape, StoreOk
<1>3. CASE Exists(x)
  BY <1>1, <1>3 DEF LoadedSession, Session
<1>4. CASE ~Exists(x)
  <2>1. x = NoSession
    BY <1>1, <1>4 DEF SessionOk, Exists
  <2>2. LoadedSession(p) = y
    BY <1>1, <1>2, <1>4 DEF LoadedSession
  <2>3. x.lines = {} /\ x.made = 0 /\ x.got = {} /\ y.made \in Nat
    BY <2>1, NoSessionOk DEF Session
  <2> QED
    BY <1>1, <1>2, <2>1, <2>2, <2>3
<1> QED
  BY <1>3, <1>4

(* The peer p is saved, and the memory stays or starts again. *)
Saves(p) == Persists(p) /\ (mem' = mem \/ Restarts)

(* Where the sessions of a step come from. *)
LEMMA SessionSteps ==
  ASSUME Sound, [Next]_vars, NEW q \in Peer
  PROVE  /\ \/ disk'.session[q] \in {disk.session[q], NoSession}
            \/ disk'.session[q] = mem.session[q] /\ Saves(q)
         /\ \/ mem'.session[q] \in {mem.session[q], LoadedSession(q), NoSession}
            \/ Encipher /\ Enciphers(q)
            \/ \E m \in Msg : Decrypt(m) /\ q = mail[m].peer /\ Deciphers(q, m)
<1>1. ASSUME NEW p \in Peer, Saves(p)
      PROVE  \/ disk'.session[q] = disk.session[q]
             \/ disk'.session[q] = mem.session[q] /\ Saves(q)
  BY <1>1 DEF Saves, Persists
<1>2. Restarts => mem'.session[q] = NoSession
  BY DEF Restarts
<1>3. CASE Quiet
  <2>1. disk'.session = disk.session /\ mem'.session = mem.session
    BY <1>3, QuietFrame
  <2> QED
    BY <2>1
<1>4. CASE Encipher
  <2>1. PICK p \in Peer : p = job.peer
    BY <1>4, EncipherOk
  <2>2. disk' = disk
    BY <1>4 DEF Encipher, store
  <2>3. q # p => mem'.session[q] = mem.session[q]
    BY <1>4, <2>1, EncipherOk DEF Enciphers, Loads
  <2>4. mem'.session[p] = LoadedSession(p) \/ Enciphers(p)
    BY <1>4, <2>1, EncipherOk
  <2> QED
    BY <1>4, <2>2, <2>3, <2>4
<1>5. CASE ReturnCiphertext \/ ReturnPlaintext
  <2>1. Saves(job.peer) /\ job.peer \in Peer /\ mem' = mem
    BY <1>5, ReturnCiphertextOk, ReturnPlaintextOk DEF Saves, ReturnCiphertext, ReturnPlaintext
  <2> QED
    BY <1>1, <2>1
<1>6. CASE FinishTrust
  <2>1. Saves(job.peer) /\ job.peer \in Peer /\ (mem' = mem \/ Restarts)
    BY <1>6, FinishTrustOk DEF Saves
  <2> QED
    BY <1>1, <1>2, <2>1
<1>7. ASSUME NEW m \in Msg, Decrypt(m)
      PROVE  /\ disk' = disk
             /\ mem'.session[q] = mem.session[q] \/ (q = mail[m].peer /\ Deciphers(q, m))
  <2>1. PICK p \in Peer : p = mail[m].peer /\ Deciphers(p, m)
    BY <1>7, DecryptOk
  <2>2. q # p => mem'.session[q] = mem.session[q]
    BY <2>1 DEF Deciphers
  <2>3. disk' = disk
    BY <1>7 DEF Decrypt, store
  <2> QED
    BY <2>1, <2>2, <2>3
<1>8. ASSUME NEW m \in Msg, DecryptErr(m)
      PROVE  disk' = disk /\ mem'.session[q] \in {mem.session[q], LoadedSession(q)}
  BY <1>8, DecryptErrOk DEF Loads, DecryptErr, store
<1>9. ASSUME NEW p \in Peer, Trust(p) \/ Accept(p)
      PROVE  disk' = disk /\ mem'.session = mem.session
  BY <1>9, VouchesOk DEF Vouches
<1>10. CASE DropSession \/ DropIdentity
  <2>1. PICK p \in Peer : Drops(p)
    BY <1>10, DropSessionOk, DropIdentityOk
  <2> QED
    BY <2>1 DEF Drops
<1>11. CASE RevokeRow \/ Kill \/ Reopen
  BY <1>2, <1>11, ResetsOk DEF Resets
<1>12. CASE Replace
  BY <1>12, ReplaceOk
<1> QED
  BY <1>3, <1>4, <1>5, <1>6, <1>7, <1>8, <1>9, <1>10, <1>11, <1>12, NextCases

LEMMA AheadKept ==
  ASSUME Sound, MemoryAhead, [Next]_vars
  PROVE  MemoryAhead'
<1> SUFFICES ASSUME NEW q \in Peer
             PROVE  Ahead(q)'
  BY DEF MemoryAhead
<1>1. /\ LoadedSession(q) \in Session
      /\ disk.session[q].lines \subseteq LoadedSession(q).lines
      /\ disk.session[q].made <= LoadedSession(q).made
      /\ disk.session[q].got \subseteq LoadedSession(q).got
  BY LoadedAhead DEF Sound
<1>2. disk.session[q].made \in Nat /\ mem.session[q].made \in Nat /\ LoadedSession(q).made \in Nat
  BY <1>1 DEF Sound, TypeOK, Store, Session
<1>3. CASE mem'.session[q] = NoSession
  BY <1>3, NoSessionOk DEF Ahead
<1>4. CASE disk'.session[q] = mem.session[q] /\ Saves(q)
  BY <1>2, <1>3, <1>4 DEF Ahead, Saves, Restarts
<1>5. CASE disk'.session[q] \in {disk.session[q], NoSession}
  <2>1. /\ disk'.session[q].lines \subseteq disk.session[q].lines
        /\ disk'.session[q].made <= disk.session[q].made /\ disk'.session[q].made \in Nat
        /\ disk'.session[q].got \subseteq disk.session[q].got
    BY <1>2, <1>5, NoSessionOk
  <2>2. CASE mem'.session[q] = mem.session[q]
    BY <1>2, <2>1, <2>2 DEF MemoryAhead, Ahead
  <2>3. CASE mem'.session[q] = LoadedSession(q)
    BY <1>1, <1>2, <2>1, <2>3 DEF Ahead
  <2>4. CASE Enciphers(q)
    <3>1. /\ LoadedSession(q).lines \subseteq mem'.session[q].lines
          /\ mem'.session[q].made = LoadedSession(q).made + 1
          /\ mem'.session[q].got = LoadedSession(q).got
      BY <2>4 DEF Enciphers, Exists
    <3> QED
      BY <1>1, <1>2, <2>1, <3>1 DEF Ahead
  <2>5. ASSUME NEW m \in Msg, Deciphers(q, m)
        PROVE  Ahead(q)'
    <3>1. /\ LoadedSession(q).lines \subseteq mem'.session[q].lines
          /\ mem'.session[q].made = LoadedSession(q).made
          /\ LoadedSession(q).got \subseteq mem'.session[q].got
      BY <2>5 DEF Deciphers
    <3> QED
      BY <1>1, <1>2, <2>1, <3>1 DEF Ahead
  <2> QED
    BY <1>3, <2>2, <2>3, <2>4, <2>5, SessionSteps
<1> QED
  BY <1>4, <1>5, SessionSteps

(* Where the lines of a step's sessions come from. *)
LEMMA LineSteps ==
  ASSUME Sound, [Next]_vars, NEW q \in Peer
  PROVE  /\ \/ disk'.session[q].lines \subseteq disk.session[q].lines
            \/ disk'.session[q] = mem.session[q] /\ Saves(q)
         /\ \/ mem'.session[q].lines \subseteq disk.session[q].lines \cup mem.session[q].lines
            \/ /\ Encipher
               /\ mem'.session[q].lines \subseteq LoadedSession(q).lines \cup {OwnLine(job.gen)}
            \/ \E m \in Msg :
                 /\ Decrypt(m) /\ q = mail[m].peer
                 /\ mem'.session[q].lines = LoadedSession(q).lines \cup {mail[m].line}
<1>1. LoadedSession(q).lines \subseteq disk.session[q].lines \cup mem.session[q].lines
  BY DEF LoadedSession
<1>2. Enciphers(q) => mem'.session[q].lines \subseteq LoadedSession(q).lines \cup {OwnLine(job.gen)}
  BY DEF Enciphers
<1>3. \A m \in Msg : Deciphers(q, m) =>
        mem'.session[q].lines = LoadedSession(q).lines \cup {mail[m].line}
  BY DEF Deciphers
<1>4. NoSession.lines = {}
  BY NoSessionOk
<1>5. /\ \/ disk'.session[q] \in {disk.session[q], NoSession}
         \/ disk'.session[q] = mem.session[q] /\ Saves(q)
      /\ \/ mem'.session[q] \in {mem.session[q], LoadedSession(q), NoSession}
         \/ Encipher /\ Enciphers(q)
         \/ \E m \in Msg : Decrypt(m) /\ q = mail[m].peer /\ Deciphers(q, m)
  BY SessionSteps
<1>6. \/ disk'.session[q].lines \subseteq disk.session[q].lines
      \/ disk'.session[q] = mem.session[q] /\ Saves(q)
  BY <1>4, <1>5
<1>7. mem'.session[q] \in {mem.session[q], LoadedSession(q), NoSession} =>
        mem'.session[q].lines \subseteq disk.session[q].lines \cup mem.session[q].lines
  BY <1>1, <1>4
<1> QED
  BY <1>2, <1>3, <1>5, <1>6, <1>7

LEMMA MailSteps ==
  ASSUME [Next]_vars
  PROVE  mail' = mail \/ \E p \in Peer, n \in Msg : PeerWrites(p, n)
<1>1. CASE Quiet
  BY <1>1 DEF Quiet, PersistKeys, RecordRotation, Export, HandOut, Encrypt, Revoke,
              ForgetRevocation, AcceptRow, AcceptRecord, RecordReplacement, StatementFails,
              Interrupted, PeerReplaces, MonthPasses, vars, outside
<1> QED
  BY <1>1, LoudFrame

LEMMA LinesKept ==
  ASSUME Sound, LinesKnown, [Next]_vars
  PROVE  LinesKnown'
<1>1. given \subseteq given' /\ Letters
  BY QuietFrame, LoudFrame
<1>2. \A l : Known(l) => Known(l)'
  BY <1>1 DEF Known
<1>3. \A g : Known(OwnLine(g))
  BY DEF Known, OwnLine
<1>4. ASSUME NEW q \in Peer
      PROVE  \A l \in disk'.session[q].lines \cup mem'.session[q].lines : Known(l)'
  <2>1. \A l \in disk.session[q].lines \cup mem.session[q].lines : Known(l)
    BY DEF LinesKnown
  <2>2. LoadedSession(q).lines \subseteq disk.session[q].lines \cup mem.session[q].lines
    BY DEF LoadedSession
  <2>3. \A l \in disk'.session[q].lines : Known(l)
    BY <2>1, LineSteps
  <2>4. ASSUME NEW m \in Msg, Decrypt(m), mem'.session[q].lines = LoadedSession(q).lines \cup {mail[m].line}
        PROVE  \A l \in mem'.session[q].lines : Known(l)
    <3>1. mail[m] # None
      BY <2>4, DecryptOk
    <3>2. Known(mail[m].line)
      BY <3>1 DEF LinesKnown
    <3> QED
      BY <2>1, <2>2, <2>4, <3>2
  <2>5. \A l \in mem'.session[q].lines : Known(l)
    BY <2>1, <2>2, <2>4, <1>3, LineSteps
  <2> QED
    BY <1>2, <2>3, <2>5
<1>5. \A o \in out' : Known(o.line)'
  <2>1. CASE out' = out
    BY <1>2, <2>1 DEF LinesKnown
  <2>2. CASE ReturnCiphertext
    <3>1. PICK x : x = mem.session[job.peer]
      OBVIOUS
    <3>2. PICK c : c = Ciphertext
      OBVIOUS
    <3>3. out' = out \cup {c} /\ c.line = x.cur /\ x.cur \in x.lines /\ job.peer \in Peer
      BY <2>2, <3>1, <3>2, ReturnCiphertextOk
    <3>4. Known(x.cur)
      BY <3>1, <3>3 DEF LinesKnown
    <3> QED
      BY <1>2, <3>3, <3>4 DEF LinesKnown
  <2> QED
    BY <2>1, <2>2, QuietFrame, LoudFrame
<1>6. \A m \in Msg : mail'[m] # None => mail'[m].line.bundle \in given' \cup {None}
  <2>1. CASE mail' = mail
    BY <1>1, <2>1 DEF LinesKnown, Known
  <2>2. ASSUME NEW p \in Peer, NEW n \in Msg, PeerWrites(p, n)
        PROVE  \A m \in Msg : mail'[m] # None => mail'[m].line.bundle \in given' \cup {None}
    <3>1. PICK l \in LinesOf(p) : mail' = [mail EXCEPT ![n] = [peer |-> p, line |-> l]]
      BY <2>2 DEF PeerWrites
    <3>2. Known(l)
      <4>1. CASE l \in {[gen |-> peerGen[p], bundle |-> b, no |-> 0] : b \in given}
        BY <4>1 DEF Known
      <4>2. CASE l \in {o.line : o \in {x \in out : x.peer = p}}
        BY <4>2 DEF LinesKnown
      <4> QED
        BY <4>1, <4>2 DEF LinesOf
    <3>3. mail \in [Msg -> Letter \cup {None}]
      BY DEF Sound, TypeOK
    <3>4. \A m \in Msg : mail'[m] = mail[m] \/ mail'[m].line = l
      BY <3>1, <3>3
    <3>5. \A m \in Msg : mail[m] # None => mail[m].line.bundle \in given'  \cup {None}
      BY <1>1 DEF LinesKnown, Known
    <3>6. l.bundle \in given' \cup {None}
      BY <1>1, <3>2 DEF Known
    <3> QED
      BY <3>4, <3>5, <3>6
  <2> QED
    BY <2>1, <2>2, MailSteps
<1>7. /\ \A q \in Peer : \A l \in disk'.session[q].lines \cup mem'.session[q].lines :
            l.bundle \in given' \cup {None}
      /\ \A o \in out' : o.line.bundle \in given' \cup {None}
  BY <1>4, <1>5 DEF Known
<1> QED
  BY <1>6, <1>7 DEF LinesKnown, Known

-----------------------------------------------------------------------------
(* Prekeys: no step brings back the key of a bundle that was given away.   *)
Unused(k) == \A b \in given : b.key # k

LEMMA KeySteps ==
  ASSUME Sound, [Next]_vars
  PROVE  /\ disk'.prekeys \in {disk.prekeys, mem.prekeys, {}}
         /\ Restarts \/ \A k \in mem'.prekeys : k \in mem.prekeys \/ Unused(k)
         /\ Restarts => mem'.prekeys = disk'.prekeys
<1>1. disk \in Store /\ StoreOk(disk) /\ mem \in Store /\ StoreOk(mem) /\ created \in Nat
  BY DEF Sound, TypeOK, Shape
<1>2. Restarts => mem'.prekeys = disk'.prekeys
  BY DEF Restarts
<1>3. ASSUME NEW j \in Job, Maintain(j, mem, created)
      PROVE  \A k \in mem'.prekeys : k \in mem.prekeys \/ Unused(k)
  <2>1. Maintains(j, mem, created)
    BY <1>1, <1>3, MaintainOk DEF Sound
  <2> QED
    BY <2>1 DEF Maintains, IsMaintained, Grown, Unused
<1>4. CASE Export
  <2>1. PICK j : j = NewJob("export", "work", None, 0, None)
    OBVIOUS
  <2>2. j \in Job
    BY <2>1 DEF NewJob, Job, Op, At
  <2>3. disk' = disk
    BY <1>4 DEF Export, store
  <2> QED
    BY <1>2, <1>3, <1>4, <2>1, <2>2, <2>3 DEF Export
<1>5. ASSUME NEW p \in Peer, NEW g \in 0 .. peerGen[p], Encrypt(p, g)
      PROVE  disk' = disk /\ \A k \in mem'.prekeys : k \in mem.prekeys \/ Unused(k)
  <2>1. PICK j : j = NewJob("encrypt", "work", p, g, None)
    OBVIOUS
  <2>2. j \in Job
    BY <2>1 DEF NewJob, Job, Op, At, Sound, TypeOK
  <2> QED
    BY <1>3, <1>5, <2>1, <2>2 DEF Encrypt, store
<1>6. CASE PersistKeys
  <2>1. WithKeys(disk, mem).prekeys = mem.prekeys
    BY <1>1, WithKeysOk
  <2> QED
    BY <1>2, <1>6, <2>1 DEF PersistKeys
<1>7. CASE Quiet /\ ~PersistKeys /\ ~Export /\ ~(\E p \in Peer : \E g \in 0 .. peerGen[p] : Encrypt(p, g))
  <2>1. disk' = disk /\ mem' = mem
    BY <1>7 DEF Quiet, RecordRotation, HandOut, Revoke, ForgetRevocation, AcceptRow, AcceptRecord,
                RecordReplacement, StatementFails, Interrupted, PeerReplaces, MonthPasses,
                PeerWrites, vars, store
  <2> QED
    BY <1>2, <2>1
<1>8. CASE Encipher
  <2>1. disk' = disk /\ mem'.prekeys = mem.prekeys
    BY <1>8, EncipherOk DEF Enciphers, Loads, Encipher, store
  <2> QED
    BY <1>2, <2>1
<1>9. CASE ReturnCiphertext \/ ReturnPlaintext
  <2>1. Persists(job.peer) /\ mem' = mem
    BY <1>9, ReturnCiphertextOk, ReturnPlaintextOk DEF ReturnCiphertext, ReturnPlaintext
  <2> QED
    BY <1>2, <2>1 DEF Persists
<1>10. CASE FinishTrust
  <2>1. Persists(job.peer) /\ (mem' = mem \/ Restarts)
    BY <1>10, FinishTrustOk
  <2> QED
    BY <1>2, <2>1 DEF Persists
<1>11. ASSUME NEW m \in Msg, Decrypt(m)
       PROVE  disk' = disk /\ \A k \in mem'.prekeys : k \in mem.prekeys \/ Unused(k)
  <2>1. Rekeys(mail[m].peer, m, mail[m].line) /\ disk' = disk
    BY <1>11, DecryptOk DEF Decrypt, store
  <2> QED
    BY <2>1 DEF Rekeys, Unused
<1>12. ASSUME NEW m \in Msg, DecryptErr(m)
       PROVE  disk' = disk /\ mem'.prekeys = mem.prekeys
  BY <1>12, DecryptErrOk DEF Loads, DecryptErr, store
<1>13. ASSUME NEW p \in Peer, Trust(p) \/ Accept(p)
       PROVE  disk' = disk /\ mem'.prekeys = mem.prekeys
  BY <1>13, VouchesOk DEF Vouches
<1>14. CASE DropSession \/ DropIdentity
  <2>1. Drops(job.peer)
    BY <1>14, DropSessionOk, DropIdentityOk
  <2> QED
    BY <1>2, <2>1 DEF Drops
<1>15. CASE RevokeRow \/ Kill \/ Reopen
  BY <1>2, <1>15, ResetsOk DEF Resets
<1>16. CASE Replace
  <2>1. disk'.prekeys = {} /\ \A k \in mem'.prekeys : Unused(k)
    BY <1>16, ReplaceOk DEF Unused
  <2> QED
    BY <1>2, <2>1
<1>17. \/ Export \/ (\E p \in Peer : \E g \in 0 .. peerGen[p] : Encrypt(p, g)) \/ PersistKeys
       \/ Quiet /\ ~PersistKeys /\ ~Export /\ ~(\E p \in Peer : \E g \in 0 .. peerGen[p] : Encrypt(p, g))
       \/ ~Quiet
  OBVIOUS
<1> QED
  BY <1>2, <1>4, <1>5, <1>6, <1>7, <1>8, <1>9, <1>10, <1>11, <1>12, <1>13, <1>14, <1>15, <1>16,
     <1>17, NextCases

LEMMA SpentKept ==
  ASSUME Sound, LinesKnown, GotOk, SpentOk, [Next]_vars
  PROVE  SpentOk'
<1>1. /\ disk'.prekeys \in {disk.prekeys, mem.prekeys, {}}
      /\ Restarts \/ \A k \in mem'.prekeys : k \in mem.prekeys \/ Unused(k)
      /\ Restarts => mem'.prekeys = disk'.prekeys
  BY KeySteps
<1>2. ASSUME NEW l, Known(l), Spent(l, disk), Spent(l, mem)
      PROVE  Spent(l, disk') /\ Spent(l, mem')
  BY <1>1, <1>2 DEF Spent, Known, Unused
<1>3. ASSUME NEW l, Known(l), Spent(l, mem), ~Restarts
      PROVE  Spent(l, mem')
  BY <1>1, <1>3 DEF Spent, Known, Unused
<1>4. ASSUME NEW l, Spent(l, mem), NEW p \in Peer, Saves(p)
      PROVE  Spent(l, disk') /\ Spent(l, mem')
  BY <1>1, <1>4 DEF Spent, Saves, Persists
<1>5. \A p \in Peer : \A l \in disk.session[p].lines \cup mem.session[p].lines : Known(l)
  BY DEF LinesKnown
<1>6. ASSUME NEW q \in Peer
      PROVE  \A l \in disk'.session[q].lines : Spent(l, disk') /\ Spent(l, mem')
  <2>1. CASE disk'.session[q].lines \subseteq disk.session[q].lines
    BY <1>2, <1>5, <2>1 DEF SpentOk
  <2>2. CASE disk'.session[q] = mem.session[q] /\ Saves(q)
    BY <1>4, <2>2 DEF SpentOk
  <2> QED
    BY <2>1, <2>2, LineSteps
<1>7. ASSUME NEW q \in Peer
      PROVE  \A l \in mem'.session[q].lines : Spent(l, mem')
  <2>1. CASE Restarts
    BY <2>1, NoSessionOk DEF Restarts
  <2>2. CASE ~Restarts
    <3>1. \A l \in disk.session[q].lines \cup mem.session[q].lines : Spent(l, mem')
      BY <1>2, <1>3, <1>5, <2>2 DEF SpentOk
    <3>2. LoadedSession(q).lines \subseteq disk.session[q].lines \cup mem.session[q].lines
      BY DEF LoadedSession
    <3>3. \A g : Spent(OwnLine(g), mem')
      BY DEF Spent, OwnLine
    <3>4. ASSUME NEW m \in Msg, Decrypt(m), q = mail[m].peer,
                 mem'.session[q].lines = LoadedSession(q).lines \cup {mail[m].line}
          PROVE  \A l \in mem'.session[q].lines : Spent(l, mem')
      <4>1. Rekeys(q, m, mail[m].line)
        BY <3>4, DecryptOk
      <4>2. mail[m].line \in LoadedSession(q).lines \/ Spent(mail[m].line, mem')
        BY <4>1 DEF Rekeys, Spent
      <4> QED
        BY <3>1, <3>2, <3>4, <4>2
    <3> QED
      BY <3>1, <3>2, <3>3, <3>4, LineSteps
  <2> QED
    BY <2>1, <2>2
<1>8. \A o \in out' : Spent(o.line, disk') /\ Spent(o.line, mem')
  <2>1. \A o \in out : Spent(o.line, disk') /\ Spent(o.line, mem')
    BY <1>2 DEF SpentOk, LinesKnown
  <2>2. CASE ReturnCiphertext
    <3>1. PICK p \in Peer : p = job.peer /\ Persists(p)
      BY <2>2, ReturnCiphertextOk
    <3>2. PICK x : x = mem.session[p]
      OBVIOUS
    <3>3. PICK c : c = Ciphertext
      OBVIOUS
    <3>4. out' = out \cup {c} /\ c.line = x.cur /\ x.cur \in x.lines
      BY <2>2, <3>1, <3>2, <3>3, ReturnCiphertextOk
    <3>5. Spent(x.cur, mem) /\ mem' = mem
      BY <2>2, <3>2, <3>4 DEF SpentOk, ReturnCiphertext
    <3>6. Spent(x.cur, disk') /\ Spent(x.cur, mem')
      BY <1>4, <3>1, <3>5 DEF Saves
    <3> QED
      BY <2>1, <3>4, <3>6
  <2> QED
    BY <2>1, <2>2, QuietFrame, LoudFrame
<1>9. \A m \in seen' : Spent(mail'[m].line, disk') /\ Spent(mail'[m].line, mem')
  <2>1. \A m \in seen : mail[m] # None /\ mail'[m] = mail[m] /\ m \in Msg
    BY QuietFrame, LoudFrame DEF GotOk, Got, Letters, Sound, TypeOK
  <2>2. \A m \in seen : Spent(mail[m].line, disk') /\ Spent(mail[m].line, mem')
    BY <1>2, <2>1 DEF SpentOk, LinesKnown
  <2>3. CASE ReturnPlaintext
    <3>1. PICK p \in Peer : p = job.peer /\ Persists(p)
      BY <2>3, ReturnPlaintextOk
    <3>2. PICK n \in Msg : n = job.msg /\ seen' = seen \cup {n}
      BY <2>3, ReturnPlaintextOk
    <3>3. mail[n].line \in mem.session[p].lines /\ mail' = mail /\ mem' = mem
      BY <2>3, <3>1, <3>2 DEF Sound, Deciphering, ReturnPlaintext, AtStep, outside
    <3>4. Spent(mail[n].line, mem)
      BY <3>3 DEF SpentOk
    <3>5. Spent(mail[n].line, disk') /\ Spent(mail[n].line, mem')
      BY <1>4, <3>1, <3>3, <3>4 DEF Saves
    <3> QED
      BY <2>1, <2>2, <3>2, <3>3, <3>5
  <2>4. CASE seen' = seen
    BY <2>1, <2>2, <2>4
  <2> QED
    BY <2>3, <2>4, QuietFrame, LoudFrame
<1>10. \A q \in Peer : /\ \A l \in disk'.session[q].lines : Spent(l, disk') /\ Spent(l, mem')
                       /\ \A l \in mem'.session[q].lines : Spent(l, mem')
  BY <1>6, <1>7
<1> QED
  BY <1>8, <1>9, <1>10 DEF SpentOk

-----------------------------------------------------------------------------
(* Which operation runs after a step.                                      *)
Standing ==
  \/ \E p \in Peer : PeerReplaces(p)
  \/ \E p \in Peer, m \in Msg : PeerWrites(p, m)
  \/ UNCHANGED vars

LEMMA StandingFrame ==
  ASSUME Standing
  PROVE  UNCHANGED <<disk, created, revoked, recovery, mem, job, month, history>>
BY DEF Standing, PeerReplaces, PeerWrites, vars, store, record, history

LEMMA JobSteps ==
  ASSUME Sound, [Next]_vars
  PROVE  \/ Returning /\ job' = NoJob
         \/ Standing /\ job' = job
         \/ /\ PersistKeys \/ RecordRotation
            /\ job'.op = job.op /\ job'.msg = job.msg /\ job'.at \in {"rotation", "work"}
         \/ Encipher /\ (job' = NoJob \/ (job'.op = "encrypt" /\ job'.at = "persist"))
         \/ (\E m \in Msg : Decrypt(m) /\ job'.op = "decrypt" /\ job'.msg = m)
         \/ /\ Export \/ \E p \in Peer : \E g \in 0 .. peerGen[p] : Encrypt(p, g)
            /\ job'.op \in {"export", "encrypt"} /\ job'.at \in {"work", "keys"}
         \/ job'.op \in {"trust", "accept", "revoke"}
         \/ Replace /\ job'.op = "replace" /\ job'.at = "keys"
<1>1. CASE Returning
  BY <1>1 DEF Returning, HandOut, ReturnCiphertext, ReturnPlaintext, RevokeRow, FinishTrust,
         RecordReplacement, StatementFails, Kill, Reopen, MonthPasses, DecryptErr, Interrupted,
         Return, Idle
<1>2. CASE Standing
  BY <1>2, StandingFrame
<1>3. CASE PersistKeys \/ RecordRotation
  <2>1. Goto("rotation") \/ Goto("work")
    BY <1>3 DEF PersistKeys, RecordRotation
  <2> QED
    BY <1>3, <2>1, GotoOk DEF Sound, At
<1>4. CASE Encipher
  <2>1. Return \/ Goto("persist")
    BY <1>4, EncipherOk
  <2>2. job.op = "encrypt"
    BY <1>4 DEF Encipher, AtStep
  <2> QED
    BY <1>4, <2>1, <2>2, GotoOk, ReturnOk DEF Sound, At
<1>5. ASSUME NEW m \in Msg, Decrypt(m)
      PROVE  job'.op = "decrypt" /\ job'.msg = m
  BY <1>5, DecryptOk DEF Rekeys
<1>6. ASSUME NEW j \in Job, Maintain(j, mem, created)
      PROVE  job'.op = j.op /\ job'.at \in {"work", "keys"}
  <2>1. Maintains(j, mem, created)
    BY <1>6, MaintainOk DEF Sound, TypeOK, Shape
  <2> QED
    BY <2>1 DEF Maintains
<1>7. CASE Export
  <2>1. PICK j : j = NewJob("export", "work", None, 0, None)
    OBVIOUS
  <2>2. j \in Job /\ j.op = "export"
    BY <2>1 DEF NewJob, Job, Op, At
  <2> QED
    BY <1>6, <1>7, <2>1, <2>2 DEF Export
<1>8. ASSUME NEW p \in Peer, NEW g \in 0 .. peerGen[p], Encrypt(p, g)
      PROVE  job'.op = "encrypt" /\ job'.at \in {"work", "keys"}
  <2>1. PICK j : j = NewJob("encrypt", "work", p, g, None)
    OBVIOUS
  <2>2. j \in Job /\ j.op = "encrypt"
    BY <2>1 DEF NewJob, Job, Op, At, Sound, TypeOK
  <2> QED
    BY <1>6, <1>8, <2>1, <2>2 DEF Encrypt
<1>9. ASSUME NEW p \in Peer, Trust(p) \/ Accept(p)
      PROVE  job'.op \in {"trust", "accept", "revoke"}
  BY <1>9, VouchesOk DEF Vouches
<1>10. ASSUME NEW p \in Peer, Revoke(p)
       PROVE  job'.op \in {"trust", "accept", "revoke"}
  BY <1>10 DEF Revoke, NewJob
<1>11. CASE ForgetRevocation \/ AcceptRow \/ AcceptRecord \/ DropSession \/ DropIdentity
  <2>1. \E a \in At : Goto(a)
    BY <1>11 DEF ForgetRevocation, AcceptRow, AcceptRecord, DropSession, DropIdentity, At
  <2>2. job.op \in {"trust", "accept", "revoke"}
    BY <1>11 DEF ForgetRevocation, AcceptRow, AcceptRecord, DropSession, DropIdentity, AtStep
  <2> QED
    BY <2>1, <2>2, GotoOk DEF Sound
<1>12. CASE Replace
  BY <1>12, ReplaceOk
<1> QED
  BY <1>1, <1>2, <1>3, <1>4, <1>5, <1>7, <1>8, <1>9, <1>10, <1>11, <1>12, NextCases
  DEF Quiet, Returning, Standing

-----------------------------------------------------------------------------
(* A session counts the ciphertexts returned in it, and so does every      *)
(* later state of it, in the memory or on disk.                            *)
LEMMA CountsKept ==
  ASSUME Sound, SpentOk, MadeOk, [Next]_vars, NEW o \in out
  PROVE  /\ o.line \in disk'.session[o.peer].lines => o.no <= disk'.session[o.peer].made
         /\ o.line \in mem'.session[o.peer].lines => o.no <= mem'.session[o.peer].made
<1>1. PICK q \in Peer : q = o.peer
  BY DEF Sound, TypeOK
<1>2. o.no \in Nat /\ LoadedSession(q).made \in Nat
  BY LoadedAhead DEF Sound, TypeOK, Session
<1>3. /\ o.line \in disk.session[q].lines => o.no <= disk.session[q].made
      /\ o.line \in mem.session[q].lines => o.no <= mem.session[q].made
  BY <1>1 DEF MadeOk, Counts
<1>4. o.line \in LoadedSession(q).lines => o.no <= LoadedSession(q).made
  BY <1>3 DEF LoadedSession
<1>5. NoSession.lines = {}
  BY NoSessionOk
<1>6. o.line \in disk'.session[q].lines => o.no <= disk'.session[q].made
  BY <1>3, <1>5, SessionSteps
<1>7. ASSUME Enciphers(q), o.line \in mem'.session[q].lines
      PROVE  o.no <= mem'.session[q].made
  <2>1. o.line.no # NewLine
    BY NewLineOk DEF Sound
  <2>2. o.line # OwnLine(job.gen)
    BY <2>1 DEF OwnLine
  <2>3. o.line \in LoadedSession(q).lines /\ mem'.session[q].made = LoadedSession(q).made + 1
    BY <1>7, <2>2 DEF Enciphers
  <2> QED
    BY <1>2, <1>4, <2>3
<1>8. ASSUME NEW m \in Msg, Decrypt(m), q = mail[m].peer, o.line \in mem'.session[q].lines
      PROVE  o.no <= mem'.session[q].made
  <2>1. PICK l : l = mail[m].line
    OBVIOUS
  <2>2. Deciphers(q, m) /\ Rekeys(q, m, l)
    BY <1>8, <2>1, DecryptOk
  <2>3. Spent(o.line, mem)
    BY DEF SpentOk
  <2>4. o.line = l => o.line \in LoadedSession(q).lines
    BY <2>2, <2>3 DEF Rekeys, Spent
  <2>5. o.line \in LoadedSession(q).lines /\ mem'.session[q].made = LoadedSession(q).made
    BY <1>8, <2>1, <2>2, <2>4 DEF Deciphers
  <2> QED
    BY <1>4, <2>5
<1>9. o.line \in mem'.session[q].lines => o.no <= mem'.session[q].made
  BY <1>3, <1>4, <1>5, <1>7, <1>8, SessionSteps
<1> QED
  BY <1>1, <1>6, <1>9

LEMMA MadeKept ==
  ASSUME Sound, SpentOk, MadeOk, [Next]_vars
  PROVE  MadeOk'
<1>1. ASSUME out' = out
      PROVE  Counts(disk)' /\ Counts(mem)'
  BY <1>1, CountsKept DEF Counts
<1>2. ASSUME ReturnCiphertext
      PROVE  Counts(disk)' /\ Counts(mem)'
  <2>1. PICK p \in Peer : p = job.peer /\ Persists(p)
    BY <1>2, ReturnCiphertextOk
  <2>2. PICK x : x = mem.session[p]
    OBVIOUS
  <2>3. PICK c : c = Ciphertext
    OBVIOUS
  <2>4. /\ Exists(x) /\ x.made \in Nat
        /\ out' = out \cup {c} /\ c.peer = p /\ c.line = x.cur /\ c.no = x.made
    BY <1>2, <2>1, <2>2, <2>3, ReturnCiphertextOk
  <2>5. disk'.session[p] = x /\ mem'.session[p] = x
    BY <1>2, <2>1, <2>2, <2>4 DEF Persists, ReturnCiphertext
  <2>6. c.no <= disk'.session[p].made /\ c.no <= mem'.session[p].made
    BY <2>4, <2>5
  <2> QED
    BY <2>4, <2>6, CountsKept DEF Counts
<1>3. Counts(disk)' /\ Counts(mem)'
  BY <1>1, <1>2, QuietFrame, LoudFrame
<1>4. ASSUME AtStep({"encrypt"}, "persist")'
      PROVE  \/ Encipher /\ Enciphers(job.peer) /\ job'.peer = job.peer
             \/ Standing /\ job' = job
  <2>1. job'.op = "encrypt" /\ job'.at = "persist"
    BY <1>4 DEF AtStep
  <2>2. Encipher \/ (Standing /\ job' = job)
    BY <2>1, JobSteps DEF NoJob
  <2>3. CASE Encipher
    <3>1. ~Return
      BY <2>1, ReturnOk
    <3> QED
      BY <2>3, <3>1, EncipherOk, GotoOk DEF Sound, At
  <2> QED
    BY <2>2, <2>3
<1>5. ASSUME Standing, job' = job
      PROVE  FreshCiphertext'
  BY <1>5, StandingFrame DEF MadeOk, FreshCiphertext, AtStep, Ciphertext, history
<1>6. ASSUME Encipher, Enciphers(job.peer), job'.peer = job.peer
      PROVE  FreshCiphertext'
  <2>1. PICK p \in Peer : p = job.peer
    BY <1>6, EncipherOk
  <2>2. out' = out
    BY <1>6 DEF Encipher, record, history
  <2>3. ASSUME NEW o \in out, o.peer = p, o.line = mem'.session[p].cur
        PROVE  o.no # mem'.session[p].made
    <3>1. o.no \in Nat /\ LoadedSession(p).made \in Nat
      BY LoadedAhead DEF Sound, TypeOK, Session
    <3>2. o.line.no # NewLine
      BY NewLineOk DEF Sound
    <3>3. o.line # OwnLine(job.gen)
      BY <3>2 DEF OwnLine
    <3>4. Exists(LoadedSession(p)) /\ o.line = LoadedSession(p).cur
          /\ mem'.session[p].made = LoadedSession(p).made + 1
      BY <1>6, <2>1, <2>3, <3>3 DEF Enciphers
    <3>5. o.line \in LoadedSession(p).lines
      BY <3>4, LoadedAhead DEF Sound, SessionOk, Exists
    <3>6. o.no <= LoadedSession(p).made
      BY <2>3, <3>5 DEF MadeOk, Counts, LoadedSession
    <3> QED
      BY <3>1, <3>4, <3>6
  <2> QED
    BY <1>6, <2>1, <2>2, <2>3 DEF FreshCiphertext, Ciphertext
<1>7. FreshCiphertext'
  BY <1>4, <1>5, <1>6 DEF FreshCiphertext
<1> QED
  BY <1>3, <1>7 DEF MadeOk

-----------------------------------------------------------------------------
(* What was returned, and what was cut short, stays so. *)
LEMMA HistoryKept ==
  ASSUME Sound, [Next]_vars
  PROVE  seen \subseteq seen' /\ out \subseteq out' /\ cut \subseteq cut' /\ given \subseteq given'
<1>1. given \subseteq given'
  BY QuietFrame, LoudFrame
<1>2. seen \subseteq seen'
  BY QuietFrame, LoudFrame DEF ReturnPlaintext
<1>3. out \subseteq out'
  BY QuietFrame, LoudFrame DEF ReturnCiphertext
<1>4. cut \subseteq cut'
  BY NextCases
  DEF Quiet, PersistKeys, RecordRotation, Export, HandOut, Encrypt, Revoke, ForgetRevocation,
      AcceptRow, AcceptRecord, RecordReplacement, StatementFails, Interrupted, PeerReplaces,
      MonthPasses, PeerWrites, vars, Encipher, ReturnCiphertext, Decrypt, DecryptErr,
      ReturnPlaintext, Trust, Accept, DropSession, DropIdentity, RevokeRow, FinishTrust,
      Replace, Kill, Reopen, record, history
<1> QED
  BY <1>1, <1>2, <1>3, <1>4

(* A peer answers in a line of this device only when it has seen it.       *)
Answered ==
  \A m \in Msg : mail[m] # None /\ mail[m].line.bundle = None =>
    \E o \in out : o.line = mail[m].line

LEMMA AnsweredKept ==
  ASSUME Sound, Answered, [Next]_vars
  PROVE  Answered'
<1>1. out \subseteq out'
  BY HistoryKept
<1>2. CASE mail' = mail
  BY <1>1, <1>2 DEF Answered
<1>3. ASSUME NEW p \in Peer, NEW n \in Msg, PeerWrites(p, n)
      PROVE  Answered'
  <2>1. PICK l \in LinesOf(p) : mail' = [mail EXCEPT ![n] = [peer |-> p, line |-> l]]
    BY <1>3 DEF PeerWrites
  <2>2. l.bundle = None => \E o \in out : o.line = l
    <3>1. None \notin given
      BY NoneAssumption DEF Sound, TypeOK
    <3>2. CASE l \in {[gen |-> peerGen[p], bundle |-> b, no |-> 0] : b \in given}
      BY <3>1, <3>2
    <3>3. CASE l \in {o.line : o \in {x \in out : x.peer = p}}
      BY <3>3
    <3> QED
      BY <3>2, <3>3 DEF LinesOf
  <2>3. mail \in [Msg -> Letter \cup {None}]
    BY DEF Sound, TypeOK
  <2>4. \A m \in Msg : mail'[m] = mail[m] \/ mail'[m].line = l
    BY <2>1, <2>3
  <2> QED
    BY <1>1, <2>2, <2>4 DEF Answered
<1> QED
  BY <1>2, <1>3, MailSteps

-----------------------------------------------------------------------------
(* A session knows the messages that were returned, whichever copy of it   *)
(* is loaded; and no message is opened twice.                              *)
LEMMA OpenedFresh ==
  ASSUME Sound, SpentOk, GotOk, NEW m \in Msg, Decrypt(m)
  PROVE  m \notin seen
<1> SUFFICES ASSUME m \in seen
             PROVE  FALSE
  OBVIOUS
<1>1. PICK p \in Peer : p = mail[m].peer
  BY DecryptOk
<1>2. PICK l : l = mail[m].line
  OBVIOUS
<1>3. Deciphers(p, m) /\ Rekeys(p, m, l)
  BY <1>1, <1>2, DecryptOk
<1>4. l \in LoadedSession(p).lines => m \in LoadedSession(p).got
  BY <1>1, <1>2 DEF GotOk, Got, LoadedSession
<1>5. l \notin LoadedSession(p).lines
  BY <1>2, <1>3, <1>4 DEF Deciphers
<1>6. l.bundle # None /\ l.bundle.key \in mem.prekeys
  BY <1>3, <1>5 DEF Rekeys
<1>7. Spent(l, mem)
  BY <1>2 DEF SpentOk
<1> QED
  BY <1>6, <1>7 DEF Spent

LEMMA GotStays ==
  ASSUME Sound, SpentOk, Answered, GotOk, [Next]_vars, NEW m \in seen
  PROVE  LET q == mail[m].peer
         IN  /\ m \in Msg /\ mail[m] # None /\ mail'[m] = mail[m] /\ q \in Peer
             /\ mail[m].line \in disk'.session[q].lines => m \in disk'.session[q].got
             /\ mail[m].line \in mem'.session[q].lines => m \in mem'.session[q].got
<1>1. m \in Msg /\ mail[m] # None
  BY DEF GotOk, Got, Sound, TypeOK
<1>2. mail'[m] = mail[m]
  BY <1>1, QuietFrame, LoudFrame DEF Letters
<1>3. PICK q \in Peer : q = mail[m].peer
  BY <1>1, LetterOk DEF Sound
<1>4. PICK l : l = mail[m].line
  OBVIOUS
<1>5. /\ l \in disk.session[q].lines => m \in disk.session[q].got
      /\ l \in mem.session[q].lines => m \in mem.session[q].got
  BY <1>3, <1>4 DEF GotOk, Got
<1>6. l \in LoadedSession(q).lines => m \in LoadedSession(q).got
  BY <1>5 DEF LoadedSession
<1>7. NoSession.lines = {}
  BY NoSessionOk
<1>8. l \in disk'.session[q].lines => m \in disk'.session[q].got
  BY <1>5, <1>7, SessionSteps
<1>9. ASSUME Enciphers(q), l \in mem'.session[q].lines
      PROVE  m \in mem'.session[q].got
  <2>1. l # OwnLine(job.gen)
    <3>1. SUFFICES ASSUME l.bundle = None
                   PROVE  l.no # NewLine
      BY DEF OwnLine
    <3>2. \A o \in out : o.line.no # NewLine
      BY NewLineOk DEF Sound
    <3> QED
      BY <1>1, <1>4, <3>1, <3>2 DEF Answered
  <2> QED
    BY <1>6, <1>9, <2>1 DEF Enciphers
<1>10. ASSUME NEW n \in Msg, Decrypt(n), q = mail[n].peer, l \in mem'.session[q].lines
       PROVE  m \in mem'.session[q].got
  <2>1. PICK k : k = mail[n].line
    OBVIOUS
  <2>2. Deciphers(q, n) /\ Rekeys(q, n, k)
    BY <1>10, <2>1, DecryptOk
  <2>3. Spent(l, mem)
    BY <1>4 DEF SpentOk
  <2>4. l = k => l \in LoadedSession(q).lines
    BY <2>2, <2>3 DEF Rekeys, Spent
  <2>5. l \in LoadedSession(q).lines
    BY <1>10, <2>1, <2>2, <2>4 DEF Deciphers
  <2> QED
    BY <1>6, <2>2, <2>5 DEF Deciphers
<1>11. l \in mem'.session[q].lines => m \in mem'.session[q].got
  BY <1>5, <1>6, <1>7, <1>9, <1>10, SessionSteps
<1> QED
  BY <1>1, <1>2, <1>3, <1>4, <1>8, <1>11

LEMMA GotPartsKept ==
  ASSUME Sound, SpentOk, Answered, GotOk, [Next]_vars
  PROVE  Got(disk)' /\ Got(mem)'
<1>1. \A m \in seen :
        /\ mail'[m] # None
        /\ mail'[m].line \in disk'.session[mail'[m].peer].lines =>
             m \in disk'.session[mail'[m].peer].got
        /\ mail'[m].line \in mem'.session[mail'[m].peer].lines =>
             m \in mem'.session[mail'[m].peer].got
  BY GotStays
<1>2. ASSUME ReturnPlaintext
      PROVE  LET n == job.msg
             IN  /\ seen' = seen \cup {n} /\ mail'[n] # None
                 /\ n \in disk'.session[mail'[n].peer].got
                 /\ n \in mem'.session[mail'[n].peer].got
  <2>1. PICK p \in Peer : p = job.peer /\ Persists(p)
    BY <1>2, ReturnPlaintextOk
  <2>2. PICK n \in Msg : n = job.msg /\ seen' = seen \cup {n}
    BY <1>2, ReturnPlaintextOk
  <2>3. job.op = "decrypt"
    BY <1>2 DEF ReturnPlaintext, AtStep
  <2>4. /\ mail[n] # None /\ mail[n].peer = p /\ n \in mem.session[p].got
        /\ mail[n].line \in mem.session[p].lines
    BY <2>1, <2>2, <2>3 DEF Sound, Deciphering
  <2>5. mail' = mail /\ mem' = mem
    BY <1>2 DEF ReturnPlaintext, outside
  <2>6. disk'.session[p] = mem.session[p]
    BY <2>1, <2>4 DEF Persists, Exists
  <2> QED
    BY <2>2, <2>4, <2>5, <2>6
<1>3. seen' = seen \/ ReturnPlaintext
  BY QuietFrame, LoudFrame
<1> QED
  BY <1>1, <1>2, <1>3 DEF Got

(* The steps of an opening. *)
LEMMA OpeningSteps ==
  ASSUME Sound, [Next]_vars, job.op = "decrypt"
  PROVE  \/ (PersistKeys \/ RecordRotation) /\ job'.op = job.op /\ job'.msg = job.msg
         \/ Standing
         \/ ReturnPlaintext \/ StatementFails \/ Kill
<1>1. ~Idle
  BY DEF Idle, NoJob
<1>2. \/ PersistKeys \/ RecordRotation \/ Standing \/ ReturnPlaintext \/ StatementFails \/ Kill
  BY <1>1, NextCases
  DEF Quiet, Export, HandOut, Encrypt, Revoke, ForgetRevocation,
      AcceptRow, AcceptRecord, RecordReplacement, MonthPasses, Encipher, ReturnCiphertext,
      Decrypt, DecryptErr, Trust, Accept, DropSession, DropIdentity, RevokeRow, FinishTrust,
      Replace, Reopen, AtStep, Standing
<1>3. CASE PersistKeys \/ RecordRotation
  <2>1. Goto("rotation") \/ Goto("work")
    BY <1>3 DEF PersistKeys, RecordRotation
  <2> QED
    BY <1>3, <2>1, GotoOk DEF Sound, At
<1> QED
  BY <1>2, <1>3

(* Unless an opening failed to be saved, a message is in a session only    *)
(* when it was returned or is being opened.                                *)
ReadOk ==
  \A p \in Peer : /\ disk.session[p].got \subseteq seen
                  /\ \A m \in mem.session[p].got : m \in seen \/ Opening(m)

LEMMA ReadKept ==
  ASSUME Sound, ReadOk, [Next]_vars
  PROVE  Lost' \/ ReadOk'
<1>1. seen \subseteq seen'
  BY HistoryKept
<1>2. NoSession.got = {}
  BY NoSessionOk
<1>3. CASE job.op = "decrypt"
  <2>1. CASE (PersistKeys \/ RecordRotation) /\ job'.op = job.op /\ job'.msg = job.msg
    <3>1. disk'.session = disk.session /\ mem'.session = mem.session
      BY <2>1, QuietFrame DEF Quiet
    <3> QED
      BY <1>1, <2>1, <3>1 DEF ReadOk, Opening
  <2>2. CASE Standing
    BY <2>2, StandingFrame DEF ReadOk, Opening, history
  <2>3. CASE ReturnPlaintext
    <3>1. /\ \A p \in Peer : disk'.session[p] \in {disk.session[p], NoSession, mem.session[p]}
          /\ mem' = mem
      BY <2>3, SessionSteps DEF ReturnPlaintext
    <3>2. seen' = seen \cup {job.msg}
      BY <2>3 DEF ReturnPlaintext
    <3> QED
      BY <1>2, <3>1, <3>2 DEF ReadOk, Opening
  <2>4. CASE StatementFails
    <3>1. "unsaved" \in Undone("error")
      BY <1>3 DEF Undone, Cuts
    <3> QED
      BY <2>4, <3>1 DEF StatementFails, Interrupted, Lost
  <2>5. CASE Kill
    <3>1. \A p \in Peer : mem'.session[p] = NoSession
      BY <2>5, ResetsOk DEF Resets, Restarts
    <3>2. disk' = disk
      BY <2>5, ResetsOk DEF Resets
    <3> QED
      BY <1>1, <1>2, <3>1, <3>2 DEF ReadOk
  <2> QED
    BY <1>3, <2>1, <2>2, <2>3, <2>4, <2>5, OpeningSteps
<1>4. CASE job.op # "decrypt"
  <2>1. \A p \in Peer : disk.session[p].got \subseteq seen /\ mem.session[p].got \subseteq seen
    BY <1>4 DEF ReadOk, Opening
  <2>2. ASSUME NEW q \in Peer
        PROVE  /\ disk'.session[q].got \subseteq seen
               /\ \A m \in mem'.session[q].got : m \in seen \/ Opening(m)'
    <3>1. LoadedSession(q).got \subseteq seen
      BY <2>1 DEF LoadedSession
    <3>2. disk'.session[q].got \subseteq seen
      BY <1>2, <2>1, SessionSteps
    <3>3. Enciphers(q) => mem'.session[q].got = LoadedSession(q).got
      BY DEF Enciphers
    <3>4. ASSUME NEW n \in Msg, Decrypt(n), Deciphers(q, n)
          PROVE  /\ mem'.session[q].got = LoadedSession(q).got \cup {n}
                 /\ Opening(n)'
      <4>1. job'.op = "decrypt" /\ job'.msg = n
        BY <3>4, DecryptOk DEF Rekeys
      <4> QED
        BY <3>4, <4>1 DEF Deciphers, Opening
    <3>5. \/ mem'.session[q] \in {mem.session[q], LoadedSession(q), NoSession}
          \/ Enciphers(q)
          \/ \E n \in Msg : Decrypt(n) /\ Deciphers(q, n)
      BY SessionSteps
    <3>6. \A m \in mem'.session[q].got : m \in seen \/ Opening(m)'
      BY <1>2, <2>1, <3>1, <3>3, <3>4, <3>5
    <3> QED
      BY <3>2, <3>6
  <2> QED
    BY <1>1, <2>2 DEF ReadOk
<1> QED
  BY <1>3, <1>4

LEMMA GotKept ==
  ASSUME Sound, SpentOk, Answered, GotOk, [Next]_vars
  PROVE  GotOk'
<1>1. Got(disk)' /\ Got(mem)'
  BY GotPartsKept
<1>2. Lost \/ ReadOk
  BY DEF GotOk, ReadOk
<1>3. seen \subseteq seen' /\ (Lost => Lost')
  BY HistoryKept DEF Lost
<1>4. Lost' \/ ReadOk'
  BY <1>2, <1>3, ReadKept
<1>5. StaleWasRead'
  <2>1. CASE dropped' = dropped
    BY <1>3, <2>1 DEF GotOk, StaleWasRead, Lost
  <2>2. ASSUME NEW m \in Msg, DecryptErr(m)
        PROVE  StaleWasRead'
    <3>1. PICK p \in Peer : p = mail[m].peer
      BY <2>2, DecryptErrOk
    <3>2. Idle
      BY <2>2, DecryptErrOk
    <3>3. dropped' = dropped \/ (dropped' = dropped \cup {m} /\ m \in LoadedSession(p).got)
      BY <2>2, <3>1, DecryptErrOk
    <3>4. Lost \/ LoadedSession(p).got \subseteq seen
      BY <1>2, <3>2 DEF ReadOk, Opening, Idle, NoJob, LoadedSession
    <3> QED
      BY <1>3, <3>3, <3>4 DEF GotOk, StaleWasRead, Lost
  <2> QED
    BY <2>1, <2>2, QuietFrame, LoudFrame
<1> QED
  BY <1>1, <1>4, <1>5 DEF GotOk, ReadOk

-----------------------------------------------------------------------------
(* The memory and the database trust verified identities only. *)
LEMMA TrustKept ==
  ASSUME Sound, TrustOk, [Next]_vars
  PROVE  TrustOk'
<1> SUFFICES ASSUME NEW q \in Peer
             PROVE  disk'.trusted[q] \cup mem'.trusted[q] \subseteq verified'[q]
  BY DEF TrustOk
<1>1. disk.trusted[q] \cup mem.trusted[q] \cup LoadedTrust(q) \subseteq verified[q]
  BY DEF TrustOk, LoadedTrust
<1>2. verified \in [Peer -> SUBSET Nat]
  BY DEF Sound, TypeOK
<1>3. CASE Quiet
  BY <1>1, <1>3, QuietFrame
<1>4. CASE Encipher
  <2>1. PICK p \in Peer : p = job.peer /\ Loads(p)
    BY <1>4, EncipherOk DEF Enciphers
  <2>2. disk' = disk /\ verified' = verified
    BY <1>4 DEF Encipher, store, record, history
  <2> QED
    BY <1>1, <2>1, <2>2 DEF Loads
<1>5. ASSUME NEW m \in Msg, DecryptErr(m)
      PROVE  disk'.trusted[q] \cup mem'.trusted[q] \subseteq verified'[q]
  <2>1. PICK p \in Peer : p = mail[m].peer /\ Loads(p)
    BY <1>5, DecryptErrOk
  <2>2. disk' = disk /\ verified' = verified
    BY <1>5 DEF DecryptErr, store
  <2> QED
    BY <1>1, <2>1, <2>2 DEF Loads
<1>6. ASSUME NEW m \in Msg, Decrypt(m)
      PROVE  disk'.trusted[q] \cup mem'.trusted[q] \subseteq verified'[q]
  <2>1. PICK p \in Peer : p = mail[m].peer /\ Deciphers(p, m)
    BY <1>6, DecryptOk
  <2>2. disk' = disk /\ verified' = verified
    BY <1>6 DEF Decrypt, store, record, history
  <2> QED
    BY <1>1, <2>1, <2>2 DEF Deciphers
<1>7. CASE ReturnCiphertext \/ ReturnPlaintext
  <2>1. PICK p \in Peer : p = job.peer /\ Persists(p)
    BY <1>7, ReturnCiphertextOk, ReturnPlaintextOk
  <2>2. mem' = mem /\ verified' = verified
    BY <1>7 DEF ReturnCiphertext, ReturnPlaintext
  <2> QED
    BY <1>1, <2>1, <2>2 DEF Persists
<1>8. ASSUME NEW p \in Peer, Trust(p) \/ Accept(p)
      PROVE  disk'.trusted[q] \cup mem'.trusted[q] \subseteq verified'[q]
  <2>1. Vouches(p)
    BY <1>8, VouchesOk
  <2>2. verified[q] \subseteq verified'[q] /\ peerGen[p] \in verified'[p] /\ disk' = disk
    BY <1>2, <2>1 DEF Vouches
  <2>3. mem'.trusted[q] = IF q = p THEN {peerGen[p]} ELSE mem.trusted[q]
    BY <2>1 DEF Vouches
  <2> QED
    BY <1>1, <2>2, <2>3
<1>9. CASE DropSession \/ DropIdentity
  <2>1. PICK p \in Peer : Drops(p)
    BY <1>9, DropSessionOk, DropIdentityOk
  <2> QED
    BY <1>1, <2>1 DEF Drops
<1>10. CASE RevokeRow
  <2>1. disk' = disk /\ mem'.trusted[q] = {}
    BY <1>10, ResetsOk DEF Resets, Restarts
  <2>2. disk.trusted[job.peer] = {} /\ verified' = [verified EXCEPT ![job.peer] = {}]
    BY <1>10 DEF RevokeRow, Sound, Stages
  <2> QED
    BY <1>1, <1>2, <2>1, <2>2
<1>11. CASE Kill \/ Reopen
  <2>1. disk' = disk /\ mem'.trusted[q] = {}
    BY <1>11, ResetsOk DEF Resets, Restarts
  <2>2. verified' = verified
    BY <1>11 DEF Kill, Interrupted, Reopen, record, history
  <2> QED
    BY <1>1, <2>1, <2>2
<1>12. CASE FinishTrust
  <2>1. PICK p \in Peer : p = job.peer /\ Persists(p) /\ mem.trusted[p] = {job.gen}
    BY <1>12, FinishTrustOk
  <2>2. mem' = mem \/ mem'.trusted[q] = {}
    BY <1>12, FinishTrustOk DEF Restarts
  <2>3. verified' = [verified EXCEPT ![p] = {job.gen}]
    BY <1>12, <2>1 DEF FinishTrust
  <2>4. disk'.trusted[q] = IF q = p THEN {job.gen} ELSE disk.trusted[q]
    BY <2>1 DEF Persists
  <2>5. verified'[q] = IF q = p THEN {job.gen} ELSE verified[q]
    BY <1>2, <2>3
  <2> QED
    BY <1>1, <2>1, <2>2, <2>4, <2>5
<1>13. CASE Replace
  BY <1>13, ReplaceOk
<1> QED
  BY <1>3, <1>4, <1>5, <1>6, <1>7, <1>8, <1>9, <1>10, <1>11, <1>12, <1>13, NextCases

-----------------------------------------------------------------------------
(* The identity of the device changes in Replace only. *)
LEMMA OwnSteps ==
  ASSUME Sound, [Next]_vars, ~Replace
  PROVE  disk'.own = disk.own /\ mem'.own = mem.own
<1>1. mem.own = disk.own
  BY DEF Sound, Shape
<1>2. CASE Quiet
  BY <1>2, QuietFrame
<1>3. CASE Encipher
  BY <1>3, EncipherOk DEF Enciphers, Loads, Encipher, store
<1>4. ASSUME NEW m \in Msg, Decrypt(m) \/ DecryptErr(m)
      PROVE  disk'.own = disk.own /\ mem'.own = mem.own
  BY <1>4, DecryptOk, DecryptErrOk DEF Deciphers, Loads, Decrypt, DecryptErr, store
<1>5. CASE ReturnCiphertext \/ ReturnPlaintext
  <2>1. PICK p \in Peer : p = job.peer /\ Persists(p)
    BY <1>5, ReturnCiphertextOk, ReturnPlaintextOk
  <2> QED
    BY <1>1, <1>5, <2>1 DEF Persists, ReturnCiphertext, ReturnPlaintext
<1>6. ASSUME NEW p \in Peer, Trust(p) \/ Accept(p)
      PROVE  disk'.own = disk.own /\ mem'.own = mem.own
  BY <1>6, VouchesOk DEF Vouches
<1>7. CASE DropSession \/ DropIdentity
  <2>1. PICK p \in Peer : Drops(p)
    BY <1>7, DropSessionOk, DropIdentityOk
  <2> QED
    BY <2>1 DEF Drops
<1>8. CASE RevokeRow \/ Kill \/ Reopen
  BY <1>1, <1>8, ResetsOk DEF Resets, Restarts
<1>9. CASE FinishTrust
  <2>1. PICK p \in Peer : p = job.peer /\ Persists(p)
    BY <1>9, FinishTrustOk
  <2>2. mem' = mem \/ Restarts
    BY <1>9, FinishTrustOk
  <2> QED
    BY <1>1, <2>1, <2>2 DEF Persists, Restarts
<1> QED
  BY <1>2, <1>3, <1>4, <1>5, <1>6, <1>7, <1>8, <1>9, NextCases

LEMMA ReplacingSteps ==
  ASSUME Sound, [Next]_vars, job.op = "replace"
  PROVE  \/ (PersistKeys \/ RecordRotation) /\ job'.op = job.op
         \/ Standing /\ job' = job
         \/ RecordReplacement \/ StatementFails \/ Kill
<1>1. ~Idle
  BY DEF Idle, NoJob
<1>2. \/ PersistKeys \/ RecordRotation \/ Standing \/ RecordReplacement \/ StatementFails \/ Kill
  BY <1>1, NextCases
  DEF Quiet, Export, HandOut, Encrypt, Revoke, ForgetRevocation,
      AcceptRow, AcceptRecord, MonthPasses, Encipher, ReturnCiphertext, ReturnPlaintext,
      Decrypt, DecryptErr, Trust, Accept, DropSession, DropIdentity, RevokeRow, FinishTrust,
      Replace, Reopen, AtStep, Standing
<1>3. CASE PersistKeys \/ RecordRotation
  <2>1. Goto("rotation") \/ Goto("work")
    BY <1>3 DEF PersistKeys, RecordRotation
  <2> QED
    BY <1>3, <2>1, GotoOk DEF Sound, At
<1> QED
  BY <1>2, <1>3, StandingFrame

LEMMA RecordKept ==
  ASSUME Sound, RecordOk, [Next]_vars
  PROVE  RecordOk'
<1>1. cut \subseteq cut'
  BY HistoryKept
<1>2. disk.own \in Nat /\ mem.own = disk.own
  BY DEF Sound, TypeOK, Shape, Store
<1>3. recovery \subseteq recovery'
  BY NextCases
  DEF Quiet, PersistKeys, RecordRotation, Export, HandOut, Encrypt, Revoke, ForgetRevocation,
      AcceptRow, AcceptRecord, RecordReplacement, StatementFails, Interrupted, PeerReplaces,
      MonthPasses, PeerWrites, vars, Encipher, ReturnCiphertext, Decrypt, DecryptErr,
      ReturnPlaintext, Trust, Accept, DropSession, DropIdentity, RevokeRow, FinishTrust,
      Replace, Kill, Reopen, store
<1>4. CASE Replace
  <2>1. job.op = "none" /\ disk'.own = disk.own + 1 /\ job'.op = "replace"
    BY <1>4, ReplaceOk DEF Idle, NoJob
  <2> QED
    BY <1>1, <1>2, <1>3, <2>1 DEF RecordOk
<1>5. CASE job.op = "replace"
  <2>1. ~Replace
    BY <1>5 DEF Replace, Idle, NoJob
  <2>2. disk'.own = disk.own
    BY <2>1, OwnSteps
  <2>3. CASE job'.op = "replace"
    BY <1>1, <1>3, <1>5, <2>2, <2>3 DEF RecordOk
  <2>4. CASE RecordReplacement
    <3>1. recovery' = recovery \cup {disk.own} /\ job' = NoJob
      BY <1>2, <2>4 DEF RecordReplacement, Return
    <3>2. "replacement" \notin cut => 1 .. (disk.own - 1) \subseteq recovery
      BY <1>5 DEF RecordOk
    <3>3. "replacement" \notin cut => 1 .. disk.own \subseteq recovery'
      BY <1>2, <3>1, <3>2
    <3> QED
      BY <1>1, <2>2, <3>1, <3>3 DEF RecordOk, NoJob
  <2>5. CASE StatementFails \/ Kill
    <3>1. "replacement" \in Undone("error") /\ "replacement" \in Undone("kill")
      BY <1>5 DEF Undone, Cuts
    <3>2. "replacement" \in cut'
      BY <2>5, <3>1 DEF StatementFails, Kill, Interrupted
    <3> QED
      BY <3>2 DEF RecordOk
  <2> QED
    BY <1>5, <2>3, <2>4, <2>5, ReplacingSteps
<1>6. CASE job.op # "replace" /\ ~Replace
  <2>1. disk'.own = disk.own
    BY <1>6, OwnSteps
  <2>2. 1 .. (disk.own - 1) \subseteq 1 .. disk.own
    BY <1>2
  <2> QED
    BY <1>1, <1>3, <1>6, <2>1, <2>2 DEF RecordOk
<1> QED
  BY <1>4, <1>5, <1>6

-----------------------------------------------------------------------------
(* The prekeys behind the bundles that were given away.  The memory is up  *)
(* to the present month from the moment maintain_key_inventory changed it, *)
(* the database once the keys are written, and otherwise both are up to    *)
(* the month of the last recorded rotation.                                *)
Early == HalfOpened \/ cut \cap {"keys", "rotation"} # {}

SeenKey(k) == \E m \in seen : KeyOf(m) = k
JobKey(k) == job.op = "decrypt" /\ KeyOf(job.msg) = k

OnDisk(k) == k \in disk.prekeys \/ SeenKey(k) \/ (JobKey(k) /\ job.at # "keys")
InMemory(k) == k \in mem.prekeys \/ SeenKey(k) \/ JobKey(k)

SinceMem == IF job.at \in {"keys", "rotation"} THEN month ELSE created
SinceDisk == IF job.at = "rotation" THEN month ELSE created

(* The signed prekeys S, of the month since, answer a bundle whose signed  *)
(* prekey was current in its month.                                        *)
Rotations(b, S, since) ==
  /\ b.month <= since
  /\ since <= b.month + 1 => b.signed \in S
  /\ since = b.month => b.signed = Newest(S)

Answerable(b) ==
  /\ OnDisk(b.key) /\ InMemory(b.key)
  /\ Rotations(b, disk.signed, SinceDisk) /\ Rotations(b, mem.signed, SinceMem)

SameKeys ==
  job.at # "keys" /\ job.op # "decrypt" =>
    mem.prekeys = disk.prekeys /\ mem.signed = disk.signed

KeysHeld == (\A b \in given : b.own = disk.own => Answerable(b)) /\ SameKeys

KeysOk == Early \/ KeysHeld

(* One more maintenance keeps what the bundles need. *)
LEMMA RotationsNext ==
  ASSUME Sound, NEW b \in Bundle, Rotations(b, mem.signed, created)
  PROVE  Rotations(b, SignedNext(mem.signed, created), month)
<1>1. PICK S \in SUBSET Nat : S = mem.signed
  BY DEF Sound, TypeOK, Store
<1>2. created \in Nat /\ month \in Nat /\ created <= month /\ b.month \in Nat
  BY DEF Sound, TypeOK, ClockOk, Bundle
<1>3. PICK N : N = Newest(S)
  OBVIOUS
<1>4. PICK T : T = SignedNext(S, created)
  OBVIOUS
<1>5. /\ b.month <= created
      /\ created <= b.month + 1 => b.signed \in S
      /\ created = b.month => b.signed = N
  BY <1>1, <1>3 DEF Rotations
<1>6. CASE month = created
  <2>1. S # {} => T = S
    <3>1. ~RotationDue(created)
      BY <1>2, <1>6 DEF RotationDue
    <3> QED
      BY <1>4, <3>1 DEF SignedNext
  <2> QED
    BY <1>1, <1>2, <1>3, <1>4, <1>5, <1>6, <2>1 DEF Rotations
<1>7. CASE month > created
  <2>1. month <= b.month + 1 => b.signed = N /\ S # {}
    BY <1>2, <1>5, <1>7
  <2>2. S # {} => N \in T
    BY <1>3, <1>4, <1>7 DEF SignedNext, RotationDue
  <2> QED
    BY <1>1, <1>2, <1>4, <1>5, <1>7, <2>1, <2>2 DEF Rotations
<1> QED
  BY <1>2, <1>6, <1>7

LEMMA SeenKeyKept ==
  ASSUME Sound, GotOk, [Next]_vars
  PROVE  \A k : SeenKey(k) => SeenKey(k)'
<1>1. ASSUME NEW m \in seen
      PROVE  m \in seen' /\ mail'[m] = mail[m]
  BY <1>1, HistoryKept, QuietFrame, LoudFrame DEF Letters, GotOk, Got, Sound, TypeOK
<1>2. \A m \in seen : KeyOf(m)' = KeyOf(m)
  BY <1>1 DEF KeyOf
<1> QED
  BY <1>1, <1>2 DEF SeenKey

(* Nothing happens to the keys. *)
LEMMA CalmKeys ==
  ASSUME KeysHeld, \A k : SeenKey(k) => SeenKey(k)',
         given' = given, created' = created, disk'.own = disk.own,
         job.op # "decrypt", job'.op # "decrypt",
         job.at \notin {"keys", "rotation"}, job'.at \notin {"keys", "rotation"},
         disk'.prekeys \in {disk.prekeys, mem.prekeys}, disk'.signed \in {disk.signed, mem.signed},
         mem'.prekeys \in {disk.prekeys, mem.prekeys}, mem'.signed \in {disk.signed, mem.signed}
  PROVE  KeysHeld'
<1>1. mem.prekeys = disk.prekeys /\ mem.signed = disk.signed
  BY DEF KeysHeld, SameKeys
<1>2. /\ mem'.prekeys = disk.prekeys /\ mem'.signed = disk.signed
      /\ disk'.prekeys = disk.prekeys /\ disk'.signed = disk.signed
  BY <1>1
<1>3. ASSUME NEW b \in given, Answerable(b)
      PROVE  Answerable(b)'
  <2>1. OnDisk(b.key)' /\ InMemory(b.key)'
    BY <1>1, <1>2, <1>3 DEF Answerable, OnDisk, InMemory, JobKey
  <2>2. SinceDisk = created /\ SinceMem = created /\ SinceDisk' = created /\ SinceMem' = created
    BY DEF SinceDisk, SinceMem
  <2>3. Rotations(b, disk.signed, created)
    BY <1>3, <2>2 DEF Answerable
  <2> QED
    BY <1>2, <2>1, <2>2, <2>3 DEF Answerable, Rotations
<1> QED
  BY <1>2, <1>3 DEF KeysHeld, SameKeys

(* An operation starts with maintain_key_inventory. *)
LEMMA StartKeys ==
  ASSUME Sound, KeysHeld, \A k : SeenKey(k) => SeenKey(k)',
         Export \/ \E p \in Peer : \E g \in 0 .. peerGen[p] : Encrypt(p, g)
  PROVE  KeysHeld'
<1>1. PICK j \in Job : /\ j.op \in {"export", "encrypt"}
                       /\ Maintain(j, mem, created)
                       /\ UNCHANGED <<store, outside, history>>
  <2>1. CASE Export
    <3>1. PICK j : j = NewJob("export", "work", None, 0, None)
      OBVIOUS
    <3>2. j \in Job /\ j.op = "export"
      BY <3>1 DEF NewJob, Job, Op, At
    <3> QED
      BY <2>1, <3>1, <3>2 DEF Export, record
  <2>2. ASSUME NEW p \in Peer, NEW g \in 0 .. peerGen[p], Encrypt(p, g)
        PROVE  \E j \in Job : /\ j.op \in {"export", "encrypt"}
                              /\ Maintain(j, mem, created)
                              /\ UNCHANGED <<store, outside, history>>
    <3>1. PICK j : j = NewJob("encrypt", "work", p, g, None)
      OBVIOUS
    <3>2. j \in Job /\ j.op = "encrypt"
      BY <3>1 DEF NewJob, Job, Op, At, Sound, TypeOK
    <3> QED
      BY <2>2, <3>1, <3>2 DEF Encrypt
  <2> QED
    BY <2>1, <2>2
<1>2. Idle
  BY DEF Export, Encrypt
<1>3. Maintains(j, mem, created)
  BY <1>1, MaintainOk DEF Sound, TypeOK, Shape
<1>4. /\ mem.prekeys \subseteq mem'.prekeys /\ mem'.signed = SignedNext(mem.signed, created)
      /\ job'.op \in {"export", "encrypt"} /\ job'.at \in {"work", "keys"}
      /\ job'.at = "work" => mem' = mem
  BY <1>1, <1>3 DEF Maintains, IsMaintained, Grown
<1>5. disk' = disk /\ created' = created /\ month' = month /\ given' = given
  BY <1>1 DEF store, outside, history
<1>6. job.op = "none" /\ job.at = "idle"
  BY <1>2, IdleOk
<1>7. SinceMem = created /\ SinceDisk = created /\ SinceDisk' = created
  BY <1>4, <1>5, <1>6 DEF SinceMem, SinceDisk
<1>8. ASSUME NEW b \in given, Answerable(b)
      PROVE  Answerable(b)'
  <2>1. /\ OnDisk(b.key) /\ InMemory(b.key)
        /\ Rotations(b, disk.signed, created) /\ Rotations(b, mem.signed, created)
    BY <1>7, <1>8 DEF Answerable
  <2>2. OnDisk(b.key)' /\ InMemory(b.key)'
    BY <1>4, <1>5, <1>6, <2>1 DEF OnDisk, InMemory, JobKey
  <2>3. Rotations(b, mem'.signed, SinceMem')
    <3>1. CASE job'.at = "keys"
      <4>1. SinceMem' = month
        BY <1>5, <3>1 DEF SinceMem
      <4>2. Rotations(b, SignedNext(mem.signed, created), month)
        BY <2>1, RotationsNext DEF Sound, TypeOK
      <4> QED
        BY <1>4, <4>1, <4>2
    <3>2. CASE job'.at = "work"
      BY <1>4, <1>5, <2>1, <3>2 DEF SinceMem
    <3> QED
      BY <1>4, <3>1, <3>2
  <2> QED
    BY <1>5, <1>7, <2>1, <2>2, <2>3 DEF Answerable, Rotations
<1>9. SameKeys'
  BY <1>4, <1>5, <1>6 DEF SameKeys, KeysHeld
<1> QED
  BY <1>5, <1>8, <1>9 DEF KeysHeld

(* An opening takes the one-time prekey of its message from the memory. *)
LEMMA OpenKeys ==
  ASSUME Sound, KeysHeld, \A k : SeenKey(k) => SeenKey(k)', NEW m \in Msg, Decrypt(m)
  PROVE  KeysHeld'
<1>1. Idle /\ Rekeys(mail[m].peer, m, mail[m].line)
  BY DecryptOk
<1>2. disk' = disk /\ created' = created /\ month' = month /\ given' = given /\ mail' = mail
  BY DEF Decrypt, store, outside, record, history
<1>3. /\ mem'.signed = SignedNext(mem.signed, created)
      /\ job'.op = "decrypt" /\ job'.msg = m /\ job'.at \in {"work", "keys"}
      /\ job'.at = "work" => mem'.signed = mem.signed
      /\ \/ mem.prekeys \subseteq mem'.prekeys
         \/ /\ mail[m].line.bundle # None
            /\ mem.prekeys \ {mail[m].line.bundle.key} \subseteq mem'.prekeys
  BY <1>1 DEF Rekeys
<1>4. \A k \in mem.prekeys : k \in mem'.prekeys \/ k = KeyOf(m)
  BY <1>3 DEF KeyOf
<1>5. KeyOf(m)' = KeyOf(m)
  BY <1>2 DEF KeyOf
<1>6. job.op = "none" /\ job.at = "idle"
  BY <1>1, IdleOk
<1>7. SinceMem = created /\ SinceDisk = created /\ SinceDisk' = created
  BY <1>2, <1>3, <1>6 DEF SinceMem, SinceDisk
<1>8. ASSUME NEW b \in given, Answerable(b)
      PROVE  Answerable(b)'
  <2>1. /\ OnDisk(b.key) /\ InMemory(b.key)
        /\ Rotations(b, disk.signed, created) /\ Rotations(b, mem.signed, created)
    BY <1>7, <1>8 DEF Answerable
  <2>2. OnDisk(b.key)'
    BY <1>2, <1>6, <2>1 DEF OnDisk, JobKey
  <2>3. KeyOf(m) = b.key => JobKey(b.key)'
    BY <1>3, <1>5 DEF JobKey
  <2>4. InMemory(b.key)'
    BY <1>4, <1>6, <2>1, <2>3 DEF InMemory, JobKey
  <2>5. Rotations(b, mem'.signed, SinceMem')
    <3>1. CASE job'.at = "keys"
      <4>1. SinceMem' = month
        BY <1>2, <3>1 DEF SinceMem
      <4>2. Rotations(b, SignedNext(mem.signed, created), month)
        BY <2>1, RotationsNext DEF Sound, TypeOK
      <4> QED
        BY <1>3, <4>1, <4>2
    <3>2. CASE job'.at = "work"
      BY <1>2, <1>3, <2>1, <3>2 DEF SinceMem
    <3> QED
      BY <1>3, <3>1, <3>2
  <2> QED
    BY <1>2, <1>7, <2>1, <2>2, <2>4, <2>5 DEF Answerable, Rotations
<1>9. SameKeys'
  BY <1>3 DEF SameKeys
<1> QED
  BY <1>2, <1>8, <1>9 DEF KeysHeld

(* The keys are written, and the rotation recorded. *)
LEMMA WriteKeys ==
  ASSUME Sound, KeysHeld, \A k : SeenKey(k) => SeenKey(k)', PersistKeys \/ RecordRotation
  PROVE  KeysHeld'
<1>1. mem' = mem /\ month' = month /\ given' = given /\ mail' = mail /\ seen' = seen
  BY DEF PersistKeys, RecordRotation, outside, record, history
<1>2. disk'.own = disk.own
  BY QuietFrame DEF Quiet
<1>3. job'.op = job.op /\ job'.msg = job.msg => \A k : JobKey(k) => JobKey(k)'
  BY <1>1 DEF JobKey, KeyOf
<1>4. CASE PersistKeys
  <2>1. /\ job'.op = job.op /\ job'.msg = job.msg
        /\ \/ job'.at = "rotation" /\ created < month
           \/ job'.at = "work" /\ created = month
    <3>1. month \in Nat /\ created \in Nat /\ created <= month
      BY DEF Sound, TypeOK, ClockOk
    <3>2. \/ Goto("rotation") /\ created < month
          \/ Goto("work") /\ created = month
      BY <1>4, <3>1 DEF PersistKeys, RotationDue
    <3> QED
      BY <3>2, GotoOk DEF Sound, At
  <2>2. disk'.prekeys = mem.prekeys /\ disk'.signed = mem.signed
    <3>1. PICK t : t = WithKeys(disk, mem)
      OBVIOUS
    <3>2. t.prekeys = mem.prekeys /\ t.signed = mem.signed
      BY <3>1, WithKeysOk DEF Sound, TypeOK, Shape
    <3> QED
      BY <1>4, <3>1, <3>2 DEF PersistKeys
  <2>3. job.at = "keys" /\ created' = created
    BY <1>4 DEF PersistKeys
  <2>4. SinceMem = month /\ SinceMem' = month /\ SinceDisk' = month
    BY <1>1, <2>1, <2>3 DEF SinceMem, SinceDisk
  <2>5. \A k : JobKey(k) => JobKey(k)'
    BY <1>3, <2>1
  <2>6. ASSUME NEW b \in given, Answerable(b)
        PROVE  Answerable(b)'
    <3>1. InMemory(b.key) /\ Rotations(b, mem.signed, month)
      BY <2>4, <2>6 DEF Answerable
    <3>2. OnDisk(b.key)' /\ InMemory(b.key)'
      BY <1>1, <2>1, <2>2, <2>5, <3>1 DEF OnDisk, InMemory
    <3> QED
      BY <1>1, <2>2, <2>4, <3>1, <3>2 DEF Answerable, Rotations
  <2>7. SameKeys'
    BY <1>1, <2>2 DEF SameKeys
  <2> QED
    BY <1>1, <1>2, <2>6, <2>7 DEF KeysHeld
<1>5. CASE RecordRotation
  <2>1. job'.op = job.op /\ job'.msg = job.msg /\ job'.at = "work"
    BY <1>5, GotoOk DEF RecordRotation, Sound, At
  <2>2. disk' = disk /\ job.at = "rotation" /\ created' = month
    BY <1>5 DEF RecordRotation
  <2>3. SinceMem = month /\ SinceDisk = month /\ SinceMem' = month /\ SinceDisk' = month
    BY <2>1, <2>2 DEF SinceMem, SinceDisk
  <2>4. \A k : JobKey(k) => JobKey(k)'
    BY <1>3, <2>1
  <2>5. ASSUME NEW b \in given, Answerable(b)
        PROVE  Answerable(b)'
    <3>1. /\ OnDisk(b.key) /\ InMemory(b.key)
          /\ Rotations(b, disk.signed, month) /\ Rotations(b, mem.signed, month)
      BY <2>3, <2>5 DEF Answerable
    <3>2. OnDisk(b.key)' /\ InMemory(b.key)'
      BY <1>1, <2>1, <2>2, <2>4, <3>1 DEF OnDisk, InMemory
    <3> QED
      BY <1>1, <2>2, <2>3, <3>1, <3>2 DEF Answerable, Rotations
  <2>6. SameKeys'
    BY <1>1, <2>1, <2>2 DEF SameKeys, KeysHeld
  <2> QED
    BY <1>1, <1>2, <2>5, <2>6 DEF KeysHeld
<1> QED
  BY <1>4, <1>5

(* A bundle is handed out: its keys are those of both sides. *)
LEMMA GiveKeys ==
  ASSUME Sound, KeysHeld, \A k : SeenKey(k) => SeenKey(k)', HandOut \/ RecordReplacement
  PROVE  KeysHeld'
<1>1. /\ disk' = disk /\ mem' = mem /\ created' = created /\ job' = NoJob
      /\ job.op \in {"export", "replace"} /\ job.at = "work"
  BY DEF HandOut, RecordReplacement, store, AtStep, Return
<1>2. created = month /\ mem.signed # {}
  BY <1>1 DEF Sound, Keying
<1>3. mem.prekeys = disk.prekeys /\ mem.signed = disk.signed
  BY <1>1 DEF KeysHeld, SameKeys
<1>4. /\ SinceMem = created /\ SinceDisk = created
      /\ SinceMem' = created /\ SinceDisk' = created
  BY <1>1 DEF SinceMem, SinceDisk, NoJob
<1>5. ASSUME NEW b \in BundlesFrom(mem)
      PROVE  Answerable(b)'
  <2>1. /\ b.key \in mem.prekeys /\ b.signed = Newest(mem.signed) /\ b.signed \in mem.signed
        /\ b.month = month
    BY <1>2, <1>5, BundlesOk DEF Sound
  <2>2. OnDisk(b.key)' /\ InMemory(b.key)'
    BY <1>1, <1>3, <2>1 DEF OnDisk, InMemory
  <2>3. Rotations(b, mem.signed, created)
    BY <1>2, <2>1 DEF Rotations, Sound, TypeOK
  <2> QED
    BY <1>1, <1>3, <1>4, <2>2, <2>3 DEF Answerable, Rotations
<1>6. ASSUME NEW b \in given, Answerable(b)
      PROVE  Answerable(b)'
  <2>1. /\ OnDisk(b.key) /\ InMemory(b.key)
        /\ Rotations(b, disk.signed, created) /\ Rotations(b, mem.signed, created)
    BY <1>4, <1>6 DEF Answerable
  <2>2. OnDisk(b.key)' /\ InMemory(b.key)'
    BY <1>1, <1>3, <2>1 DEF OnDisk, InMemory, JobKey
  <2> QED
    BY <1>1, <1>4, <2>1, <2>2 DEF Answerable, Rotations
<1>7. \A b \in given' : b \in given \/ b \in BundlesFrom(mem)
  BY DEF HandOut, RecordReplacement
<1>8. SameKeys'
  BY <1>1, <1>3 DEF SameKeys
<1> QED
  BY <1>1, <1>5, <1>6, <1>7, <1>8 DEF KeysHeld

(* An opening is saved. *)
LEMMA ReadKeys ==
  ASSUME Sound, KeysHeld, \A k : SeenKey(k) => SeenKey(k)', ReturnPlaintext
  PROVE  KeysHeld'
<1>1. /\ mem' = mem /\ created' = created /\ job' = NoJob /\ given' = given /\ mail' = mail
      /\ job.op = "decrypt" /\ job.at = "work" /\ seen' = seen \cup {job.msg}
  BY DEF ReturnPlaintext, AtStep, Return, outside
<1>2. disk'.prekeys = mem.prekeys /\ disk'.signed = mem.signed /\ disk'.own = disk.own
  BY ReturnPlaintextOk DEF Persists, Sound, Shape
<1>3. SinceMem = created /\ SinceMem' = created /\ SinceDisk' = created
  BY <1>1 DEF SinceMem, SinceDisk, NoJob
<1>4. \A k : JobKey(k) => SeenKey(k)'
  <2>1. PICK n : n = job.msg
    OBVIOUS
  <2>2. n \in seen' /\ KeyOf(n)' = KeyOf(n)
    BY <1>1, <2>1 DEF KeyOf
  <2> QED
    BY <2>1, <2>2 DEF JobKey, SeenKey
<1>5. ASSUME NEW b \in given, Answerable(b)
      PROVE  Answerable(b)'
  <2>1. InMemory(b.key) /\ Rotations(b, mem.signed, created)
    BY <1>3, <1>5 DEF Answerable
  <2>2. OnDisk(b.key)' /\ InMemory(b.key)'
    BY <1>1, <1>2, <1>4, <2>1 DEF OnDisk, InMemory
  <2> QED
    BY <1>1, <1>2, <1>3, <2>1, <2>2 DEF Answerable, Rotations
<1>6. SameKeys'
  BY <1>1, <1>2 DEF SameKeys
<1> QED
  BY <1>1, <1>2, <1>5, <1>6 DEF KeysHeld

(* The operation stands still while the peers act, or a month passes. *)
LEMMA StandingKeys ==
  ASSUME Sound, KeysHeld, \A k : SeenKey(k) => SeenKey(k)', Standing
  PROVE  KeysHeld'
<1>1. UNCHANGED <<disk, created, mem, job, month, given>>
  BY StandingFrame DEF history
<1>2. \A m \in Msg : mail[m] # None => mail'[m] = mail[m]
  BY QuietFrame DEF Standing, Quiet, Letters
<1>3. \A k : JobKey(k) => JobKey(k)'
  <2>1. job.op = "decrypt" => mail'[job.msg] = mail[job.msg]
    BY <1>2 DEF Sound, Deciphering
  <2> QED
    BY <1>1, <2>1 DEF JobKey, KeyOf
<1>4. SinceMem' = SinceMem /\ SinceDisk' = SinceDisk
  BY <1>1 DEF SinceMem, SinceDisk
<1>5. ASSUME NEW b \in given, Answerable(b)
      PROVE  Answerable(b)'
  <2>1. OnDisk(b.key)' /\ InMemory(b.key)'
    BY <1>1, <1>3, <1>5 DEF Answerable, OnDisk, InMemory
  <2> QED
    BY <1>1, <1>4, <1>5, <2>1 DEF Answerable, Rotations
<1> QED
  BY <1>1, <1>5 DEF KeysHeld, SameKeys

(* An interruption that takes no key away early leaves the memory no more  *)
(* than the database, and the database what it was.                        *)
LEMMA CutKeys ==
  ASSUME Sound, KeysHeld, \A k : SeenKey(k) => SeenKey(k)', StatementFails \/ Kill
  PROVE  Early' \/ KeysHeld'
<1> SUFFICES ASSUME ~Early'
             PROVE  KeysHeld'
  OBVIOUS
<1>1. /\ disk' = disk /\ created' = created /\ given' = given /\ job' = NoJob
      /\ StatementFails => mem' = mem /\ cut' = cut \cup Undone("error")
      /\ Kill => cut' = cut \cup Undone("kill")
  BY DEF StatementFails, Kill, Interrupted, store, Return
<1>2. Kill => mem'.prekeys = disk.prekeys /\ mem'.signed = disk.signed
  BY ResetsOk DEF Resets, Restarts
<1>3. job.at # "rotation"
  <2>1. job.at = "rotation" => "rotation" \in Undone("error") /\ "rotation" \in Undone("kill")
    BY DEF Undone, Cuts
  <2> QED
    BY <1>1, <2>1 DEF Early
<1>4. CASE job.op # "decrypt" /\ job.at # "keys"
  <2>1. mem'.prekeys \in {disk.prekeys, mem.prekeys} /\ mem'.signed \in {disk.signed, mem.signed}
    BY <1>1, <1>2
  <2> QED
    BY <1>1, <1>3, <1>4, <2>1, CalmKeys DEF NoJob
<1>5. CASE job.op = "decrypt" \/ job.at = "keys"
  <2>1. StatementFails => job.op # "decrypt" /\ job.at # "keys"
    <3>1. /\ job.op = "decrypt" => "unsaved" \in Undone("error")
          /\ job.at = "keys" => "keys" \in Undone("error")
      BY DEF Undone, Cuts
    <3> QED
      BY <1>1, <3>1 DEF Early, HalfOpened
  <2>2. Kill
    BY <1>5, <2>1
  <2>3. job.at = "keys"
    <3>1. job.op = "decrypt" /\ job.at = "work" => "half opened" \in Undone("kill")
      BY DEF Undone, Cuts
    <3>2. job.op = "decrypt" => job.at \in {"keys", "rotation", "work"}
      BY DEF Sound, Keying, AtStep
    <3> QED
      BY <1>1, <1>3, <1>5, <2>2, <3>1, <3>2 DEF Early, HalfOpened
  <2>4. SinceDisk = created /\ SinceDisk' = created /\ SinceMem' = created
    BY <1>1, <2>3 DEF SinceDisk, SinceMem, NoJob
  <2>5. ASSUME NEW b \in given, Answerable(b)
        PROVE  Answerable(b)'
    <3>1. OnDisk(b.key) /\ Rotations(b, disk.signed, created)
      BY <2>4, <2>5 DEF Answerable
    <3>2. OnDisk(b.key)' /\ InMemory(b.key)'
      BY <1>1, <1>2, <2>2, <2>3, <3>1 DEF OnDisk, InMemory
    <3> QED
      BY <1>1, <1>2, <2>2, <2>4, <3>1, <3>2 DEF Answerable, Rotations
  <2>6. SameKeys'
    BY <1>1, <1>2, <2>2 DEF SameKeys
  <2> QED
    BY <1>1, <2>5, <2>6 DEF KeysHeld
<1> QED
  BY <1>4, <1>5

(* The other operations work on sessions and identities. *)
OffKeys ==
  \/ Encipher \/ ReturnCiphertext
  \/ (\E p \in Peer : Trust(p) \/ Accept(p) \/ Revoke(p)) \/ (\E m \in Msg : DecryptErr(m))
  \/ ForgetRevocation \/ AcceptRow \/ AcceptRecord \/ DropSession \/ DropIdentity
  \/ RevokeRow \/ FinishTrust \/ MonthPasses \/ Reopen

LEMMA OffKeysJob ==
  ASSUME Sound, OffKeys
  PROVE  /\ job.op # "decrypt" /\ job.at \notin {"keys", "rotation"}
         /\ job'.op # "decrypt" /\ job'.at \notin {"keys", "rotation"}
<1>1. CASE Idle
  <2>1. job.op = "none" /\ job.at = "idle"
    BY <1>1, IdleOk
  <2>2. \/ job' = job
        \/ (job'.op = "trust" /\ job'.at = "row") \/ (job'.op = "accept" /\ job'.at = "session")
        \/ (job'.op = "revoke" /\ job'.at = "session")
    BY <1>1, VouchesOk
    DEF OffKeys, Vouches, Revoke, NewJob, DecryptErr, MonthPasses, Reopen, Encipher,
        ReturnCiphertext, ForgetRevocation, AcceptRow, AcceptRecord, DropSession, DropIdentity,
        RevokeRow, FinishTrust, AtStep, Idle, NoJob
  <2> QED
    BY <2>1, <2>2
<1>2. CASE ~Idle
  <2>1. /\ job.op \in {"encrypt", "trust", "accept", "revoke"}
        /\ job.at \in {"work", "persist", "row", "record", "session", "identity"}
        /\ Return \/ \E a \in {"persist", "row", "record", "identity"} : Goto(a)
    <3>1. CASE Encipher
      <4>1. Return \/ Goto("persist")
        BY <3>1, EncipherOk
      <4> QED
        BY <3>1, <4>1 DEF Encipher, AtStep
    <3>2. CASE ~Encipher
      BY <1>2, <3>2
      DEF OffKeys, Trust, Accept, Revoke, DecryptErr, MonthPasses, Reopen,
          ReturnCiphertext, ForgetRevocation, AcceptRow, AcceptRecord, DropSession,
          DropIdentity, RevokeRow, FinishTrust, AtStep
    <3> QED
      BY <3>1, <3>2
  <2>2. CASE Return
    BY <2>1, <2>2, ReturnOk
  <2>3. ASSUME NEW a \in {"persist", "row", "record", "identity"}, Goto(a)
        PROVE  job'.op = job.op /\ job'.at = a
    BY <2>3, GotoOk DEF Sound, At
  <2> QED
    BY <2>1, <2>2, <2>3
<1> QED
  BY <1>1, <1>2

LEMMA OffKeysStores ==
  ASSUME Sound, OffKeys
  PROVE  /\ given' = given /\ created' = created /\ disk'.own = disk.own
         /\ disk'.prekeys \in {disk.prekeys, mem.prekeys}
         /\ disk'.signed \in {disk.signed, mem.signed}
         /\ mem'.prekeys \in {disk.prekeys, mem.prekeys}
         /\ mem'.signed \in {disk.signed, mem.signed}
<1>1. given' = given /\ created' = created
  BY DEF OffKeys, Encipher, ReturnCiphertext, Trust, Accept, Revoke, DecryptErr, ForgetRevocation,
         AcceptRow, AcceptRecord, DropSession, DropIdentity, RevokeRow, FinishTrust, MonthPasses,
         Reopen, store, record, history
<1>2. ASSUME disk' = disk, mem'.prekeys = mem.prekeys, mem'.signed = mem.signed
      PROVE  /\ disk'.own = disk.own
             /\ disk'.prekeys \in {disk.prekeys, mem.prekeys}
             /\ disk'.signed \in {disk.signed, mem.signed}
             /\ mem'.prekeys \in {disk.prekeys, mem.prekeys}
             /\ mem'.signed \in {disk.signed, mem.signed}
  BY <1>2
<1>3. CASE Encipher
  <2>1. disk' = disk /\ Loads(job.peer)
    BY <1>3, EncipherOk DEF Enciphers, Encipher, store
  <2> QED
    BY <1>1, <1>2, <2>1 DEF Loads
<1>4. ASSUME NEW p \in Peer, Trust(p) \/ Accept(p)
      PROVE  disk' = disk /\ mem'.prekeys = mem.prekeys /\ mem'.signed = mem.signed
  BY <1>4, VouchesOk DEF Vouches
<1>5. ASSUME NEW m \in Msg, DecryptErr(m)
      PROVE  disk' = disk /\ mem'.prekeys = mem.prekeys /\ mem'.signed = mem.signed
  BY <1>5, DecryptErrOk DEF Loads, DecryptErr, store
<1>6. CASE \/ (\E p \in Peer : Revoke(p)) \/ ForgetRevocation \/ AcceptRow \/ AcceptRecord
           \/ MonthPasses
  <2>1. disk' = disk /\ mem' = mem
    BY <1>6 DEF Revoke, ForgetRevocation, AcceptRow, AcceptRecord, MonthPasses, store
  <2> QED
    BY <1>1, <2>1
<1>7. CASE ReturnCiphertext \/ FinishTrust
  <2>1. PICK p \in Peer : p = job.peer /\ Persists(p)
    BY <1>7, ReturnCiphertextOk, FinishTrustOk
  <2>2. mem' = mem \/ Restarts
    BY <1>7, FinishTrustOk DEF ReturnCiphertext
  <2>3. disk'.own = disk.own /\ disk'.prekeys = mem.prekeys /\ disk'.signed = mem.signed
    BY <2>1 DEF Persists, Sound, Shape
  <2> QED
    BY <1>1, <2>2, <2>3 DEF Restarts
<1>8. CASE DropSession \/ DropIdentity
  <2>1. PICK p \in Peer : Drops(p)
    BY <1>8, DropSessionOk, DropIdentityOk
  <2> QED
    BY <1>1, <2>1 DEF Drops
<1>9. CASE RevokeRow \/ Reopen
  <2>1. disk' = disk /\ mem'.prekeys = disk.prekeys /\ mem'.signed = disk.signed
    BY <1>9, ResetsOk DEF Resets, Restarts
  <2> QED
    BY <1>1, <2>1
<1> QED
  BY <1>1, <1>2, <1>3, <1>4, <1>5, <1>6, <1>7, <1>8, <1>9 DEF OffKeys

LEMMA KeysKept ==
  ASSUME Sound, GotOk, KeysOk, [Next]_vars
  PROVE  KeysOk'
<1>1. Early => Early'
  BY HistoryKept DEF Early, HalfOpened
<1> SUFFICES ASSUME KeysHeld
             PROVE  Early' \/ KeysHeld'
  BY <1>1 DEF KeysOk
<1>2. \A k : SeenKey(k) => SeenKey(k)'
  BY SeenKeyKept
<1>3. CASE OffKeys
  BY <1>2, <1>3, OffKeysJob, OffKeysStores, CalmKeys
<1>4. CASE Export \/ \E p \in Peer : \E g \in 0 .. peerGen[p] : Encrypt(p, g)
  BY <1>2, <1>4, StartKeys
<1>5. CASE \E m \in Msg : Decrypt(m)
  BY <1>2, <1>5, OpenKeys
<1>6. CASE PersistKeys \/ RecordRotation
  BY <1>2, <1>6, WriteKeys
<1>7. CASE HandOut \/ RecordReplacement
  BY <1>2, <1>7, GiveKeys
<1>8. CASE ReturnPlaintext
  BY <1>2, <1>8, ReadKeys
<1>9. CASE Standing
  BY <1>2, <1>9, StandingKeys
<1>10. CASE StatementFails \/ Kill
  BY <1>2, <1>10, CutKeys
<1>11. CASE Replace
  <2>1. /\ disk.own \in Nat /\ disk'.own = disk.own + 1 /\ job'.at = "keys"
    BY <1>11, ReplaceOk
  <2>2. given' = given
    BY <1>11 DEF Replace
  <2>3. given \subseteq Bundle /\ \A b \in given : b.own <= disk.own
    BY DEF Sound, TypeOK, Shape
  <2>4. \A b \in given : b.own # disk'.own
    BY <2>1, <2>3 DEF Bundle
  <2> QED
    BY <2>1, <2>2, <2>4 DEF KeysHeld, SameKeys
<1> QED
  BY <1>3, <1>4, <1>5, <1>6, <1>7, <1>8, <1>9, <1>10, <1>11, NextCases
  DEF Quiet, OffKeys, Standing

-----------------------------------------------------------------------------
(* The inductive invariant, of the parts above. *)
IInv ==
  /\ Sound
  /\ LinesKnown /\ Answered /\ MemoryAhead
  /\ SpentOk /\ MadeOk /\ GotOk
  /\ TrustOk /\ RecordOk /\ KeysOk

LEMMA InitSound ==
  ASSUME Init
  PROVE  Sound
<1>1. PICK s \in Store : s = NewStore(0) /\ StoreOk(s) /\ s.own = 0
  BY NewStoreOk
<1>2. disk = s /\ mem = s /\ job = NoJob /\ given = {} /\ out = {} /\ month = 1 /\ created = 0
  BY <1>1 DEF Init
<1>3. job.op = "none" /\ job \in Job
  BY <1>2 DEF NoJob, Job, Op, At
<1>4. TypeOK
  BY <1>1, <1>2, <1>3 DEF Init, TypeOK, RevocationRow
<1>5. Shape
  BY <1>1, <1>2, FS_EmptySet DEF Shape
<1> QED
  BY <1>2, <1>3, <1>4, <1>5
  DEF Sound, ClockOk, Keying, Stages, Enciphering, Deciphering, AtStep

LEMMA InitInvariant ==
  ASSUME Init
  PROVE  IInv
<1>1. /\ \A p \in Peer : /\ disk.session[p] = NoSession /\ disk.trusted[p] = {}
                         /\ mem.session[p] = NoSession /\ mem.trusted[p] = {}
      /\ disk.own = 0 /\ mem.prekeys = disk.prekeys /\ mem.signed = disk.signed
  BY NewStoreOk DEF Init
<1>2. NoSession.lines = {} /\ NoSession.got = {}
  BY NoSessionOk
<1>3. job.op = "none" /\ out = {} /\ seen = {} /\ given = {} /\ dropped = {}
      /\ \A m \in Msg : mail[m] = None
  BY DEF Init, NoJob
<1>4. LinesKnown /\ Answered /\ SpentOk
  BY <1>1, <1>2, <1>3 DEF LinesKnown, Answered, SpentOk
<1>5. MemoryAhead
  BY <1>1, <1>2 DEF MemoryAhead, Ahead, Exists
<1>6. MadeOk /\ GotOk
  BY <1>1, <1>2, <1>3
  DEF MadeOk, Counts, FreshCiphertext, GotOk, Got, StaleWasRead, AtStep
<1>7. TrustOk
  BY <1>1 DEF TrustOk
<1>8. RecordOk
  BY <1>1, <1>3 DEF RecordOk
<1>9. KeysOk
  BY <1>1, <1>3 DEF KeysOk, KeysHeld, SameKeys
<1> QED
  BY <1>4, <1>5, <1>6, <1>7, <1>8, <1>9, InitSound DEF IInv

LEMMA StepInvariant ==
  ASSUME IInv, [Next]_vars
  PROVE  IInv'
<1>1. Sound /\ LinesKnown /\ Answered /\ MemoryAhead /\ SpentOk /\ MadeOk /\ GotOk
      /\ TrustOk /\ RecordOk /\ KeysOk
  BY DEF IInv
<1>2. Sound'
  BY <1>1, OpenedFresh, SoundKept
<1>3. LinesKnown' /\ Answered' /\ MemoryAhead'
  BY <1>1, LinesKept, AnsweredKept, AheadKept
<1>4. SpentOk' /\ MadeOk' /\ GotOk'
  BY <1>1, SpentKept, MadeKept, GotKept
<1>5. TrustOk' /\ RecordOk' /\ KeysOk'
  BY <1>1, TrustKept, RecordKept, KeysKept
<1> QED
  BY <1>2, <1>3, <1>4, <1>5 DEF IInv

LEMMA Invariance == Spec => []IInv
<1>1. Init => IInv
  BY InitInvariant
<1>2. IInv /\ [Next]_vars => IInv'
  BY StepInvariant
<1> QED
  BY <1>1, <1>2, PTL DEF Spec

-----------------------------------------------------------------------------
(* Every variable keeps its type. *)
THEOREM TypeCorrect == Spec => []TypeOK
<1>1. IInv => TypeOK
  BY DEF IInv, Sound
<1> QED
  BY <1>1, Invariance, PTL

(* No message key is used for two returned ciphertexts, whatever was lost  *)
(* or failed between them (encrypt_for).                                   *)
THEOREM CiphertextsFresh == Spec => []FreshCiphertext
<1>1. IInv => FreshCiphertext
  BY DEF IInv, MadeOk
<1> QED
  BY <1>1, Invariance, PTL

(* decrypt_from returns no plaintext a second time. *)
THEOREM PlaintextsOnce == Spec => []OpenedOnce
<1>1. IInv => OpenedOnce
  BY DEF IInv, Sound, Deciphering, OpenedOnce
<1> QED
  BY <1>1, Invariance, PTL

(* The public bundles of the present identity stay answerable until they   *)
(* are used up or two rotation periods old, but for three named            *)
(* interruptions of maintain_key_inventory and of an opening.              *)
THEOREM BundlesKept == Spec => []BundleKept
<1>1. ASSUME IInv
      PROVE  BundleKept
  <2>1. CASE Early
    BY <2>1 DEF Early, BundleKept
  <2>2. ASSUME KeysHeld, NEW b \in given, b.own = disk.own
        PROVE  /\ b.key \in disk.prekeys \/ UsedUp(b)
               /\ month <= b.month + 1 => b.signed \in disk.signed
    <3>1. OnDisk(b.key) /\ Rotations(b, disk.signed, SinceDisk)
      BY <2>2 DEF KeysHeld, Answerable
    <3>2. SeenKey(b.key) => UsedUp(b)
      BY <1>1 DEF SeenKey, UsedUp, IInv, Sound, TypeOK
    <3>3. JobKey(b.key) => UsedUp(b)
      BY <1>1 DEF JobKey, UsedUp, IInv, Sound, Deciphering
    <3>4. SinceDisk \in Nat /\ SinceDisk <= month /\ month \in Nat /\ b.month \in Nat
      BY <1>1 DEF SinceDisk, IInv, Sound, TypeOK, ClockOk, Bundle
    <3>5. month <= b.month + 1 => b.signed \in disk.signed
      BY <3>1, <3>4 DEF Rotations
    <3> QED
      BY <3>1, <3>2, <3>3, <3>5 DEF OnDisk
  <2> QED
    BY <1>1, <2>1, <2>2 DEF IInv, KeysOk, BundleKept
<1> QED
  BY <1>1, Invariance, PTL

(* A message that ChatService::poll acknowledges as stale was returned     *)
(* before, unless its opening failed to be saved.                          *)
THEOREM StaleMessagesRead == Spec => []StaleWasRead
<1>1. IInv => StaleWasRead
  BY DEF IInv, GotOk
<1> QED
  BY <1>1, Invariance, PTL

(* Each identity replacement that was not interrupted has its signed       *)
(* record (replace_identity_with_recovery).                                *)
THEOREM RecordsKept == Spec => []RecoveryKept
<1>1. IInv => RecoveryKept
  BY DEF IInv, RecordOk, RecoveryKept
<1> QED
  BY <1>1, Invariance, PTL

(* Every ciphertext is made for, and every plaintext accepted from, an     *)
(* identity the user verified and has not revoked since.                   *)
THEOREM VerifiedOnly == Spec => OnlyVerified
<1>1. ASSUME IInv, [Next]_vars
      PROVE  /\ \A o \in out' \ out : o.line.gen \in verified[o.peer] /\ o.own = disk.own
             /\ \A m \in seen' \ seen : mail[m].line.gen \in verified[mail[m].peer]
  <2>1. Sound /\ mem.own = disk.own /\ \A p \in Peer : mem.trusted[p] \subseteq verified[p]
    BY <1>1 DEF IInv, Sound, Shape, TrustOk
  <2>2. ASSUME ReturnCiphertext
        PROVE  \A o \in out' \ out : o.line.gen \in verified[o.peer] /\ o.own = disk.own
    <3>1. PICK p \in Peer : p = job.peer
      BY <2>1, <2>2, ReturnCiphertextOk
    <3>2. PICK x : x = mem.session[p]
      OBVIOUS
    <3>3. PICK c : c = Ciphertext
      OBVIOUS
    <3>4. /\ out' = out \cup {c} /\ mem.trusted[p] = {x.cur.gen}
          /\ c.peer = p /\ c.line = x.cur /\ c.own = mem.own
      BY <2>1, <2>2, <3>1, <3>2, <3>3, ReturnCiphertextOk
    <3> QED
      BY <2>1, <3>4
  <2>3. ASSUME ReturnPlaintext
        PROVE  \A m \in seen' \ seen : mail[m].line.gen \in verified[mail[m].peer]
    <3>1. job.op = "decrypt" /\ seen' = seen \cup {job.msg} /\ job.peer \in Peer
      BY <2>1, <2>3, ReturnPlaintextOk DEF AtStep
    <3>2. /\ mail[job.msg].peer = job.peer
          /\ mem.trusted[job.peer] = {mail[job.msg].line.gen}
      BY <2>1, <3>1 DEF Sound, Deciphering
    <3> QED
      BY <2>1, <3>1, <3>2
  <2>4. out' = out \/ ReturnCiphertext
    BY <1>1, <2>1, QuietFrame, LoudFrame
  <2>5. seen' = seen \/ ReturnPlaintext
    BY <1>1, <2>1, QuietFrame, LoudFrame
  <2> QED
    BY <2>2, <2>3, <2>4, <2>5
<1>2. IInv /\ [Next]_vars =>
        [/\ \A o \in out' \ out : o.line.gen \in verified[o.peer] /\ o.own = disk.own
         /\ \A m \in seen' \ seen : mail[m].line.gen \in verified[mail[m].peer]]_vars
  BY <1>1
<1> QED
  BY <1>2, Invariance, PTL DEF Spec, OnlyVerified

-----------------------------------------------------------------------------
(* What the database alone can open, spelled out. *)
InSession(m) ==
  LET x == disk.session[mail[m].peer]
  IN  mail[m].line \in x.lines /\ m \notin x.got

ByHandshake(m) ==
  LET b == mail[m].line.bundle
  IN  /\ mail[m].line \notin disk.session[mail[m].peer].lines /\ b # None
      /\ b.own = disk.own /\ b.key \in disk.prekeys /\ b.signed \in disk.signed

Entrusted(m) ==
  LET p == mail[m].peer
  IN  /\ disk.trusted[p] = {mail[m].line.gen}
      /\ ~(revoked[p].on /\ disk.trusted[p] \cap revoked[p].but = {})

OnDiskReadable(m) == mail[m] # None /\ Entrusted(m) /\ (InSession(m) \/ ByHandshake(m))

LEMMA ReadableIs ==
  TypeOK /\ Shape => \A m \in Msg : Readable(m) <=> OnDiskReadable(m)
<1> SUFFICES ASSUME TypeOK, Shape, NEW m \in Msg, mail[m] # None
             PROVE  Readable(m) <=> OnDiskReadable(m)
  BY DEF Readable, OnDiskReadable
<1>1. PICK p \in Peer : p = mail[m].peer
  BY LetterOk
<1>2. PICK l : l = mail[m].line
  OBVIOUS
<1>3. disk \in Store /\ StoreOk(disk)
  BY DEF TypeOK, Shape
<1>4. PICK r \in Store : /\ r = Opened(disk) /\ StoreOk(r)
                         /\ r.own = disk.own /\ r.prekeys = disk.prekeys
                         /\ r.signed = disk.signed
                         /\ r.session[p] = NoSession /\ r.trusted[p] = {}
  BY <1>3, OpenedOk
<1>5. PICK s : s = LoadPeer(r, p)
  OBVIOUS
<1>6. IsLoaded(r, p, s)
  BY <1>3, <1>4, <1>5, LoadPeerOk
<1>7. SessionOk(disk.session[p])
  BY <1>3 DEF StoreOk
<1>8. /\ s.own = disk.own /\ s.prekeys = disk.prekeys /\ s.signed = disk.signed
      /\ s.session[p] = disk.session[p] /\ s.trusted[p] = disk.trusted[p]
  BY <1>4, <1>6, <1>7 DEF IsLoaded, SessionOk, Exists
<1>9. Readable(m) <=> Opens(s, m)
  BY <1>1, <1>4, <1>5 DEF Readable
<1>10. IsRevoked(s, p) <=> revoked[p].on /\ disk.trusted[p] \cap revoked[p].but = {}
  BY <1>8 DEF IsRevoked
<1>11. Trusted(s, m) <=> disk.trusted[p] = {l.gen}
  BY <1>1, <1>2, <1>8 DEF Trusted
<1>12. (KnownLine(s, m) /\ m \notin s.session[p].got) <=> InSession(m)
  BY <1>1, <1>8 DEF KnownLine, InSession
<1>13. Handshake(s, m) <=> ByHandshake(m)
  BY <1>1, <1>8 DEF Handshake, KnownLine, ByHandshake
<1> QED
  BY <1>1, <1>2, <1>9, <1>10, <1>11, <1>12, <1>13 DEF Opens, OnDiskReadable, Entrusted

(* The memory has what a handshake on disk needs, but for the reasons that *)
(* StaysReadable names.                                                    *)
LEMMA HandshakeStays ==
  ASSUME IInv, ~Early, NEW m \in Msg, mail[m] # None, ByHandshake(m),
         ~(job.op = "decrypt" /\ SameKey(job.msg, m)),
         month <= mail[m].line.bundle.month + 1
  PROVE  LET b == mail[m].line.bundle
         IN  /\ b.key \in mem.prekeys /\ b.signed \in mem.signed
             /\ mail[m].line \notin mem.session[mail[m].peer].lines
<1>1. PICK p \in Peer : p = mail[m].peer
  BY LetterOk DEF IInv, Sound
<1>2. PICK l : l = mail[m].line
  OBVIOUS
<1>3. PICK b \in given : b = l.bundle
  BY <1>2 DEF IInv, LinesKnown, Known, ByHandshake
<1>4. b # None /\ b.own = disk.own /\ b.key \in disk.prekeys /\ b.signed \in disk.signed
  BY <1>2, <1>3 DEF ByHandshake
<1>5. b \in Bundle /\ b.key # 0 /\ KeyOf(m) = b.key
  BY <1>2, <1>3, <1>4 DEF IInv, Sound, TypeOK, Shape, KeyOf
<1>6. Answerable(b)
  BY <1>3, <1>4 DEF IInv, KeysOk, KeysHeld
<1>7. ~SeenKey(b.key)
  <2>1. SUFFICES ASSUME NEW n \in seen, KeyOf(n) = b.key
                 PROVE  FALSE
    BY DEF SeenKey
  <2>2. mail[n].line.bundle # None /\ mail[n].line.bundle.key = b.key
    BY <1>5, <2>1 DEF KeyOf
  <2>3. Spent(mail[n].line, disk)
    BY <2>1 DEF IInv, SpentOk
  <2> QED
    BY <1>4, <2>2, <2>3 DEF Spent
<1>8. ~JobKey(b.key)
  BY <1>5 DEF JobKey, SameKey
<1>9. b.key \in mem.prekeys
  BY <1>6, <1>7, <1>8 DEF Answerable, InMemory
<1>10. b.signed \in mem.signed
  <2>1. SinceMem \in Nat /\ SinceMem <= month /\ month \in Nat /\ b.month \in Nat
    BY <1>5 DEF SinceMem, IInv, Sound, TypeOK, ClockOk, Bundle
  <2>2. SinceMem <= b.month + 1
    BY <1>2, <1>3, <2>1
  <2> QED
    BY <1>6, <2>2 DEF Answerable, Rotations
<1>11. l \notin mem.session[p].lines
  <2>1. \A k \in mem.session[p].lines : Spent(k, mem)
    BY DEF IInv, SpentOk
  <2> QED
    BY <1>3, <1>4, <1>9, <2>1 DEF Spent
<1> QED
  BY <1>1, <1>2, <1>3, <1>9, <1>10, <1>11

(* The disk takes over the memory's keys, and perhaps its session with one *)
(* peer.                                                                   *)
TakesOver ==
  /\ disk'.own = disk.own /\ disk'.prekeys = mem.prekeys /\ disk'.signed = mem.signed
  /\ \A q \in Peer :
       \/ disk'.session[q] = disk.session[q] /\ disk'.trusted[q] = disk.trusted[q]
       \/ /\ Exists(mem.session[q]) /\ disk'.session[q] = mem.session[q]
          /\ SameTrust(q) /\ disk'.trusted[q] = mem.trusted[q]

LEMMA TakesOverOk ==
  ASSUME Sound, PersistKeys \/ ReturnCiphertext \/ ReturnPlaintext
  PROVE  TakesOver
<1>1. mem.own = disk.own
  BY DEF Sound, Shape
<1>2. CASE PersistKeys
  <2>1. PICK t : t = WithKeys(disk, mem)
    OBVIOUS
  <2>2. /\ t.own = mem.own /\ t.prekeys = mem.prekeys /\ t.signed = mem.signed
        /\ t.session = disk.session /\ t.trusted = disk.trusted
    BY <2>1, WithKeysOk DEF Sound, TypeOK, Shape
  <2> QED
    BY <1>1, <1>2, <2>1, <2>2 DEF PersistKeys, TakesOver
<1>3. CASE ReturnCiphertext \/ ReturnPlaintext
  <2>1. PICK p \in Peer : p = job.peer /\ Persists(p)
    BY <1>3, ReturnCiphertextOk, ReturnPlaintextOk
  <2>2. SameTrust(p) /\ Exists(mem.session[p]) /\ mem.trusted[p] # {}
    <3>1. CASE ReturnCiphertext
      BY <2>1, <3>1 DEF ReturnCiphertext, Sound, Enciphering
    <3>2. CASE ReturnPlaintext
      <4>1. job.op = "decrypt"
        BY <3>2 DEF ReturnPlaintext, AtStep
      <4> QED
        BY <2>1, <4>1 DEF Sound, Deciphering, Exists
    <3> QED
      BY <1>3, <3>1, <3>2
  <2>3. disk'.session[p] = mem.session[p] /\ disk'.trusted[p] = mem.trusted[p]
    BY <2>1, <2>2 DEF Persists
  <2>4. \A q \in Peer : q # p => disk'.session[q] = disk.session[q]
                                 /\ disk'.trusted[q] = disk.trusted[q]
    BY <2>1 DEF Persists
  <2>5. disk'.own = disk.own /\ disk'.prekeys = mem.prekeys /\ disk'.signed = mem.signed
    BY <1>1, <2>1 DEF Persists
  <2> QED
    BY <2>2, <2>3, <2>4, <2>5 DEF TakesOver
<1> QED
  BY <1>2, <1>3

(* The steps that change neither the database nor a revocation row, where  *)
(* no operation on trust runs and the identity stays.                      *)
LEMMA DiskSteps ==
  ASSUME Sound, [Next]_vars, job.op \notin {"trust", "accept", "revoke"}, disk'.own = disk.own
  PROVE  /\ revoked' = revoked
         /\ disk' = disk \/ PersistKeys \/ ReturnCiphertext \/ ReturnPlaintext
<1>1. ~Replace
  <2>1. disk.own + 1 # disk.own
    BY DEF Sound, TypeOK, Store
  <2> QED
    BY <2>1, ReplaceOk
<1>2. CASE Quiet
  BY <1>2 DEF Quiet, PersistKeys, RecordRotation, Export, HandOut, Encrypt, Revoke,
     ForgetRevocation, AcceptRow, AcceptRecord, RecordReplacement, StatementFails, Interrupted,
     PeerReplaces, MonthPasses, PeerWrites, vars, store, AtStep
<1>3. CASE ~Quiet
  BY <1>1, <1>3, NextCases
  DEF Encipher, ReturnCiphertext, Decrypt, DecryptErr, ReturnPlaintext, Trust, Accept,
      DropSession, DropIdentity, RevokeRow, FinishTrust, Kill, Interrupted, Reopen, store, AtStep
<1> QED
  BY <1>2, <1>3

LEMMA ReadableStays ==
  ASSUME IInv, [Next]_vars, NEW m \in Msg, OnDiskReadable(m),
         m \notin seen', job.op \notin {"trust", "accept", "revoke"}, disk'.own = disk.own,
         ~(job.op = "decrypt" /\ SameKey(job.msg, m)), ~Early,
         mail[m].line.bundle # None => month <= mail[m].line.bundle.month + 1
  PROVE  OnDiskReadable(m)'
<1>1. Sound /\ mail[m] # None
  BY DEF IInv, OnDiskReadable
<1>2. mail'[m] = mail[m]
  BY <1>1, QuietFrame, LoudFrame DEF Letters
<1>3. PICK p \in Peer : p = mail[m].peer
  BY <1>1, LetterOk DEF Sound
<1>4. PICK l : l = mail[m].line
  OBVIOUS
<1>5. revoked' = revoked
  BY <1>1, DiskSteps
<1>6. CASE disk' = disk
  BY <1>2, <1>5, <1>6 DEF OnDiskReadable, Entrusted, InSession, ByHandshake
<1>7. ASSUME PersistKeys \/ ReturnCiphertext \/ ReturnPlaintext
      PROVE  OnDiskReadable(m)'
  <2>1. TakesOver
    BY <1>1, <1>7, TakesOverOk
  <2>2. /\ disk.trusted[p] = {l.gen}
        /\ ~(revoked[p].on /\ disk.trusted[p] \cap revoked[p].but = {})
    BY <1>3, <1>4 DEF OnDiskReadable, Entrusted
  <2>3. disk'.trusted[p] = disk.trusted[p]
    BY <2>1, <2>2 DEF TakesOver, SameTrust
  <2>4. Entrusted(m)'
    BY <1>2, <1>3, <1>4, <1>5, <2>2, <2>3 DEF Entrusted
  <2>5. CASE InSession(m)
    <3>1. l \in disk.session[p].lines /\ m \notin disk.session[p].got
      BY <1>3, <1>4, <2>5 DEF InSession
    <3>2. Exists(mem.session[p]) => l \in mem.session[p].lines
      BY <3>1 DEF IInv, MemoryAhead, Ahead
    <3>3. m \notin mem.session[p].got
      <4>1. ~Lost
        BY DEF Early, HalfOpened, Lost
      <4>2. m \notin seen
        BY <1>1, HistoryKept
      <4>3. ~Opening(m)
        BY DEF Opening, SameKey
      <4> QED
        BY <4>1, <4>2, <4>3 DEF IInv, GotOk
    <3>4. l \in disk'.session[p].lines /\ m \notin disk'.session[p].got
      BY <2>1, <3>1, <3>2, <3>3 DEF TakesOver
    <3>5. InSession(m)'
      BY <1>2, <1>3, <1>4, <3>4 DEF InSession
    <3> QED
      BY <1>1, <1>2, <2>4, <3>5 DEF OnDiskReadable
  <2>6. CASE ByHandshake(m)
    <3>1. PICK b : b = l.bundle
      OBVIOUS
    <3>2. b # None /\ b.own = disk.own /\ l \notin disk.session[p].lines
      BY <1>3, <1>4, <2>6, <3>1 DEF ByHandshake
    <3>3. b.key \in mem.prekeys /\ b.signed \in mem.signed /\ l \notin mem.session[p].lines
      BY <1>1, <1>3, <1>4, <2>6, <3>1, <3>2, HandshakeStays
    <3>4. /\ l \notin disk'.session[p].lines /\ b.own = disk'.own
          /\ b.key \in disk'.prekeys /\ b.signed \in disk'.signed
      BY <2>1, <3>2, <3>3 DEF TakesOver
    <3>5. ByHandshake(m)'
      BY <1>2, <1>3, <1>4, <3>1, <3>2, <3>4 DEF ByHandshake
    <3> QED
      BY <1>1, <1>2, <2>4, <3>5 DEF OnDiskReadable
  <2> QED
    BY <2>5, <2>6 DEF OnDiskReadable
<1> QED
  BY <1>1, <1>6, <1>7, DiskSteps

(* A message the database can open stays so until it is returned, whatever *)
(* operation on other messages runs, is interrupted or killed; only the    *)
(* causes the property names take it away.                                 *)
THEOREM MessagesStayReadable == Spec => StaysReadable
<1>1. (TypeOK /\ Shape => \A m \in Msg : Readable(m) <=> OnDiskReadable(m))'
  BY ReadableIs, PTL
<1>2. ASSUME IInv, [Next]_vars, NEW m \in Msg, Readable(m), ~Readable(m)'
      PROVE  \/ m \in seen'
             \/ job.op \in {"trust", "accept", "revoke"} \/ disk'.own # disk.own
             \/ job.op = "decrypt" /\ SameKey(job.msg, m)
             \/ mail[m].line.bundle # None /\ mail[m].line.bundle.month + 1 < month
             \/ HalfOpened \/ cut \cap {"keys", "rotation"} # {}
  <2>1. OnDiskReadable(m)
    BY <1>2, ReadableIs DEF IInv, Sound
  <2>2. ~OnDiskReadable(m)'
    <3>1. TypeOK' /\ Shape'
      BY <1>2, TypesKept DEF IInv
    <3> QED
      BY <1>1, <1>2, <3>1
  <2>3. mail[m].line.bundle # None /\ ~(mail[m].line.bundle.month + 1 < month) =>
          month <= mail[m].line.bundle.month + 1
    <3>1. mail[m].line.bundle # None => mail[m].line.bundle \in Bundle
      BY <1>2, <2>1, LetterOk DEF IInv, Sound, OnDiskReadable, Line
    <3> QED
      BY <1>2, <3>1 DEF IInv, Sound, TypeOK, Bundle
  <2> QED
    BY <1>2, <2>1, <2>2, <2>3, ReadableStays DEF Early
<1>3. IInv /\ [Next]_vars =>
        [\A m \in Msg :
           Readable(m) /\ ~Readable(m)' =>
             \/ m \in seen'
             \/ job.op \in {"trust", "accept", "revoke"} \/ disk'.own # disk.own
             \/ job.op = "decrypt" /\ SameKey(job.msg, m)
             \/ mail[m].line.bundle # None /\ mail[m].line.bundle.month + 1 < month
             \/ HalfOpened \/ cut \cap {"keys", "rotation"} # {}]_vars
  BY <1>2
<1> QED
  BY <1>3, Invariance, PTL DEF Spec, StaysReadable
=============================================================================
