---------------------------- MODULE LobbiesProofs ----------------------------
(***************************************************************************)
(* Lobbies, for any number of peers and entries: the type invariant,       *)
(* Parallel, OwnConversation and HistoryKept.                              *)
(*                                                                         *)
(* Parallel is nearly inductive.  OwnConversation needs that only entries  *)
(* that were made stand in a history, as a new one must not meet its       *)
(* number in an old file; HistoryKept that memory holds what the file has, *)
(* except in a lobby that is behind it (PlacesOk).  Peers may share their  *)
(* files in any way: a save by one puts the others behind (SaveOk).        *)
(***************************************************************************)
EXTENDS Lobbies, FiniteSetTheorems, SequenceTheorems, TLAPS

(* An entry that was made and may stand in the file f. *)
Fits(e, f) ==
  e \in DOMAIN owner /\ (owner[e] = Unknown \/ FileOf[owner[e]] = f)

(* What the history of a place may be: entries that fit its file, and all  *)
(* that the file has unless the place is behind it.                        *)
PlaceOk(i) ==
  /\ \A e \in histories[i] : Fits(e, FileOf[peers[i]])
  /\ saved[FileOf[peers[i]]] # NoFile /\ peers[i] \notin behind =>
       saved[FileOf[peers[i]]] \subseteq histories[i]

PlacesOk == \A i \in DOMAIN peers : PlaceOk(i)

FilesOk ==
  /\ \A f \in File : saved[f] # NoFile => \A e \in saved[f] : Fits(e, f)
  /\ legacy # NoFile => legacy \subseteq DOMAIN owner

IInv == TypeOK /\ Parallel /\ PlacesOk /\ FilesOk

-----------------------------------------------------------------------------
(* Sequences: what Append and RemoveAt make of the indices. *)
LEMMA AppendAt ==
  ASSUME NEW S, NEW s \in Seq(S), NEW e \in S
  PROVE  /\ Append(s, e) \in Seq(S) /\ Len(Append(s, e)) = Len(s) + 1
         /\ DOMAIN Append(s, e) = 1 .. Len(s) + 1
         /\ \A i \in 1 .. Len(s) : Append(s, e)[i] = s[i]
         /\ Append(s, e)[Len(s) + 1] = e
  OBVIOUS

LEMMA RemovedAt ==
  ASSUME NEW S, NEW s \in Seq(S), NEW k \in 1 .. Len(s)
  PROVE  /\ RemoveAt(s, k) \in Seq(S) /\ Len(RemoveAt(s, k)) = Len(s) - 1
         /\ DOMAIN RemoveAt(s, k) = 1 .. Len(s) - 1
         /\ \A i \in 1 .. Len(s) - 1 : RemoveAt(s, k)[i] = s[IF i < k THEN i ELSE i + 1]
<1> DEFINE n == Len(s)
<1>1. n \in Nat /\ k \in Int /\ 1 <= k /\ k <= n /\ s \in [1 .. n -> S]
  OBVIOUS
<1> HIDE DEF n
<1>2. \A i \in 1 .. k - 1 : s[i] \in S
  BY <1>1
<1>3. \A i \in k + 1 .. n : s[i] \in S
  BY <1>1
<1>4. PICK a \in Seq(S) :
        /\ a = SubSeq(s, 1, k - 1) /\ Len(a) = k - 1
        /\ \A i \in 1 .. k - 1 : a[i] = s[i]
  <2>1. /\ SubSeq(s, 1, k - 1) \in Seq(S)
        /\ Len(SubSeq(s, 1, k - 1)) = IF 1 <= k - 1 THEN k - 1 - 1 + 1 ELSE 0
        /\ \A i \in 1 .. k - 1 - 1 + 1 : SubSeq(s, 1, k - 1)[i] = s[1 + i - 1]
    BY <1>1, <1>2, SubSeqProperties, SMTT(20)
  <2>2. Len(SubSeq(s, 1, k - 1)) = k - 1
    BY <1>1, <2>1
  <2>3. \A i \in 1 .. k - 1 : SubSeq(s, 1, k - 1)[i] = s[i]
    BY <1>1, <2>1
  <2> QED
    BY ONLY <2>1, <2>2, <2>3, Zenon
<1>5. PICK b \in Seq(S) :
        /\ b = SubSeq(s, k + 1, n) /\ Len(b) = n - k
        /\ \A i \in 1 .. n - k : b[i] = s[k + i]
  <2>1. /\ SubSeq(s, k + 1, n) \in Seq(S)
        /\ Len(SubSeq(s, k + 1, n)) = IF k + 1 <= n THEN n - (k + 1) + 1 ELSE 0
        /\ \A i \in 1 .. n - (k + 1) + 1 : SubSeq(s, k + 1, n)[i] = s[k + 1 + i - 1]
    BY <1>1, <1>3, SubSeqProperties, SMTT(20)
  <2>2. Len(SubSeq(s, k + 1, n)) = n - k
    BY <1>1, <2>1
  <2>3. \A i \in 1 .. n - k : SubSeq(s, k + 1, n)[i] = s[k + i]
    <3> TAKE i \in 1 .. n - k
    <3>1. i \in 1 .. n - (k + 1) + 1 /\ k + 1 + i - 1 = k + i
      BY <1>1
    <3> QED
      BY <3>1, <2>1
  <2> QED
    BY ONLY <2>1, <2>2, <2>3, Zenon
<1>6. RemoveAt(s, k) = a \o b
  BY <1>4, <1>5 DEF RemoveAt, n
<1>7. /\ a \o b \in Seq(S) /\ Len(a \o b) = Len(a) + Len(b)
      /\ \A i \in 1 .. Len(a) + Len(b) :
           (a \o b)[i] = IF i <= Len(a) THEN a[i] ELSE b[i - Len(a)]
  BY ConcatProperties
<1>8. \A i \in 1 .. n - 1 : (a \o b)[i] = s[IF i < k THEN i ELSE i + 1]
  <2> SUFFICES ASSUME NEW i \in 1 .. n - 1
               PROVE  (a \o b)[i] = s[IF i < k THEN i ELSE i + 1]
    OBVIOUS
  <2>1. (a \o b)[i] = IF i <= k - 1 THEN a[i] ELSE b[i - (k - 1)]
    BY <1>1, <1>4, <1>5, <1>7
  <2>2. CASE i < k
    BY <2>1, <2>2, <1>1, <1>4
  <2>3. CASE ~(i < k)
    BY <2>1, <2>3, <1>1, <1>5
  <2> QED
    BY <2>2, <2>3
<1>9. Len(a \o b) = n - 1 /\ DOMAIN (a \o b) = 1 .. n - 1
  <2>1. Len(a \o b) = n - 1
    BY <1>1, <1>4, <1>5, <1>7
  <2> QED
    BY <2>1, <1>7, LenProperties
<1> QED
  BY <1>6, <1>7, <1>8, <1>9 DEF n

LEMMA VectorFacts ==
  ASSUME TypeOK, Parallel
  PROVE  /\ Len(peers) \in Nat /\ Len(histories) = Len(peers)
         /\ DOMAIN peers = 1 .. Len(peers) /\ DOMAIN histories = 1 .. Len(peers)
         /\ \A i \in 1 .. Len(peers) : peers[i] \in Peer /\ histories[i] \in History
         /\ \A i, j \in 1 .. Len(peers) : peers[i] = peers[j] => i = j
         /\ peers # <<>> <=> Len(peers) > 0
  BY LenProperties, EmptySeq DEF TypeOK, Parallel, IsInjective

LEMMA PositionOf ==
  ASSUME NEW p \in ToSet(peers)
  PROVE  Position(p) \in DOMAIN peers /\ peers[Position(p)] = p
  BY DEF Position, ToSet

(* No peer, no place. *)
LEMMA EmptyVectors ==
  ASSUME peers' = <<>>, histories' = <<>>, known' = {}
  PROVE  Parallel' /\ PlacesOk' /\ peers' \in Seq(Peer) /\ histories' \in Seq(History)
  BY EmptySeq DEF Parallel, PlacesOk, IsInjective, ToSet

(* A lobby for p, with a history that may be there. *)
LEMMA PlacedKeeps ==
  ASSUME IInv, NEW p \in Peer, NEW h \in History, Placed(p, h),
         \A e \in h : Fits(e, FileOf[p]),
         saved' = saved, owner' = owner, behind \subseteq behind',
         p \notin ToSet(peers) /\ saved[FileOf[p]] # NoFile /\ p \notin behind' =>
           saved[FileOf[p]] \subseteq h
  PROVE  /\ peers' \in Seq(Peer) /\ histories' \in Seq(History)
         /\ Len(peers') = Len(histories') /\ IsInjective(peers') /\ PlacesOk'
         /\ ToSet(peers) \cup {p} \subseteq ToSet(peers')
         /\ Len(peers') = IF p \in ToSet(peers) THEN Len(peers) ELSE Len(peers) + 1
<1> USE DEF IInv
<1>1. CASE p \in ToSet(peers)
  BY <1>1 DEF Placed, TypeOK, Parallel, PlacesOk, PlaceOk, Fits
<1>2. CASE p \notin ToSet(peers)
  <2>0. PICK n \in Nat : n = Len(peers)
    BY VectorFacts
  <2>1. peers' = Append(peers, p) /\ histories' = Append(histories, h)
    BY <1>2 DEF Placed
  <2>2. /\ n \in Nat /\ Len(histories) = n /\ peers \in Seq(Peer) /\ histories \in Seq(History)
        /\ DOMAIN peers = 1 .. n
    BY <2>0, VectorFacts DEF TypeOK
  <2>3. /\ peers' \in Seq(Peer) /\ Len(peers') = n + 1 /\ DOMAIN peers' = 1 .. n + 1
        /\ \A i \in 1 .. n : peers'[i] = peers[i]
        /\ peers'[n + 1] = p
    BY <2>1, <2>2, AppendAt
  <2>4. /\ histories' \in Seq(History) /\ Len(histories') = n + 1
        /\ \A i \in 1 .. n : histories'[i] = histories[i]
        /\ histories'[n + 1] = h
    BY <2>1, <2>2, AppendAt
  <2>5. \A i \in 1 .. n + 1 : i \in 1 .. n \/ i = n + 1
    BY <2>2
  <2>6. \A i \in 1 .. n : peers[i] # p
    BY <1>2, <2>2 DEF ToSet
  <2>7. IsInjective(peers')
    BY <2>2, <2>3, <2>5, <2>6 DEF IsInjective, Parallel
  <2>8. ASSUME NEW i \in 1 .. n PROVE PlaceOk(i)'
    <3>1. PlaceOk(i)
      BY <2>2 DEF PlacesOk
    <3>2. peers'[i] = peers[i] /\ histories'[i] = histories[i]
      BY <2>3, <2>4
    <3> QED
      BY <3>1, <3>2 DEF PlaceOk, Fits
  <2>9. PlaceOk(n + 1)'
    BY <1>2, <2>3, <2>4 DEF PlaceOk, Fits
  <2>10. PlacesOk'
    BY <2>3, <2>5, <2>8, <2>9 DEF PlacesOk
  <2>11. ToSet(peers) \cup {p} \subseteq ToSet(peers')
    BY <2>2, <2>3 DEF ToSet
  <2> QED
    BY <1>2, <2>0, <2>3, <2>4, <2>7, <2>10, <2>11
<1> QED
  BY <1>1, <1>2

-----------------------------------------------------------------------------
LEMMA One == 1 \in Nat \ {0}
  OBVIOUS

LEMMA InitInv == Init => IInv
<1> SUFFICES ASSUME Init PROVE IInv
  OBVIOUS
<1>1. PlacesOk /\ Parallel /\ peers \in Seq(Peer) /\ histories \in Seq(History)
  BY EmptySeq DEF Init, PlacesOk, Parallel, IsInjective, ToSet
<1>2. 1 \in Peer /\ {1} \in History
  BY LobbyAssumption DEF Peer, History
<1>3. owner \in Seq(Peer \cup {Unknown})
  <2>1. /\ <<>> \in Seq(Peer \cup {Unknown}) /\ <<1>> \in Seq(Peer \cup {Unknown})
        /\ <<Unknown>> \in Seq(Peer \cup {Unknown})
    BY <1>2
  <2> QED
    BY <2>1 DEF Init
<1>4. legacy \in {NoFile} \cup History /\ (legacy # NoFile => legacy \subseteq DOMAIN owner)
  <2>1. \/ legacy = NoFile
        \/ legacy = {1} /\ owner \in {<<Unknown>>, <<1>>}
    BY Zenon DEF Init
  <2>2. 1 \in DOMAIN <<Unknown>> /\ 1 \in DOMAIN <<1>>
    OBVIOUS
  <2> QED
    BY <2>1, <2>2, <1>2
<1>5. FilesOk
  BY <1>4 DEF Init, FilesOk
<1>6. TypeOK
  BY <1>1, <1>3, <1>4, One DEF Init, TypeOK
<1> QED
  BY <1>1, <1>5, <1>6 DEF IInv

(* The program starts: what it reads is in increasing order. *)
LEMMA StartKeeps == IInv /\ Start => IInv'
<1> SUFFICES ASSUME IInv, Start PROVE IInv'
  OBVIOUS
<1> USE DEF IInv
<1>1. PICK s \in LoadPeers : peers' = s /\ histories' = [i \in DOMAIN s |-> HistoryOf(i, s[i])]
  BY DEF Start
<1>2. bundles \subseteq 1 .. Peers /\ IsFiniteSet(1 .. Peers)
  BY FS_Interval, LobbyAssumption DEF TypeOK, Peer
<1>3. PICK n \in Nat : n = Cardinality(bundles)
  BY <1>2, FS_Subset, FS_CardinalityType
<1>4. s \in [1 .. n -> Peer] /\ DOMAIN s = 1 .. n
  BY <1>2, <1>3 DEF LoadPeers, Peer
<1>5. \A i, j \in 1 .. n : i < j => FileOf[s[i]] < FileOf[s[j]]
  BY <1>3, <1>4 DEF LoadPeers
<1>6. IsInjective(s)
  <2> SUFFICES ASSUME NEW i \in 1 .. n, NEW j \in 1 .. n, s[i] = s[j] PROVE i = j
    BY <1>4 DEF IsInjective
  <2>1. FileOf[s[i]] \in Nat /\ FileOf[s[j]] \in Nat
    BY <1>4, LobbyAssumption DEF Peer
  <2> QED
    BY <2>1, <1>5
<1>7. s \in Seq(Peer) /\ Len(s) = n
  BY <1>3, <1>4
<1>8. ASSUME NEW i \in 1 .. n, NEW h, h = HistoryOf(i, s[i])
      PROVE  /\ h \in History /\ \A x \in h : Fits(x, FileOf[s[i]])
             /\ saved[FileOf[s[i]]] # NoFile => saved[FileOf[s[i]]] \subseteq h
  <2>1. s[i] \in Peer /\ FileOf[s[i]] \in File
    BY <1>4 DEF File
  <2> QED
    BY <2>1, <1>8 DEF HistoryOf, FromLegacy, TypeOK, FilesOk, History, Fits
<1>9. histories' \in Seq(History) /\ Len(histories') = n
  BY <1>1, <1>3, <1>4, <1>8
<1>10. PlacesOk'
  <2> SUFFICES ASSUME NEW i \in 1 .. n PROVE PlaceOk(i)'
    BY <1>1, <1>4 DEF PlacesOk
  <2>1. peers'[i] = s[i] /\ histories'[i] = HistoryOf(i, s[i])
    BY <1>1, <1>4
  <2>2. saved' = saved /\ owner' = owner
    BY DEF Start, files
  <2>3. PICK h : h = HistoryOf(i, s[i])
    OBVIOUS
  <2>4. /\ \A x \in h : Fits(x, FileOf[s[i]])
        /\ saved[FileOf[s[i]]] # NoFile => saved[FileOf[s[i]]] \subseteq h
    BY <1>8, <2>3
  <2>5. peers'[i] = s[i] /\ histories'[i] = h
    BY <2>1, <2>3
  <2> QED
    BY <2>2, <2>4, <2>5 DEF PlaceOk, Fits
<1>11. Parallel'
  BY <1>1, <1>3, <1>4, <1>6, <1>7, <1>9, EmptySeq DEF Parallel, Start
<1>12. TypeOK'
  BY <1>1, <1>7, <1>9 DEF TypeOK, Start, files
<1> QED
  BY <1>10, <1>11, <1>12 DEF FilesOk, Fits, Start, files

(* A step after which memory is empty. *)
LEMMA EmptyKeeps ==
  ASSUME IInv, peers' = <<>>, histories' = <<>>, known' = {}, behind' = {},
         running' \in BOOLEAN, current' \in Nat \ {0},
         trusted' \subseteq trusted, bundles' \subseteq bundles,
         UNCHANGED <<saved, legacy, owner>>
  PROVE  IInv'
<1>1. Parallel' /\ PlacesOk' /\ peers' \in Seq(Peer) /\ histories' \in Seq(History)
  BY EmptyVectors
<1>2. TypeOK'
  BY <1>1 DEF IInv, TypeOK
<1> QED
  BY <1>1, <1>2 DEF IInv, FilesOk, Fits

LEMMA StopKeeps == IInv /\ Stop => IInv'
<1> SUFFICES ASSUME IInv, Stop PROVE IInv'
  OBVIOUS
<1>1. /\ peers' = <<>> /\ histories' = <<>> /\ known' = {} /\ behind' = {}
      /\ running' \in BOOLEAN /\ current' \in Nat \ {0}
      /\ trusted' \subseteq trusted /\ bundles' \subseteq bundles
      /\ UNCHANGED <<saved, legacy, owner>>
  BY One DEF Stop, Stopped, files
<1> QED
  BY <1>1, EmptyKeeps

LEMMA UseKeeps == IInv /\ Use => IInv'
<1> SUFFICES ASSUME IInv, Use PROVE IInv'
  OBVIOUS
<1>1. TypeOK' /\ Parallel'
  BY VectorFacts DEF IInv, Use, TypeOK, Parallel, files
<1> QED
  BY <1>1 DEF IInv, Use, PlacesOk, PlaceOk, FilesOk, Fits, files

-----------------------------------------------------------------------------
(* A save by the lobby in place c changes its own file only, and puts the  *)
(* other lobbies with that file behind it.                                 *)
LEMMA SaveOk ==
  ASSUME IInv, NEW c \in 1 .. Len(peers), NEW h \in History, Save(peers[c], h)
  PROVE  /\ saved' \in [File -> {NoFile} \cup History] /\ behind' \subseteq Peer
         /\ FileOf[peers[c]] \in File /\ saved'[FileOf[peers[c]]] = h
         /\ \A f \in File : f # FileOf[peers[c]] => saved'[f] = saved[f]
         /\ \A i \in 1 .. Len(peers) : i # c /\ peers[i] \notin behind' =>
              FileOf[peers[i]] # FileOf[peers[c]] /\ peers[i] \notin behind
<1>1. /\ saved \in [File -> {NoFile} \cup History] /\ behind \subseteq Peer
      /\ DOMAIN peers = 1 .. Len(peers)
      /\ \A i \in 1 .. Len(peers) : peers[i] \in Peer
      /\ \A i, j \in 1 .. Len(peers) : peers[i] = peers[j] => i = j
  BY VectorFacts DEF IInv, TypeOK
<1>2. peers[c] \in Peer /\ FileOf[peers[c]] \in File
  BY <1>1 DEF File
<1>3. /\ saved' = [saved EXCEPT ![FileOf[peers[c]]] = h]
      /\ behind' = (behind \ {peers[c]}) \cup {q \in ToSet(peers) \ {peers[c]} : Shares(peers[c], q)}
  BY DEF Save
<1>4. ToSet(peers) \subseteq Peer
  BY <1>1 DEF ToSet
<1>5. ASSUME NEW i \in 1 .. Len(peers), i # c, peers[i] \notin behind'
      PROVE  FileOf[peers[i]] # FileOf[peers[c]] /\ peers[i] \notin behind
  <2>1. peers[i] \in ToSet(peers) /\ peers[i] # peers[c]
    BY <1>1, <1>5 DEF ToSet
  <2> QED
    BY <2>1, <1>3, <1>5 DEF Shares
<1> QED
  BY <1>1, <1>2, <1>3, <1>4, <1>5

(* The vectors stay as long as they were, each peer in its place. *)
LEMMA WriteKeeps == IInv /\ Write => IInv'
<1> SUFFICES ASSUME IInv, Write PROVE IInv'
  OBVIOUS
<1> USE DEF IInv
<1>1. /\ peers \in Seq(Peer) /\ histories \in Seq(History) /\ owner \in Seq(Peer \cup {Unknown})
      /\ saved \in [File -> {NoFile} \cup History] /\ behind \subseteq Peer
  BY DEF TypeOK
<1>2. PICK n \in Nat : n = Len(peers)
  BY VectorFacts
<1>3. PICK e \in Nat : e = Len(owner) + 1
  BY <1>1, LenProperties
<1>4. PICK c \in 1 .. n : c = current
  BY <1>2, VectorFacts DEF Write, InChat, Parallel
<1>5. PICK p \in Peer : p = peers[c]
  BY <1>2, VectorFacts
<1>6. /\ histories' = [histories EXCEPT ![c] = histories[c] \cup {e}]
      /\ owner' = Append(owner, p)
      /\ Save(p, histories'[c]) \/ UNCHANGED <<saved, behind>>
      /\ UNCHANGED <<running, peers, current, trusted, bundles, legacy>>
      /\ known' = known \cup {p}
  BY <1>3, <1>4, <1>5 DEF Write
<1>7. e \in 1 .. MaxEntries /\ DOMAIN owner = 1 .. e - 1
  BY <1>1, <1>3, LobbyAssumption, LenProperties DEF Write
<1>8. /\ owner' \in Seq(Peer \cup {Unknown}) /\ DOMAIN owner' = 1 .. e
      /\ owner'[e] = p /\ \A x \in DOMAIN owner : owner'[x] = owner[x]
  BY <1>1, <1>3, <1>6, <1>7, AppendAt
<1>9. DOMAIN owner \subseteq DOMAIN owner' /\ e \in DOMAIN owner'
  BY <1>7, <1>8
<1>10. /\ Len(histories) = n /\ DOMAIN histories = 1 .. n /\ DOMAIN peers = 1 .. n
       /\ \A i \in 1 .. n : histories[i] \in History /\ peers[i] \in Peer
       /\ \A i, j \in 1 .. n : peers[i] = peers[j] => i = j
  BY <1>2, VectorFacts
<1>11. /\ histories' \in Seq(History) /\ Len(histories') = n
       /\ \A i \in 1 .. n : i # c => histories'[i] = histories[i]
       /\ histories'[c] = histories[c] \cup {e}
       /\ histories'[c] \in History
  <2>1. histories[c] \cup {e} \in History
    BY <1>7, <1>10 DEF History
  <2> QED
    BY <2>1, <1>1, <1>6, <1>10
<1>12. /\ saved' \in [File -> {NoFile} \cup History] /\ behind' \subseteq Peer
       /\ FileOf[p] \in File /\ saved'[FileOf[p]] \in {saved[FileOf[p]], histories'[c]}
       /\ \A f \in File : f # FileOf[p] => saved'[f] = saved[f]
       /\ \A i \in 1 .. n : i # c /\ peers[i] \notin behind' =>
            saved'[FileOf[peers[i]]] = saved[FileOf[peers[i]]] /\ peers[i] \notin behind
       /\ \/ saved'[FileOf[p]] = histories'[c]
          \/ saved'[FileOf[p]] = saved[FileOf[p]] /\ behind' = behind
  <2>1. CASE Save(p, histories'[c])
    <3>1. /\ saved' \in [File -> {NoFile} \cup History] /\ behind' \subseteq Peer
          /\ FileOf[p] \in File /\ saved'[FileOf[p]] = histories'[c]
          /\ \A f \in File : f # FileOf[p] => saved'[f] = saved[f]
          /\ \A i \in 1 .. n : i # c /\ peers[i] \notin behind' =>
               FileOf[peers[i]] # FileOf[p] /\ peers[i] \notin behind
      BY <2>1, <1>2, <1>5, <1>11, SaveOk
    <3>2. \A i \in 1 .. n : FileOf[peers[i]] \in File
      BY <1>10 DEF File
    <3> QED
      BY <3>1, <3>2
  <2>2. CASE UNCHANGED <<saved, behind>>
    BY <2>2, <1>1 DEF File
  <2> QED
    BY <1>6, <2>1, <2>2
<1>13. \A x, f : Fits(x, f) => Fits(x, f)'
  BY <1>8, <1>9 DEF Fits
<1>14. PlaceOk(c)'
  <2>1. PlaceOk(c)
    BY <1>10 DEF PlacesOk
  <2>2. Fits(e, FileOf[p])'
    BY <1>8, <1>9 DEF Fits
  <2>3. \A x \in histories'[c] : Fits(x, FileOf[p])'
    BY <2>1, <2>2, <1>5, <1>11, <1>13 DEF PlaceOk
  <2>4. saved'[FileOf[p]] # NoFile /\ p \notin behind' => saved'[FileOf[p]] \subseteq histories'[c]
    BY <2>1, <1>5, <1>11, <1>12 DEF PlaceOk
  <2> QED
    BY <2>3, <2>4, <1>5, <1>6 DEF PlaceOk
<1>15. ASSUME NEW i \in 1 .. n, i # c PROVE PlaceOk(i)'
  <2>1. PlaceOk(i)
    BY <1>10 DEF PlacesOk
  <2> QED
    BY <2>1, <1>15, <1>6, <1>11, <1>12, <1>13 DEF PlaceOk
<1>16. PlacesOk'
  BY <1>6, <1>10, <1>14, <1>15 DEF PlacesOk
<1>17. TypeOK'
  <2>1. legacy' \in {NoFile} \cup History /\ known' \subseteq Peer
    BY <1>6 DEF TypeOK
  <2> QED
    BY <2>1, <1>6, <1>8, <1>11, <1>12 DEF TypeOK
<1>18. Parallel'
  <2>1. p \in ToSet(peers)
    BY <1>5, <1>10 DEF ToSet
  <2> QED
    BY <2>1, <1>2, <1>6, <1>11 DEF Parallel
<1>19. FilesOk'
  <2>1. ASSUME NEW f \in File, saved'[f] # NoFile
        PROVE  \A x \in saved'[f] : Fits(x, f)'
    <3>1. CASE saved'[f] = saved[f]
      BY <2>1, <3>1, <1>13 DEF FilesOk
    <3>2. CASE f = FileOf[p] /\ saved'[f] = histories'[c]
      BY <3>2, <1>14, <1>5, <1>6 DEF PlaceOk
    <3> QED
      BY <3>1, <3>2, <1>12
  <2>2. legacy' # NoFile => legacy' \subseteq DOMAIN owner'
    BY <1>6, <1>9 DEF FilesOk
  <2> QED
    BY <2>1, <2>2 DEF FilesOk
<1> QED
  BY <1>16, <1>17, <1>18, <1>19

LEMMA SaveAgainKeeps == IInv /\ SaveAgain => IInv'
<1> SUFFICES ASSUME IInv, SaveAgain PROVE IInv'
  OBVIOUS
<1> USE DEF IInv
<1>1. PICK n \in Nat : n = Len(peers)
  BY VectorFacts
<1>2. PICK c \in 1 .. n : c = current
  BY <1>1, VectorFacts DEF SaveAgain, InChat, Parallel
<1>3. PICK p \in Peer : p = peers[c]
  BY <1>1, VectorFacts
<1>4. /\ Save(p, histories[c])
      /\ UNCHANGED <<running, peers, histories, current, trusted, bundles, legacy, owner>>
      /\ known \subseteq known' /\ known' \subseteq known \cup {p}
  BY <1>2, <1>3 DEF SaveAgain
<1>5. /\ DOMAIN peers = 1 .. n /\ histories[c] \in History
      /\ \A i \in 1 .. n : peers[i] \in Peer /\ FileOf[peers[i]] \in File
  BY <1>1, VectorFacts DEF File
<1>6. /\ saved' \in [File -> {NoFile} \cup History] /\ behind' \subseteq Peer
      /\ saved'[FileOf[p]] = histories[c]
      /\ \A f \in File : f # FileOf[p] => saved'[f] = saved[f]
      /\ \A i \in 1 .. n : i # c /\ peers[i] \notin behind' =>
           FileOf[peers[i]] # FileOf[p] /\ peers[i] \notin behind
  BY <1>1, <1>3, <1>4, <1>5, SaveOk
<1>7. TypeOK'
  BY <1>4, <1>6 DEF TypeOK
<1>8. Parallel'
  <2>1. p \in ToSet(peers)
    BY <1>3, <1>5 DEF ToSet
  <2> QED
    BY <2>1, <1>4 DEF Parallel
<1>9. ASSUME NEW x, NEW f, Fits(x, f) PROVE Fits(x, f)'
  BY <1>9, <1>4 DEF Fits
<1>10. ASSUME NEW i \in 1 .. n PROVE PlaceOk(i)'
  <2>1. PlaceOk(i)
    BY <1>5 DEF PlacesOk
  <2>2. CASE i = c
    BY <2>1, <2>2, <1>3, <1>4, <1>6, <1>9 DEF PlaceOk
  <2>3. CASE i # c
    BY <2>1, <2>3, <1>4, <1>5, <1>6, <1>9 DEF PlaceOk
  <2> QED
    BY <2>2, <2>3
<1>11. PlacesOk'
  BY <1>4, <1>5, <1>10 DEF PlacesOk
<1>12. FilesOk'
  <2>1. \A x \in histories[c] : Fits(x, FileOf[p])
    BY <1>3, <1>5 DEF PlacesOk, PlaceOk
  <2> QED
    BY <2>1, <1>4, <1>6, <1>9 DEF FilesOk
<1> QED
  BY <1>7, <1>8, <1>11, <1>12

-----------------------------------------------------------------------------
(* The commands that may add a lobby. *)
LEMMA PlaceKeeps ==
  ASSUME IInv, NEW p \in Peer, NEW h \in History, Placed(p, h), Trust(p),
         \A e \in h : Fits(e, FileOf[p]),
         behind \subseteq behind', behind' \subseteq behind \cup {p},
         p \notin ToSet(peers) /\ saved[FileOf[p]] # NoFile /\ p \notin behind' =>
           saved[FileOf[p]] \subseteq h,
         UNCHANGED <<running, saved, legacy, owner>>,
         known' \subseteq known \cup {p},
         current' \in Nat \ {0}, peers' # <<>> => current' \in 1 .. Len(peers')
  PROVE  IInv'
<1>1. /\ peers' \in Seq(Peer) /\ histories' \in Seq(History)
      /\ Len(peers') = Len(histories') /\ IsInjective(peers') /\ PlacesOk'
      /\ ToSet(peers) \cup {p} \subseteq ToSet(peers')
  BY PlacedKeeps
<1>2. TypeOK'
  BY <1>1 DEF IInv, TypeOK, Trust, WithoutFile
<1>3. Parallel'
  BY <1>1, LenProperties DEF IInv, Parallel
<1>4. FilesOk'
  BY DEF IInv, FilesOk, Fits
<1> QED
  BY <1>1, <1>2, <1>3, <1>4 DEF IInv

LEMMA EnteredKeeps ==
  ASSUME IInv, NEW p \in Peer, NEW h \in History, Placed(p, h), Entered(p),
         Len(peers') = IF p \in ToSet(peers) THEN Len(peers) ELSE Len(peers) + 1
  PROVE  current' \in Nat \ {0} /\ current' \in 1 .. Len(peers')
  BY PositionOf, VectorFacts DEF IInv, Entered

LEMMA AdoptKeeps == ASSUME NEW p \in Peer PROVE IInv /\ Adopt(p) => IInv'
<1> SUFFICES ASSUME IInv, Adopt(p) PROVE IInv'
  OBVIOUS
<1>1. {} \in History
  BY DEF History
<1>2. /\ Placed(p, {}) /\ Entered(p) /\ Trust(p) /\ known' = known \cup {p}
      /\ behind' = IF p \in ToSet(peers) \/ saved[FileOf[p]] = NoFile THEN behind
                   ELSE behind \cup {p}
      /\ UNCHANGED <<running, saved, legacy, owner>>
  BY DEF Adopt, Unread
<1>3. Len(peers') = IF p \in ToSet(peers) THEN Len(peers) ELSE Len(peers) + 1
  BY <1>1, <1>2, PlacedKeeps
<1>4. current' \in Nat \ {0} /\ current' \in 1 .. Len(peers')
  BY <1>1, <1>2, <1>3, EnteredKeeps
<1> QED
  BY <1>1, <1>2, <1>4, PlaceKeeps

LEMMA SetupPeerKeeps == ASSUME NEW p \in Peer PROVE IInv /\ SetupPeer(p) => IInv'
<1> SUFFICES ASSUME IInv, SetupPeer(p) PROVE IInv'
  OBVIOUS
<1>1. PICK h : h = IF saved[FileOf[p]] # NoFile THEN saved[FileOf[p]] ELSE {}
  OBVIOUS
<1>2. /\ h \in History /\ \A e \in h : Fits(e, FileOf[p])
      /\ saved[FileOf[p]] # NoFile => saved[FileOf[p]] \subseteq h
  BY <1>1 DEF IInv, TypeOK, FilesOk, History, File
<1>3. /\ Placed(p, h) /\ Entered(p) /\ Trust(p) /\ known' = known \cup {p}
      /\ UNCHANGED <<running, saved, legacy, owner, behind>>
  BY <1>1 DEF SetupPeer
<1>4. Len(peers') = IF p \in ToSet(peers) THEN Len(peers) ELSE Len(peers) + 1
  BY <1>2, <1>3, PlacedKeeps
<1>5. current' \in Nat \ {0} /\ current' \in 1 .. Len(peers')
  BY <1>2, <1>3, <1>4, EnteredKeeps
<1> QED
  BY <1>2, <1>3, <1>5, PlaceKeeps

LEMMA AcceptRecoveryKeeps == ASSUME NEW p \in Peer PROVE IInv /\ AcceptRecovery(p) => IInv'
<1> SUFFICES ASSUME IInv, AcceptRecovery(p) PROVE IInv'
  OBVIOUS
<1>1. {} \in History /\ p \in ToSet(peers)
  BY DEF History, AcceptRecovery, IInv, Parallel
<1>2. /\ Placed(p, {}) /\ Trust(p) /\ known' = {} /\ behind' = behind
      /\ UNCHANGED <<running, saved, legacy, owner, current, peers>>
  BY <1>1 DEF AcceptRecovery, Placed, Unread
<1>3. current' \in Nat \ {0} /\ (peers' # <<>> => current' \in 1 .. Len(peers'))
  BY <1>2, VectorFacts DEF IInv, TypeOK, Parallel
<1> QED
  BY <1>1, <1>2, <1>3, PlaceKeeps

-----------------------------------------------------------------------------
(* /revoke-device: the places behind the current one move up. *)
LEMMA RevokeDeviceKeeps == IInv /\ RevokeDevice => IInv'
<1> SUFFICES ASSUME IInv, RevokeDevice PROVE IInv'
  OBVIOUS
<1> USE DEF IInv
<1>1. PICK n \in Nat : n = Len(peers)
  BY VectorFacts
<1>2. PICK c \in 1 .. n : c = current
  BY <1>1, VectorFacts DEF RevokeDevice, InChat, Parallel
<1>3. PICK p \in Peer : p = peers[c]
  BY <1>1, VectorFacts
<1>4. /\ peers' = RemoveAt(peers, c) /\ histories' = RemoveAt(histories, c)
      /\ behind' = behind \ {p} /\ known' = {}
      /\ trusted' = trusted \ {p} /\ bundles' = WithoutFile(p)
      /\ current' = IF c < n \/ n = 1 THEN c ELSE n - 1
      /\ UNCHANGED <<running, saved, legacy, owner>>
  BY <1>1, <1>2, <1>3 DEF RevokeDevice
<1>5. /\ peers \in Seq(Peer) /\ histories \in Seq(History)
      /\ Len(histories) = n /\ DOMAIN peers = 1 .. n
      /\ \A i, j \in 1 .. n : peers[i] = peers[j] => i = j
  BY <1>1, VectorFacts DEF TypeOK
<1>6. /\ peers' \in Seq(Peer) /\ Len(peers') = n - 1 /\ DOMAIN peers' = 1 .. n - 1
      /\ \A i \in 1 .. n - 1 : peers'[i] = peers[IF i < c THEN i ELSE i + 1]
  BY <1>1, <1>4, <1>5, RemovedAt
<1>7. /\ histories' \in Seq(History) /\ Len(histories') = n - 1
      /\ \A i \in 1 .. n - 1 : histories'[i] = histories[IF i < c THEN i ELSE i + 1]
  <2>1. histories \in Seq(History) /\ c \in 1 .. Len(histories)
    BY <1>5
  <2>2. /\ RemoveAt(histories, c) \in Seq(History)
        /\ Len(RemoveAt(histories, c)) = Len(histories) - 1
        /\ \A i \in 1 .. Len(histories) - 1 :
             RemoveAt(histories, c)[i] = histories[IF i < c THEN i ELSE i + 1]
    BY <2>1, RemovedAt
  <2> QED
    BY <2>2, <1>4, <1>5
<1>8. IsInjective(peers')
  BY <1>5, <1>6 DEF IsInjective
<1>9. ASSUME NEW i \in 1 .. n - 1 PROVE PlaceOk(i)'
  <2>1. PICK j \in 1 .. n : j = (IF i < c THEN i ELSE i + 1)
    BY <1>9
  <2>2. peers'[i] = peers[j] /\ histories'[i] = histories[j] /\ j # c
    BY <2>1, <1>6, <1>7
  <2>3. PlaceOk(j) /\ peers[j] # p
    BY <2>2, <1>3, <1>5 DEF PlacesOk
  <2> QED
    BY <2>2, <2>3, <1>4 DEF PlaceOk, Fits
<1>10. PlacesOk'
  BY <1>6, <1>9 DEF PlacesOk
<1>11. Parallel'
  <2>1. peers' # <<>> => current' \in DOMAIN peers'
    BY <1>4, <1>6, EmptySeq
  <2> QED
    BY <2>1, <1>4, <1>6, <1>7, <1>8 DEF Parallel
<1>12. TypeOK'
  BY <1>4, <1>6, <1>7 DEF TypeOK, WithoutFile
<1>13. FilesOk'
  BY <1>4 DEF FilesOk, Fits
<1> QED
  BY <1>10, <1>11, <1>12, <1>13

LEMMA CutKeeps == IInv /\ (RevokeDeviceCut \/ ReplaceIdentityCut \/ ReplaceIdentity) => IInv'
<1> SUFFICES ASSUME IInv, RevokeDeviceCut \/ ReplaceIdentityCut \/ ReplaceIdentity PROVE IInv'
  OBVIOUS
<1>1. /\ peers' = <<>> /\ histories' = <<>> /\ known' = {} /\ behind' = {}
      /\ running' \in BOOLEAN /\ current' \in Nat \ {0}
      /\ trusted' \subseteq trusted /\ bundles' \subseteq bundles
      /\ UNCHANGED <<saved, legacy, owner>>
  <2>1. CASE RevokeDeviceCut
    BY <2>1, One DEF RevokeDeviceCut, Stopped
  <2>2. CASE ReplaceIdentityCut
    BY <2>2, One DEF ReplaceIdentityCut, Stopped
  <2>3. CASE ReplaceIdentity
    BY <2>3 DEF ReplaceIdentity, IInv, TypeOK
  <2> QED
    BY <2>1, <2>2, <2>3
<1> QED
  BY <1>1, EmptyKeeps

-----------------------------------------------------------------------------
LEMMA StepKeeps == IInv /\ [Next]_vars => IInv'
<1> SUFFICES ASSUME IInv, [Next]_vars PROVE IInv'
  OBVIOUS
<1>1. CASE Start
  BY <1>1, StartKeeps
<1>2. CASE Stop
  BY <1>2, StopKeeps
<1>3. CASE Chatting
  BY <1>3, WriteKeeps, SaveAgainKeeps, UseKeeps DEF Chatting
<1>4. CASE Changing
  BY <1>4, AdoptKeeps, SetupPeerKeeps, AcceptRecoveryKeeps, RevokeDeviceKeeps, CutKeeps DEF Changing
<1>5. CASE UNCHANGED vars
  BY <1>5 DEF vars, memory, files, IInv, TypeOK, Parallel, PlacesOk, PlaceOk, FilesOk, Fits
<1> QED
  BY <1>1, <1>2, <1>3, <1>4, <1>5 DEF Next

(* The inductive invariant holds in every state. *)
THEOREM Invariance == Spec => []IInv
<1> QED
  BY InitInv, StepKeeps, PTL DEF Spec

(* Every variable has its type, for any number of peers and entries. *)
THEOREM TypeCorrect == Spec => []TypeOK
<1>1. IInv => TypeOK
  BY DEF IInv
<1> QED
  BY <1>1, Invariance, PTL

(* The vectors of peers and histories (safechat-ui.rs, chat_loop) stay     *)
(* parallel and the index points into them, through any commands.          *)
THEOREM VectorsParallel == Spec => []Parallel
<1>1. IInv => Parallel
  BY DEF IInv
<1> QED
  BY <1>1, Invariance, PTL

(* However the names of the peers make file names (peer_file_component,    *)
(* safechat-ui.rs:577): no message stands in the conversation of a peer    *)
(* with another file name, in memory or in a file.                         *)
THEOREM NoMixedConversation == Spec => []OwnConversation
<1>1. IInv => OwnConversation
  BY DEF IInv, OwnConversation, PlacesOk, PlaceOk, FilesOk, Fits
<1> QED
  BY <1>1, Invariance, PTL

(* Only the two actions that save a history change a file, and what they   *)
(* save holds what was there, unless the lobby is behind its file.         *)
LEMMA SaveKeeps ==
  ASSUME IInv, [Next]_vars, NEW f \in File, saved[f] # NoFile,
         ~(InChat /\ peers[current] \in behind /\ FileOf[peers[current]] = f)
  PROVE  saved'[f] # NoFile /\ saved[f] \subseteq saved'[f]
<1>1. CASE saved' = saved
  BY <1>1
<1>2. ASSUME NEW h \in History, Save(peers[current], h), InChat, histories[current] \subseteq h
      PROVE  saved'[f] # NoFile /\ saved[f] \subseteq saved'[f]
  <2>1. PICK c \in 1 .. Len(peers) : c = current
    BY <1>2, VectorFacts DEF InChat, IInv, Parallel
  <2>2. /\ saved'[FileOf[peers[c]]] = h
        /\ f # FileOf[peers[c]] => saved'[f] = saved[f]
    BY <2>1, <1>2, SaveOk
  <2>3. CASE f = FileOf[peers[c]]
    <3>1. PlaceOk(c)
      BY VectorFacts DEF IInv, PlacesOk
    <3>2. h # NoFile
      BY LobbyAssumption DEF History
    <3> QED
      BY <3>1, <3>2, <2>1, <2>2, <2>3, <1>2 DEF PlaceOk
  <2>4. CASE f # FileOf[peers[c]]
    BY <2>2, <2>4
  <2> QED
    BY <2>3, <2>4
<1>3. CASE Write
  <2>1. CASE saved' = saved
    BY <2>1
  <2>2. CASE Save(peers[current], histories'[current])
    <3>1. InChat /\ current \in 1 .. Len(peers) /\ current' = current
      BY <1>3, VectorFacts DEF Write, InChat, IInv, Parallel
    <3>2. histories'[current] = histories[current] \cup {Len(owner) + 1}
      BY <1>3, <3>1, VectorFacts DEF Write, IInv
    <3>3. IInv'
      BY <1>3, WriteKeeps
    <3>4. histories'[current] \in History
      <4>1. histories' \in Seq(History) /\ Len(histories') = Len(peers)
        BY <1>3, <3>3 DEF Write, IInv, TypeOK, Parallel
      <4> QED
        BY <4>1, <3>1, ElementOfSeq
    <3> QED
      BY <1>2, <2>2, <3>1, <3>2, <3>4
  <2> QED
    BY <1>3, <2>1, <2>2 DEF Write
<1>4. CASE SaveAgain
  <2>1. InChat /\ histories[current] \in History
    BY <1>4, VectorFacts DEF SaveAgain, InChat, IInv, Parallel
  <2> QED
    BY <1>2, <1>4, <2>1 DEF SaveAgain
<1>5. CASE ~(Write \/ SaveAgain)
  BY <1>1, <1>5 DEF Next, vars, files, Start, Stop, Chatting, Use, Changing, Adopt, SetupPeer,
     AcceptRecovery, RevokeDevice, RevokeDeviceCut, ReplaceIdentity, ReplaceIdentityCut
<1> QED
  BY <1>3, <1>4, <1>5

(* Saving never takes an entry out of a history file, except by a lobby    *)
(* that is behind it: set up again without reading it, or sharing it with  *)
(* a peer that saved last.                                                 *)
THEOREM FilesKept == Spec => HistoryKept
<1> DEFINE Replaced(f) == InChat /\ peers[current] \in behind /\ FileOf[peers[current]] = f
<1>1. IInv /\ [Next]_vars =>
        [\A f \in File : saved[f] # NoFile /\ ~Replaced(f) =>
           saved'[f] # NoFile /\ saved[f] \subseteq saved'[f]]_vars
  BY SaveKeeps
<1> QED
  BY <1>1, Invariance, PTL DEF Spec, HistoryKept

=============================================================================
