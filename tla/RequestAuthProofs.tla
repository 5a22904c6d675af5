-------------------------- MODULE RequestAuthProofs --------------------------
(***************************************************************************)
(* RequestAuth, for any clients, nonces and any window, lifetime, skew and *)
(* wait with Window + Skew + MaxWait <= NonceTtl: a signed request is      *)
(* accepted once at most.                                                  *)
(*                                                                         *)
(* The invariant behind it (Kept): the nonce of an accepted request  *)
(* is in the table, for long enough, or so much time has passed that no    *)
(* copy of the request can be waiting any more.                            *)
(***************************************************************************)
EXTENDS RequestAuth, TLAPS

(* When the last copy of a request has been verified, at the latest. *)
Deadline(r) == r.ts + Window + MaxWait

(* Waiting copies are near their timestamp and have not waited too long.   *)
CopiesInTime ==
  \A k \in checking : /\ k.since <= k.req.ts + Window
                      /\ k.since <= clock /\ clock <= k.since + MaxWait

(* No client signs two requests with one nonce. *)
NoncesAreFresh ==
  \A r, s \in signed : r.by = s.by /\ r.nonce = s.nonce => r = s

(* What clients have not signed has not been accepted. *)
AcceptedIsSigned == \A r \in Request : r \notin signed => accepted[r] = 0

(* No client's clock is further off than Skew. *)
SignedInTime == \A r \in signed : r.ts <= clock + Skew

(* The nonce of an accepted request is kept until the deadline. *)
Kept ==
  \A r \in signed : accepted[r] > 0 =>
    \/ clock > Deadline(r)
    \/ \E w \in nonces : /\ w.by = r.by /\ w.nonce = r.nonce
                         /\ w.expires >= Deadline(r)

IInv == /\ TypeOK /\ CopiesInTime /\ NoncesAreFresh /\ AcceptedIsSigned
        /\ SignedInTime /\ Kept /\ AcceptedOnce

-----------------------------------------------------------------------------
(* Times are numbers. *)
LEMMA Times ==
  ASSUME TypeOK
  PROVE  /\ clock \in Nat
         /\ \A r \in Request : r.by \in Client /\ r.nonce \in Nonce /\ r.ts \in Nat
         /\ \A r \in Request : accepted[r] \in Nat /\ Deadline(r) \in Nat
         /\ \A k \in checking : k.req \in signed /\ k.req \in Request /\ k.since \in Nat
         /\ \A w \in nonces : w.expires \in Nat
<1>1. SignTime \subseteq Nat
  BY WindowAssumption DEF SignTime
<1>2. \A r \in Request : r.by \in Client /\ r.nonce \in Nonce /\ r.ts \in Nat
  BY <1>1 DEF Request
<1> QED
  BY <1>2, WindowAssumption DEF TypeOK, Deadline, NonceRow

LEMMA InitInv == Init => IInv
<1> SUFFICES ASSUME Init PROVE IInv
  OBVIOUS
<1>1. 0 \in 0..MaxClock
  BY WindowAssumption
<1> QED
  BY <1>1 DEF Init, IInv, TypeOK, CopiesInTime, NoncesAreFresh, AcceptedIsSigned,
     SignedInTime, Kept, AcceptedOnce

(* A nonce that has been purged was kept until the deadline. *)
LEMMA KeptAfterPurge ==
  ASSUME IInv, NEW r \in signed, accepted[r] > 0
  PROVE  \/ clock > Deadline(r)
         \/ \E w \in Purged : /\ w.by = r.by /\ w.nonce = r.nonce
                              /\ w.expires >= Deadline(r)
<1>1. TypeOK /\ r \in Request
  BY DEF IInv, TypeOK
<1>2. CASE clock <= Deadline(r)
  <2>1. PICK w \in nonces : /\ w.by = r.by /\ w.nonce = r.nonce
                            /\ w.expires >= Deadline(r)
    BY <1>1, <1>2, Times DEF IInv, Kept
  <2>2. w.expires >= clock
    BY <1>1, <1>2, <2>1, Times
  <2> QED
    BY <2>1, <2>2 DEF Purged
<1> QED
  BY <1>1, <1>2, Times

(* Signing: the request is new. *)
LEMMA SignInv ==
  ASSUME IInv, NEW c \in Client, NEW n \in Nonce, NEW t \in SignTime, Sign(c, n, t)
  PROVE  IInv'
<1> DEFINE r == [by |-> c, nonce |-> n, ts |-> t]
<1>1. TypeOK /\ r \in Request /\ t \in Nat /\ r.ts = t /\ r.by = c /\ r.nonce = n
  <2>1. TypeOK /\ r \in Request /\ r.ts = t /\ r.by = c /\ r.nonce = n
    BY DEF IInv, Request
  <2> HIDE DEF r
  <2>2. r.ts \in Nat
    BY <2>1, Times
  <2> QED
    BY <2>1, <2>2
<1>2. /\ signed' = signed \cup {r} /\ UNCHANGED <<clock, checking, nonces, accepted>>
      /\ t <= clock + Skew
      /\ \A s \in signed : ~(s.by = c /\ s.nonce = n)
  BY DEF Sign, Close
<1> HIDE DEF r
<1>3. TypeOK'
  BY <1>1, <1>2 DEF TypeOK
<1>4. r \notin signed /\ accepted[r] = 0
  BY <1>1, <1>2 DEF IInv, AcceptedIsSigned
<1>5. NoncesAreFresh'
  BY <1>1, <1>2 DEF IInv, NoncesAreFresh
<1>7. SignedInTime' /\ CopiesInTime'
  BY <1>1, <1>2 DEF IInv, SignedInTime, CopiesInTime
<1>6. AcceptedIsSigned' /\ AcceptedOnce' /\ Kept'
  BY <1>2, <1>4 DEF IInv, AcceptedIsSigned, AcceptedOnce, Kept, Deadline
<1> QED
  BY <1>3, <1>5, <1>6, <1>7 DEF IInv

(* Arrival: the copy is as near to its timestamp as the window says. *)
LEMMA ArriveInv ==
  ASSUME IInv, NEW r \in signed, Arrive(r)
  PROVE  IInv'
<1>1. TypeOK /\ clock \in Nat /\ MaxWait \in Nat
  BY Times, WindowAssumption DEF IInv
<1>2. TypeOK'
  BY <1>1 DEF TypeOK, Arrive
<1>3. CopiesInTime'
  BY <1>1 DEF IInv, CopiesInTime, Arrive, Close
<1> QED
  BY <1>2, <1>3 DEF IInv, Arrive, NoncesAreFresh, AcceptedIsSigned, SignedInTime,
     Kept, AcceptedOnce, Deadline

(* Acceptance: a request accepted before would have been remembered. *)
LEMMA AcceptInv ==
  ASSUME IInv, NEW k \in checking, Accept(k)
  PROVE  IInv'
<1> DEFINE r == k.req
           w == [by |-> r.by, nonce |-> r.nonce, expires |-> clock + NonceTtl]
<1>1. /\ TypeOK /\ r \in signed /\ r \in Request /\ clock \in Nat
      /\ r.ts \in Nat /\ k.since \in Nat /\ Deadline(r) \in Nat
  BY Times DEF IInv
<1>2. /\ nonces' = Purged \cup {w} /\ checking' = checking \ {k}
      /\ accepted' = [accepted EXCEPT ![r] = @ + 1]
      /\ UNCHANGED <<clock, signed>> /\ ~Recorded(r)
  BY DEF Accept
<1>3. /\ w \in NonceRow /\ w.by = r.by /\ w.nonce = r.nonce
      /\ w.expires = clock + NonceTtl
  BY <1>1, Times, WindowAssumption DEF NonceRow
<1>4. clock <= Deadline(r) /\ clock + NonceTtl >= Deadline(r)
  <2>1. r.ts <= clock + Skew /\ k.since <= r.ts + Window /\ clock <= k.since + MaxWait
    BY <1>1 DEF IInv, CopiesInTime, SignedInTime
  <2> QED
    BY <1>1, <2>1, WindowAssumption DEF Deadline
<1>5. accepted[r] = 0
  <2>1. accepted[r] \in Nat
    BY <1>1, Times
  <2>2. ~(accepted[r] > 0)
    BY <1>1, <1>2, <1>4, KeptAfterPurge DEF Recorded
  <2> QED
    BY <2>1, <2>2
<1> HIDE DEF r, w
<1>6. Purged \subseteq nonces
  BY DEF Purged
<1>7. TypeOK'
  BY <1>1, <1>2, <1>3, <1>5, <1>6 DEF TypeOK
<1>8. /\ accepted'[r] = 1
      /\ \A s \in Request \ {r} : accepted'[s] = accepted[s]
  BY <1>1, <1>2, <1>5 DEF TypeOK
<1>9. AcceptedOnce' /\ AcceptedIsSigned'
  BY <1>1, <1>2, <1>8 DEF IInv, AcceptedOnce, AcceptedIsSigned, TypeOK
<1>10. Kept'
  <2> SUFFICES ASSUME NEW s \in signed, accepted'[s] > 0
               PROVE  \/ clock > Deadline(s)
                      \/ \E v \in nonces' : /\ v.by = s.by /\ v.nonce = s.nonce
                                            /\ v.expires >= Deadline(s)
    BY <1>2 DEF Kept, Deadline
  <2>1. CASE s = r
    BY <1>2, <1>3, <1>4, <2>1
  <2>2. CASE s # r
    <3>1. accepted[s] > 0
      BY <1>1, <1>8, <2>2 DEF TypeOK
    <3> QED
      BY <1>2, <3>1, KeptAfterPurge
  <2> QED
    BY <2>1, <2>2
<1> QED
  BY <1>2, <1>7, <1>9, <1>10 DEF IInv, CopiesInTime, NoncesAreFresh, SignedInTime

(* Refusal purges, and a copy less waits. *)
LEMMA RefuseInv ==
  ASSUME IInv, NEW k \in checking, Refuse(k) \/ Drop(k)
  PROVE  IInv'
<1>1. /\ nonces' \in {nonces, Purged} /\ Purged \subseteq nonces
      /\ checking' \subseteq checking /\ UNCHANGED <<clock, signed, accepted>>
  BY DEF Refuse, Drop, Purged
<1>2. TypeOK'
  BY <1>1 DEF IInv, TypeOK
<1>3. Kept'
  <2> SUFFICES ASSUME NEW s \in signed, accepted[s] > 0
               PROVE  \/ clock > Deadline(s)
                      \/ \E v \in nonces' : /\ v.by = s.by /\ v.nonce = s.nonce
                                            /\ v.expires >= Deadline(s)
    BY <1>1 DEF Kept, Deadline
  <2> QED
    BY <1>1, KeptAfterPurge
<1> QED
  BY <1>1, <1>2, <1>3 DEF IInv, CopiesInTime, NoncesAreFresh, AcceptedIsSigned,
     SignedInTime, AcceptedOnce

(* Time passes. *)
LEMMA TickInv == ASSUME IInv, Tick PROVE IInv'
<1>1. /\ TypeOK /\ clock \in Nat /\ clock' = clock + 1
      /\ UNCHANGED <<signed, checking, nonces, accepted>>
      /\ \A k \in checking : clock < k.since + MaxWait
  BY Times DEF IInv, Tick
<1>2. TypeOK'
  BY <1>1, WindowAssumption DEF TypeOK, Tick
<1>3. CopiesInTime'
  BY <1>1, Times, WindowAssumption DEF IInv, CopiesInTime
<1>4. SignedInTime'
  BY <1>1, Times, WindowAssumption DEF IInv, SignedInTime, TypeOK
<1>5. Kept'
  BY <1>1, Times DEF IInv, Kept, TypeOK, Deadline
<1> QED
  BY <1>1, <1>2, <1>3, <1>4, <1>5 DEF IInv, NoncesAreFresh, AcceptedIsSigned, AcceptedOnce

LEMMA StepInv == IInv /\ [Next]_vars => IInv'
<1> SUFFICES ASSUME IInv, [Next]_vars PROVE IInv'
  OBVIOUS
<1>1. CASE UNCHANGED vars
  BY <1>1 DEF vars, IInv, TypeOK, CopiesInTime, NoncesAreFresh, AcceptedIsSigned,
     SignedInTime, Kept, AcceptedOnce, Deadline
<1>2. CASE Next
  BY <1>2, SignInv, ArriveInv, AcceptInv, RefuseInv, TickInv DEF Next
<1> QED
  BY <1>1, <1>2

(* Every table, request and clock has its type. *)
THEOREM TypeCorrect == Spec => []TypeOK
<1>1. IInv => TypeOK
  BY DEF IInv
<1> QED
  BY InitInv, StepInv, <1>1, PTL DEF Spec

(* A signed request is accepted once at most, however often and however    *)
(* late its copies arrive.                                                 *)
THEOREM NoReplay == Spec => []AcceptedOnce
<1>1. IInv => AcceptedOnce
  BY DEF IInv
<1> QED
  BY InitInv, StepInv, <1>1, PTL DEF Spec
=============================================================================
