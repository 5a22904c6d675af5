---------------------------- MODULE EnrollmentProofs ----------------------------
(***************************************************************************)
(* Enrollment, for any clients, challenges and tokens: the type invariant, *)
(* TokenWorks, and the refinement of RelayAccess.                          *)
(*                                                                         *)
(* TokenWorks is not inductive: copies of a client's registrations are     *)
(* still in flight when it has its token.  IInv adds that none of them     *)
(* matches the challenge in the table, which holds because a registration  *)
(* deletes its challenge and a later challenge is a fresh one.             *)
(***************************************************************************)
EXTENDS Enrollment, TLAPS

(* The client has its token, in memory or in the session file. *)
Settled(c) == job[c].pc \in {"saving", "enrolled"}
TokenOf(c) == IF job[c].pc = "saving" THEN job[c].token ELSE session[c]

(* No copy of a registration of a settled client can still be accepted.    *)
CopiesAreDead ==
  \A c \in Client : Settled(c) =>
    \A k \in wire : k.op = "register" /\ k.by = c => challenge[c] # k.nonce

TokenIsCurrent ==
  \A c \in Client : Settled(c) /\ device[c] # NoDevice => token[c] = TokenOf(c)

SessionWhenEnrolled == \A c \in Client : session[c] # NoToken => job[c].pc = "enrolled"

ChallengeInHand == \A c \in Client : job[c].pc = "challenged" => job[c].nonce \in Nonce

IInv == /\ TypeOK /\ CopiesAreDead /\ TokenIsCurrent
        /\ SessionWhenEnrolled /\ ChallengeInHand

-----------------------------------------------------------------------------
(* The kinds of request. *)
LEMMA CallFields ==
  ASSUME NEW k \in Call
  PROVE  /\ k.by \in Client
         /\ k.op = "register" => k.nonce \in Nonce
  BY DEF Call, EnrollCall, ChallengeCall, RegisterCall

(* Where a client can be put. *)
LEMMA JobFields ==
  /\ \A pc \in Phase : /\ At(pc) \in Job
                       /\ At(pc).pc = pc /\ At(pc).token = NoToken
  /\ \A n \in Nonce : /\ [At("challenged") EXCEPT !.nonce = n] \in Job
                      /\ [At("challenged") EXCEPT !.nonce = n].pc = "challenged"
                      /\ [At("challenged") EXCEPT !.nonce = n].nonce = n
  /\ \A t \in Token : /\ [At("saving") EXCEPT !.token = t] \in Job
                      /\ [At("saving") EXCEPT !.token = t].pc = "saving"
                      /\ [At("saving") EXCEPT !.token = t].token = t
  BY DEF At, Job, Phase

(* Nobody runs and nothing is stored. *)
LEMMA InitInv == Init => IInv
<1> SUFFICES ASSUME Init PROVE IInv
  OBVIOUS
<1>1. At("off") \in Job /\ At("off").pc = "off"
  BY JobFields DEF Phase
<1> QED
  BY <1>1 DEF Init, IInv, TypeOK, CopiesAreDead, TokenIsCurrent, SessionWhenEnrolled,
     ChallengeInHand, Settled

(* Steps that change neither a challenge nor a job, and at most drop a     *)
(* device.                                                                 *)
LEMMA RelayStep ==
  ASSUME IInv, TypeOK', UNCHANGED <<challenge, job, session>>, wire' \subseteq wire,
         \A c \in Client : \/ device'[c] = NoDevice
                           \/ device'[c] = device[c] /\ token'[c] = token[c]
  PROVE  IInv'
<1>1. CopiesAreDead'
  BY DEF IInv, CopiesAreDead, Settled
<1>2. TokenIsCurrent'
  BY DEF IInv, TokenIsCurrent, Settled, TokenOf
<1> QED
  BY <1>1, <1>2 DEF IInv, SessionWhenEnrolled, ChallengeInHand

(* A client that is not enrolled is put somewhere else, and has not its    *)
(* token yet.                                                              *)
LEMMA JobStep ==
  ASSUME IInv, TypeOK', NEW c \in Client, NEW j \in Job,
         job' = [job EXCEPT ![c] = j],
         job[c].pc # "enrolled", j.pc \notin {"saving", "enrolled"},
         j.pc = "challenged" => j.nonce \in Nonce,
         UNCHANGED <<device, token, session>>,
         \A k \in wire' \ wire : k.op # "register" \/ k.by = c,
         UNCHANGED challenge
  PROVE  IInv'
<1>1. job'[c] = j /\ \A d \in Client \ {c} : job'[d] = job[d]
  BY DEF IInv, TypeOK
<1>2. CopiesAreDead'
  BY <1>1 DEF IInv, CopiesAreDead, Settled
<1>3. TokenIsCurrent'
  BY <1>1 DEF IInv, TokenIsCurrent, Settled, TokenOf
<1>4. SessionWhenEnrolled' /\ ChallengeInHand'
  BY <1>1 DEF IInv, SessionWhenEnrolled, ChallengeInHand
<1> QED
  BY <1>2, <1>3, <1>4 DEF IInv

(* The client's own steps. *)
LEMMA ClientInv ==
  ASSUME IInv, NEW c \in Client, Launch(c) \/ Setup(c) \/ Quit(c)
  PROVE  IInv'
<1>1. TypeOK /\ ChallengeInHand /\ job[c] \in Job
  BY DEF IInv, TypeOK
<1> USE DEF relayVars, adminVars
<1>2. CASE Launch(c)
  <2>1. At("applying") \in Job /\ At("applying").pc = "applying"
    BY JobFields DEF Phase
  <2>2. TypeOK'
    BY <1>1, <1>2, <2>1 DEF TypeOK, Launch, Goto, Send, Call, EnrollCall
  <2>3. \A k \in wire' \ wire : k.op # "register"
    BY <1>2 DEF Launch, Send
  <2>4. /\ job' = [job EXCEPT ![c] = At("applying")] /\ job[c].pc # "enrolled"
        /\ UNCHANGED <<challenge, device, token, session>>
    BY <1>2 DEF Launch, Goto
  <2> QED
    BY <1>1, <2>1, <2>2, <2>3, <2>4, JobStep
<1>3. CASE AskChallenge(c)
  <2>1. At("asking") \in Job /\ At("asking").pc = "asking"
    BY JobFields DEF Phase
  <2>2. TypeOK'
    BY <1>1, <1>3, <2>1 DEF TypeOK, AskChallenge, Goto, Send, Call, ChallengeCall
  <2>3. \A k \in wire' \ wire : k.op # "register"
    BY <1>3 DEF AskChallenge, Send
  <2>4. /\ job' = [job EXCEPT ![c] = At("asking")] /\ job[c].pc # "enrolled"
        /\ UNCHANGED <<challenge, device, token, session>>
    BY <1>3 DEF AskChallenge, Goto
  <2> QED
    BY <1>1, <2>1, <2>2, <2>3, <2>4, JobStep
<1>4. CASE Join(c)
  <2> DEFINE j == [job[c] EXCEPT !.pc = "joining"]
             k == [op |-> "register", by |-> c, nonce |-> job[c].nonce]
  <2>1. j \in Job /\ j.pc = "joining" /\ job[c].nonce \in Nonce
    BY <1>1, <1>4 DEF Job, Phase, Join, ChallengeInHand
  <2>2. k \in Call /\ k.by = c
    BY <2>1 DEF Call, RegisterCall
  <2>3. job' = [job EXCEPT ![c] = j] /\ wire' = wire \cup {k} /\ job[c].pc = "challenged"
    BY <1>4 DEF Join, Send, Goto
  <2>4. TypeOK'
    BY <1>1, <1>4, <2>1, <2>2, <2>3 DEF TypeOK, Join, Goto
  <2>5. UNCHANGED <<challenge, device, token, session>>
    BY <1>4 DEF Join
  <2> HIDE DEF j, k
  <2> QED
    BY <1>1, <2>1, <2>2, <2>3, <2>4, <2>5, JobStep
<1>5. CASE GiveUp(c) \/ Quit(c)
  <2>1. PICK pc \in {"off", "waiting"} : job' = [job EXCEPT ![c] = At(pc)]
    BY <1>5 DEF GiveUp, Quit, Goto
  <2>2. At(pc) \in Job /\ At(pc).pc = pc
    BY <2>1, JobFields DEF Phase
  <2>3. TypeOK'
    BY <1>1, <1>5, <2>1, <2>2 DEF TypeOK, GiveUp, Quit, Goto
  <2>4. /\ job[c].pc # "enrolled" /\ UNCHANGED <<challenge, device, token, session, wire>>
    BY <1>5 DEF GiveUp, Quit
  <2> QED
    BY <1>1, <2>1, <2>2, <2>3, <2>4, JobStep
<1>6. CASE SaveToken(c)
  <2>1. At("enrolled") \in Job /\ At("enrolled").pc = "enrolled"
    BY JobFields DEF Phase
  <2>2. job[c].token \in Token \cup {NoToken}
    BY <1>1 DEF Job
  <2>3. TypeOK'
    BY <1>1, <1>6, <2>1, <2>2 DEF TypeOK, SaveToken, Goto
  <2>4. /\ job'[c] = At("enrolled") /\ session'[c] = job[c].token
        /\ \A d \in Client \ {c} : job'[d] = job[d] /\ session'[d] = session[d]
    BY <1>1, <1>6 DEF TypeOK, SaveToken, Goto
  <2>5. CopiesAreDead'
    BY <1>6, <2>1, <2>4 DEF IInv, CopiesAreDead, Settled, SaveToken
  <2>6. TokenIsCurrent'
    BY <1>6, <2>1, <2>4 DEF IInv, TokenIsCurrent, Settled, TokenOf, SaveToken
  <2> QED
    BY <2>1, <2>3, <2>4, <2>5, <2>6 DEF IInv, SessionWhenEnrolled, ChallengeInHand
<1> QED
  BY <1>2, <1>3, <1>4, <1>5, <1>6 DEF Setup

(* A fresh challenge matches no copy in flight. *)
LEMMA ChallengeInv ==
  ASSUME IInv, NEW k \in wire, HandleChallenge(k)
  PROVE  IInv'
<1>1. TypeOK /\ k \in Call /\ k.by \in Client /\ wire' \subseteq wire
  BY CallFields DEF IInv, TypeOK, HandleChallenge, Taken
<1>2. UNCHANGED <<requests, status, used, device, token, approving, dropping, session>>
  BY DEF HandleChallenge, adminVars
<1>3. CASE UNCHANGED <<challenge, lapsed>>
  <2>1. CASE UNCHANGED job
    <3>1. TypeOK'
      BY <1>1, <1>2, <1>3, <2>1 DEF TypeOK
    <3> QED
      BY <1>1, <1>2, <1>3, <2>1, <3>1, RelayStep
  <2>2. CASE job[k.by].pc = "asking" /\ job' = [job EXCEPT ![k.by] = At("waiting")]
    <3>1. At("waiting") \in Job /\ At("waiting").pc = "waiting"
      BY JobFields DEF Phase
    <3>2. TypeOK'
      BY <1>1, <1>2, <1>3, <2>2, <3>1 DEF TypeOK
    <3> QED
      BY <1>1, <1>2, <1>3, <2>2, <3>1, <3>2, JobStep
  <2>3. CASE \E n \in Nonce : /\ FreshNonce(n)
                              /\ challenge' = [challenge EXCEPT ![k.by] = n]
    BY <1>1, <1>3, <2>3 DEF FreshNonce, TypeOK
  <2> QED
    BY <2>1, <2>2, <2>3 DEF HandleChallenge, Goto
<1>4. CASE \E n \in Nonce : /\ FreshNonce(n)
                            /\ challenge' = [challenge EXCEPT ![k.by] = n]
                            /\ lapsed' = lapsed \ {k.by}
                            /\ \/ UNCHANGED job
                               \/ job[k.by].pc = "asking"
                                  /\ Goto(k.by, [At("challenged") EXCEPT !.nonce = n])
  <2>1. PICK n \in Nonce :
          /\ FreshNonce(n)
          /\ challenge' = [challenge EXCEPT ![k.by] = n]
          /\ lapsed' = lapsed \ {k.by}
          /\ \/ UNCHANGED job
             \/ job[k.by].pc = "asking"
                /\ Goto(k.by, [At("challenged") EXCEPT !.nonce = n])
    BY <1>4
  <2> DEFINE j == [At("challenged") EXCEPT !.nonce = n]
  <2>2. j \in Job /\ j.pc = "challenged" /\ j.nonce = n
    BY JobFields
  <2>3. \/ UNCHANGED job
        \/ job[k.by].pc = "asking" /\ job' = [job EXCEPT ![k.by] = j]
    BY <2>1 DEF Goto
  <2> HIDE DEF j
  <2>4. TypeOK'
    BY <1>1, <1>2, <2>1, <2>2, <2>3 DEF TypeOK
  <2>5. \A c \in Client : Settled(c)' => Settled(c) /\ job'[c] = job[c]
    BY <1>1, <2>2, <2>3 DEF TypeOK, Settled
  <2>6. \A c \in Client, q \in wire' :
          q.op = "register" => challenge'[c] = challenge[c] \/ challenge'[c] # q.nonce
    BY <1>1, <2>1 DEF FreshNonce, TypeOK
  <2>7. CopiesAreDead'
    BY <1>1, <2>5, <2>6 DEF IInv, CopiesAreDead
  <2>8. TokenIsCurrent'
    BY <1>2, <2>5 DEF IInv, TokenIsCurrent, Settled, TokenOf
  <2>9. SessionWhenEnrolled' /\ ChallengeInHand'
    BY <1>1, <1>2, <2>2, <2>3 DEF IInv, TypeOK, SessionWhenEnrolled, ChallengeInHand
  <2> QED
    BY <2>4, <2>7, <2>8, <2>9 DEF IInv
<1> QED
  BY <1>3, <1>4 DEF HandleChallenge

(* A granted registration takes its challenge along, so that no copy of it *)
(* is granted again; and a settled client's copies are not granted at all. *)
LEMMA RegisterInv ==
  ASSUME IInv, NEW k \in wire, HandleRegister(k)
  PROVE  IInv'
<1>1. /\ TypeOK /\ k \in Call /\ k.by \in Client /\ wire' \subseteq wire
      /\ k.op = "register" /\ k.nonce \in Nonce
  BY CallFields DEF IInv, TypeOK, HandleRegister, Taken
<1>2. UNCHANGED <<requests, status, approving, dropping, session>>
  BY DEF HandleRegister, adminVars
<1>3. CASE /\ UNCHANGED job \/ (Awaits(k) /\ Goto(k.by, At("waiting")))
           /\ UNCHANGED <<used, device, token, challenge, lapsed>>
  <2>1. CASE UNCHANGED job
    <3>1. TypeOK'
      BY <1>1, <1>2, <1>3, <2>1 DEF TypeOK
    <3> QED
      BY <1>1, <1>2, <1>3, <2>1, <3>1, RelayStep
  <2>2. CASE Awaits(k) /\ Goto(k.by, At("waiting"))
    <3>1. At("waiting") \in Job /\ At("waiting").pc = "waiting"
      BY JobFields DEF Phase
    <3>2. job[k.by].pc = "joining" /\ job' = [job EXCEPT ![k.by] = At("waiting")]
      BY <2>2 DEF Awaits, Goto
    <3>3. TypeOK'
      BY <1>1, <1>2, <1>3, <3>1, <3>2 DEF TypeOK
    <3> QED
      BY <1>1, <1>2, <1>3, <3>1, <3>2, <3>3, JobStep
  <2> QED
    BY <1>3, <2>1, <2>2
<1>4. CASE \E t \in Token :
             Acceptable(k) /\ FreshToken(t) /\ Enrol(k, t) /\ Granted(k, t)
  <2>1. PICK t \in Token : Acceptable(k) /\ Enrol(k, t) /\ Granted(k, t)
    BY <1>4
  <2> DEFINE j == [At("saving") EXCEPT !.token = t]
  <2>2. j \in Job /\ j.pc = "saving" /\ j.token = t
    BY JobFields
  <2>3. \/ UNCHANGED job
        \/ job[k.by].pc = "joining" /\ job' = [job EXCEPT ![k.by] = j]
    BY <2>1 DEF Granted, Awaits, Goto
  <2> HIDE DEF j
  <2>4. TypeOK'
    BY <1>1, <1>2, <2>1, <2>2, <2>3, EnrollmentAssumption DEF TypeOK, Enrol
  <2>5. \A c \in Client \ {k.by} : /\ job'[c] = job[c] /\ challenge'[c] = challenge[c]
                                   /\ device'[c] = device[c] /\ token'[c] = token[c]
    BY <1>1, <2>1, <2>3 DEF TypeOK, Enrol
  <2>6. ~Settled(k.by)
    BY <1>1, <2>1 DEF IInv, CopiesAreDead, Acceptable
  <2>7. Settled(k.by)' => job'[k.by] = j
    BY <1>1, <2>3, <2>6 DEF Settled, TypeOK
  <2>8. challenge'[k.by] = NoNonce /\ token'[k.by] = t
    BY <1>1, <2>1 DEF TypeOK, Enrol
  <2>9. \A c \in Client, q \in wire' :
          Settled(c)' /\ q.op = "register" /\ q.by = c => challenge'[c] # q.nonce
    <3> SUFFICES ASSUME NEW c \in Client, NEW q \in wire', Settled(c)',
                        q.op = "register", q.by = c
                 PROVE  challenge'[c] # q.nonce
      OBVIOUS
    <3>1. q \in wire /\ q.nonce \in Nonce
      BY <1>1, CallFields DEF TypeOK
    <3>2. CASE c = k.by
      BY <2>8, <3>1, <3>2, EnrollmentAssumption
    <3>3. CASE c # k.by
      BY <2>5, <3>1, <3>3 DEF IInv, CopiesAreDead, Settled
    <3> QED
      BY <3>2, <3>3
  <2>10. CopiesAreDead'
    BY <2>9 DEF CopiesAreDead
  <2>11. TokenIsCurrent'
    <3> SUFFICES ASSUME NEW c \in Client, Settled(c)', device'[c] # NoDevice
                 PROVE  token'[c] = TokenOf(c)'
      BY DEF TokenIsCurrent
    <3>1. CASE c = k.by
      BY <2>2, <2>7, <2>8, <3>1 DEF TokenOf
    <3>2. CASE c # k.by
      BY <1>2, <2>5, <3>2 DEF IInv, TokenIsCurrent, Settled, TokenOf
    <3> QED
      BY <3>1, <3>2
  <2>12. SessionWhenEnrolled' /\ ChallengeInHand'
    BY <1>1, <1>2, <2>2, <2>3 DEF IInv, TypeOK, SessionWhenEnrolled, ChallengeInHand
  <2> QED
    BY <2>4, <2>10, <2>11, <2>12 DEF IInv
<1> QED
  BY <1>3, <1>4 DEF HandleRegister

(* Everything else the relay and the administrator do. *)
LEMMA OtherInv ==
  ASSUME IInv,
         \/ \E k \in wire : HandleEnroll(k) \/ Lose(k)
         \/ \E c \in Client : \/ RequestExpires(c) \/ ChallengeExpires(c)
                              \/ Approve(c) \/ ApproveKilled(c) \/ Reject(c)
                              \/ AllowlistAdd(c) \/ RevokeStatus(c) \/ RevokeDevice(c)
  PROVE  IInv'
<1>1. TypeOK
  BY DEF IInv
<1> USE DEF relayVars, adminVars, clientVars
<1>2. ASSUME NEW k \in wire, HandleEnroll(k) PROVE IInv'
  <2>1. k.by \in Client /\ wire' \subseteq wire
    BY <1>1, <1>2, CallFields DEF TypeOK, HandleEnroll, Taken
  <2>2. At("waiting") \in Job /\ At("waiting").pc = "waiting"
    BY JobFields DEF Phase
  <2>3. \/ UNCHANGED job
        \/ job[k.by].pc = "applying" /\ job' = [job EXCEPT ![k.by] = At("waiting")]
    BY <1>2 DEF HandleEnroll, Goto
  <2>4. TypeOK'
    BY <1>1, <1>2, <2>1, <2>2, <2>3 DEF TypeOK, HandleEnroll
  <2>5. UNCHANGED <<challenge, device, token, session>>
    BY <1>2 DEF HandleEnroll
  <2> HIDE DEF relayVars, adminVars, clientVars
  <2>6. CASE UNCHANGED job
    BY <2>1, <2>4, <2>5, <2>6, RelayStep
  <2>7. CASE job[k.by].pc = "applying" /\ job' = [job EXCEPT ![k.by] = At("waiting")]
    BY <2>1, <2>2, <2>4, <2>5, <2>7, JobStep
  <2> QED
    BY <2>3, <2>6, <2>7
<1>3. ASSUME NEW k \in wire, Lose(k) PROVE IInv'
  <2>1. TypeOK'
    BY <1>1, <1>3 DEF TypeOK, Lose
  <2> QED
    BY <1>3, <2>1, RelayStep DEF Lose
<1>4. ASSUME NEW c \in Client,
             RequestExpires(c) \/ ChallengeExpires(c) \/ Approve(c) \/ ApproveKilled(c)
             \/ Reject(c) \/ AllowlistAdd(c) \/ RevokeStatus(c)
      PROVE IInv'
  <2> USE <1>4 DEF RequestExpires, ChallengeExpires, Approve, ApproveRead, ApproveWrite,
          ApproveClean, ApproveKilled, Reject, AllowlistAdd, RevokeStatus, Allow
  <2>1. TypeOK'
    BY <1>1 DEF TypeOK
  <2>2. UNCHANGED <<challenge, device, token, wire, job, session>>
    OBVIOUS
  <2> QED
    BY <2>1, <2>2, RelayStep
<1>5. ASSUME NEW c \in Client, RevokeDevice(c) PROVE IInv'
  <2>1. TypeOK'
    BY <1>1, <1>5 DEF TypeOK, RevokeDevice
  <2>2. \A d \in Client : \/ device'[d] = NoDevice
                          \/ device'[d] = device[d] /\ token'[d] = token[d]
    BY <1>1, <1>5 DEF TypeOK, RevokeDevice
  <2>3. UNCHANGED <<challenge, wire, job, session>>
    BY <1>5 DEF RevokeDevice
  <2> QED
    BY <2>1, <2>2, <2>3, RelayStep
<1> QED
  BY <1>2, <1>3, <1>4, <1>5

LEMMA StepInv == IInv /\ [Next]_vars => IInv'
<1> SUFFICES ASSUME IInv, [Next]_vars PROVE IInv'
  OBVIOUS
<1>1. CASE UNCHANGED vars
  BY <1>1 DEF vars, IInv, TypeOK, CopiesAreDead, TokenIsCurrent, SessionWhenEnrolled,
     ChallengeInHand, Settled, TokenOf
<1>2. CASE Next
  BY <1>2, ClientInv, ChallengeInv, RegisterInv, OtherInv DEF Next, Handle
<1> QED
  BY <1>1, <1>2

(* The inductive invariant holds of every behaviour. *)
THEOREM Invariance == Spec => []IInv
BY InitInv, StepInv, PTL DEF Spec

(* Every table, request and client state has its type. *)
THEOREM TypeCorrect == Spec => []TypeOK
<1>1. IInv => TypeOK
  BY DEF IInv
<1> QED
  BY Invariance, <1>1, PTL

(* A client that has its session is not locked out: the token of its       *)
(* device is the one it has.                                               *)
THEOREM TokensWork == Spec => []TokenWorks
<1>1. IInv => TokenWorks
  BY DEF IInv, TokenWorks, TokenIsCurrent, SessionWhenEnrolled, Settled, TokenOf
<1> QED
  BY Invariance, <1>1, PTL

-----------------------------------------------------------------------------
(* The refinement mapping, client by client. *)
AccessOf == [c \in Client |-> IF status[c] # "active" THEN status[c]
                              ELSE IF used[c] THEN "used" ELSE "approved"]

LEMMA RefinesInit == Init => Access!AccessInit
BY DEF Init, Access!AccessInit

LEMMA RefinesStep == TypeOK /\ TypeOK' /\ [Next]_vars => [Access!AccessNext]_(Access!accessVars)
<1> SUFFICES ASSUME TypeOK, TypeOK', [Next]_vars
             PROVE  Access!AccessNext \/ UNCHANGED <<AccessOf, device, dropping>>
  BY DEF Access!accessVars, AccessOf
<1> DEFINE Quiet == UNCHANGED <<status, used, device, dropping>>
<1>1. Quiet => UNCHANGED <<AccessOf, device, dropping>>
  BY DEF AccessOf
<1> USE DEF relayVars, adminVars, clientVars
<1>2. CASE UNCHANGED vars
  BY <1>1, <1>2 DEF vars
<1>3. ASSUME NEW c \in Client, Launch(c) \/ Setup(c) \/ Quit(c) PROVE Quiet
  BY <1>3 DEF Launch, Setup, AskChallenge, Join, GiveUp, SaveToken, Quit
<1>4. ASSUME NEW c \in Client,
             RequestExpires(c) \/ ChallengeExpires(c) \/ ApproveRead(c) \/ ApproveClean(c)
             \/ ApproveKilled(c) \/ Reject(c)
      PROVE Quiet
  BY <1>4 DEF RequestExpires, ChallengeExpires, ApproveRead, ApproveClean, ApproveKilled, Reject
<1>5. ASSUME NEW k \in wire, HandleEnroll(k) \/ HandleChallenge(k) \/ Lose(k) PROVE Quiet
  BY <1>5 DEF HandleEnroll, HandleChallenge, Lose
<1>6. ASSUME NEW c \in Client, ApproveWrite(c) \/ AllowlistAdd(c) PROVE Access!AccessNext
  <2>1. AccessOf' = [AccessOf EXCEPT ![c] = "approved"] /\ UNCHANGED <<device, dropping>>
    BY <1>6 DEF ApproveWrite, AllowlistAdd, Allow, AccessOf, TypeOK
  <2> QED
    BY <2>1 DEF Access!AccessNext, Access!Approve, AccessOf
<1>7. ASSUME NEW c \in Client, RevokeStatus(c) PROVE Access!AccessNext
  <2>1. /\ AccessOf[c] # "none" /\ AccessOf' = [AccessOf EXCEPT ![c] = "revoked"]
        /\ dropping' = dropping \cup {c} /\ UNCHANGED device
    BY <1>7 DEF RevokeStatus, AccessOf, TypeOK
  <2> QED
    BY <2>1 DEF Access!AccessNext, Access!Revoke, AccessOf
<1>8. ASSUME NEW c \in Client, RevokeDevice(c) PROVE Access!AccessNext
  <2>1. /\ c \in dropping /\ device' = [device EXCEPT ![c] = NoDevice]
        /\ dropping' = dropping \ {c} /\ UNCHANGED AccessOf
    BY <1>8 DEF RevokeDevice, AccessOf
  <2> QED
    BY <2>1 DEF Access!AccessNext, Access!DropDevice, AccessOf
<1>9. ASSUME NEW k \in wire, HandleRegister(k) PROVE Access!AccessNext \/ Quiet
  <2>1. CASE UNCHANGED <<used, device>>
    BY <1>9, <2>1 DEF HandleRegister
  <2>2. CASE \E t \in Token : Acceptable(k) /\ Enrol(k, t)
    <3>1. k.by \in Client /\ AddressOf[k.by] \in Address
      BY CallFields, EnrollmentAssumption DEF TypeOK
    <3>2. /\ AccessOf[k.by] = "approved"
          /\ AccessOf' = [AccessOf EXCEPT ![k.by] = "used"]
          /\ device' = [device EXCEPT ![k.by] = AddressOf[k.by]]
          /\ UNCHANGED dropping
      BY <1>9, <2>2, <3>1 DEF HandleRegister, Acceptable, Enrollable, Enrol, AccessOf, TypeOK
    <3> QED
      BY <3>1, <3>2 DEF Access!AccessNext, Access!Register, AccessOf
  <2> QED
    BY <1>9, <2>1, <2>2 DEF HandleRegister
<1> QED
  BY <1>1, <1>2, <1>3, <1>4, <1>5, <1>6, <1>7, <1>8, <1>9 DEF Next, Handle, Approve

(* Enrollment implements the access control that RelayService builds on:   *)
(* one registration for each approval, none for a revoked client.          *)
THEOREM ImplementsAccess == Spec => AccessSpec
<1>1. TypeOK /\ TypeOK' /\ [Next]_vars => [Access!AccessNext]_(Access!accessVars)
  BY RefinesStep
<1> QED
  BY RefinesInit, <1>1, TypeCorrect, PTL DEF Spec, AccessSpec, Access!AccessSpec
=============================================================================
