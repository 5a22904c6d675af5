--------------------------- MODULE ContactsProofs ---------------------------
(***************************************************************************)
(* Contacts, for any clients, names and requests: the type invariant,      *)
(* LobbyIsMutual, AcceptedHasLobby and RightMailbox.                       *)
(*                                                                         *)
(* None of the three is inductive.  What carries them is that requests     *)
(* keep their parties once they are made (UseInv), that a client only      *)
(* deals with requests it takes part in, as sender only with approved ones *)
(* (JobInv), and that every approved request has been answered for by its  *)
(* recipient (AgreedInv); of the stores, that a bundle is in the file of   *)
(* its name (FileFits), and that an id was stored before it (FileHasId).   *)
(***************************************************************************)
EXTENDS Contacts, TLAPS

(* Requests in the table, in flight and approved have been made. *)
UseInv ==
  /\ \A r \in Request : status[r] # "none" => Made(r)
  /\ \A k \in wire : Made(k.req)
  /\ \A r \in agreed : Made(r)
  /\ \A c \in Client, r \in Request : <<c, r>> \in made => Made(r)
  /\ \A r \in Request : Made(r) => Sender(r) # Recipient(r)

(* What client c can be dealing with in job j. *)
JobOk(c, j) ==
  \A r \in j.todo \cup j.req :
    /\ Made(r)
    /\ j.pc \in {"accepted", "confirm"} => Sender(r) = c /\ r \in agreed
    /\ j.pc \in {"review", "accepting", "rejecting", "trusting"} => Recipient(r) = c
    /\ j.pc \in {"accepting", "trusting"} /\ r \in j.req => r \in agreed

JobInv == \A c \in Client : JobOk(c, job[c])

(* What makes a request approved, and what follows from it. *)
AgreedInv ==
  /\ \A r \in Request : status[r] = "accepted" => r \in agreed
  /\ \A k \in wire : k.op = "accept" => k.req \in agreed
  /\ \A r \in Request : Made(r) /\ <<Sender(r), r>> \in made => r \in agreed
  /\ \A r \in agreed : Answered(r)

(* A bundle file that was not pasted is written after the relay id. *)
FileHasId ==
  \A c \in Client, f \in FileName :
    files[c][f] # Nobody /\ <<c, f>> \notin pasted => ids[c][NameOf[files[c][f]]] # Nobody

(* A bundle is in the file of the name it carries. *)
FileFits ==
  \A c \in Client, f \in FileName :
    files[c][f] # Nobody => BundleFile(files[c][f]) = f

StoresInv == LobbyIsMutual /\ RightMailbox /\ FileHasId /\ FileFits

IInv == TypeOK /\ UseInv /\ JobInv /\ AgreedInv /\ StoresInv
-----------------------------------------------------------------------------
LEMMA CallFields ==
  ASSUME NEW k \in Call
  PROVE  k.req \in Request
  BY DEF Call

LEMMA RequestParties ==
  ASSUME TypeOK, NEW r \in Request, Made(r)
  PROVE  /\ Sender(r) \in Client /\ Recipient(r) \in Client
         /\ parties[r] = <<Sender(r), Recipient(r)>>
  BY DEF TypeOK, Made, Sender, Recipient

(* Where a client can be put. *)
LEMMA JobFields ==
  ASSUME NEW pc \in Phase, NEW todo \in SUBSET Request
  PROVE  /\ At(pc) \in Job /\ At(pc).pc = pc /\ At(pc).todo = {} /\ At(pc).req = {}
         /\ [At(pc) EXCEPT !.todo = todo] \in Job
         /\ [At(pc) EXCEPT !.todo = todo].pc = pc
         /\ [At(pc) EXCEPT !.todo = todo].todo = todo
         /\ [At(pc) EXCEPT !.todo = todo].req = {}
  BY DEF At, Job

(* Nobody has stored anything. *)
LEMMA InitInv == Init => IInv
<1> SUFFICES ASSUME Init PROVE IInv
  OBVIOUS
<1>1. At("idle") \in Job /\ At("idle").todo = {} /\ At("idle").req = {}
  BY JobFields DEF Phase
<1>2. TypeOK
  BY <1>1 DEF Init, TypeOK, Empty
<1>3. UseInv /\ AgreedInv
  BY DEF Init, UseInv, AgreedInv, Made
<1>4. JobInv
  BY <1>1 DEF Init, JobInv, JobOk
<1>5. StoresInv
  BY DEF Init, StoresInv, LobbyIsMutual, RightMailbox, FileHasId, FileFits, Empty
<1> QED
  BY <1>2, <1>3, <1>4, <1>5 DEF IInv

-----------------------------------------------------------------------------
(* The parts about requests hold after a step that takes client c from one *)
(* job to another, if the new one may follow: an answer that c owes is     *)
(* given, or c is torn.                                                    *)
LEMMA JobStep ==
  ASSUME TypeOK, UseInv, JobInv, AgreedInv, TypeOK',
         NEW c \in Client, NEW j \in Job, job' = [job EXCEPT ![c] = j],
         JobOk(c, j), parties' = parties, agreed' = agreed, wire' \subseteq wire,
         made \subseteq made', torn \subseteq torn',
         \A r \in Request : status'[r] = "accepted" => r \in agreed,
         \A r \in Request : status'[r] # "none" => Made(r),
         \A d \in Client, r \in Request : <<d, r>> \in made' => Made(r),
         \A r \in Request : Made(r) /\ <<Sender(r), r>> \in made' => r \in agreed,
         \A r \in Request :
           (On(c, "accepting", r) \/ On(c, "trusting", r)) /\ Recipient(r) = c =>
             \/ j.pc \in {"accepting", "trusting"} /\ j.req = {r}
             \/ <<c, r>> \in made' \/ <<c, Sender(r)>> \in torn'
  PROVE  (UseInv /\ JobInv /\ AgreedInv)'
<1>1. job'[c] = j /\ \A d \in Client \ {c} : job'[d] = job[d]
  BY DEF TypeOK
<1>2. UseInv'
  BY DEF UseInv, Made, Sender, Recipient
<1>3. JobInv'
  BY <1>1 DEF JobInv, JobOk, Made, Sender, Recipient
<1>4. \A r \in agreed : Answered(r)'
  <2> SUFFICES ASSUME NEW r \in agreed PROVE Answered(r)'
    OBVIOUS
  <2>1. r \in Request /\ Made(r) /\ Answered(r) /\ Recipient(r) \in Client
    BY RequestParties DEF TypeOK, UseInv, AgreedInv
  <2>2. CASE Recipient(r) # c
    BY <2>1, <2>2, <1>1 DEF Answered, On, Sender, Recipient
  <2>3. CASE Recipient(r) = c
    BY <2>1, <2>3, <1>1 DEF Answered, On, Sender, Recipient
  <2> QED
    BY <2>2, <2>3
<1>5. AgreedInv'
  BY <1>4 DEF AgreedInv, Made, Sender, Recipient
<1> QED
  BY <1>2, <1>3, <1>5

(* The parts about the stores hold after a step that leaves them alone. *)
LEMMA SameStores ==
  ASSUME StoresInv, UseInv, UNCHANGED storeVars, torn \subseteq torn', agreed \subseteq agreed',
         \A r \in Request : Made(r) => parties'[r] = parties[r], agreed \subseteq Request
  PROVE  StoresInv'
<1>1. LobbyIsMutual'
  BY DEF StoresInv, UseInv, LobbyIsMutual, Between, storeVars
<1>2. RightMailbox' /\ FileHasId' /\ FileFits'
  BY DEF StoresInv, RightMailbox, FileHasId, FileFits, BundleFile, storeVars
<1> QED
  BY <1>1, <1>2 DEF StoresInv

(* The parts about requests hold after a step of no client's job. *)
LEMMA QuietStep ==
  ASSUME TypeOK, UseInv, JobInv, AgreedInv, wire' \subseteq wire,
         UNCHANGED <<parties, job, agreed, made, torn>>,
         \A r \in Request : status'[r] = "accepted" => r \in agreed,
         \A r \in Request : status'[r] # "none" => Made(r)
  PROVE  (UseInv /\ JobInv /\ AgreedInv)'
<1>1. UseInv' /\ JobInv'
  BY DEF UseInv, JobInv, JobOk, Made, Sender, Recipient
<1>2. AgreedInv'
  BY DEF AgreedInv, Made, Sender, Recipient, Answered, On
<1> QED
  BY <1>1, <1>2

(* The next job of a loop. *)
LoopJob(pc, todo) == IF todo = {} THEN At("idle") ELSE [At(pc) EXCEPT !.todo = todo]

LEMMA LoopFields ==
  ASSUME NEW c \in Client, NEW pc \in Phase, NEW todo \in SUBSET Request
  PROVE  /\ LoopJob(pc, todo) \in Job
         /\ LoopJob(pc, todo).todo = todo
         /\ LoopJob(pc, todo).req = {}
         /\ todo # {} => LoopJob(pc, todo).pc = pc
         /\ Loop(c, pc, todo) <=> job' = [job EXCEPT ![c] = LoopJob(pc, todo)]
<1>1. At("idle") \in Job /\ At("idle").todo = {} /\ At("idle").req = {}
  BY JobFields DEF Phase
<1> QED
  BY <1>1, JobFields DEF LoopJob, Loop, Goto

AboutJob(c, pc, r) == [pc |-> pc, todo |-> job[c].todo \ {r}, req |-> {r}]

LEMMA AboutFields ==
  ASSUME TypeOK, NEW c \in Client, NEW pc \in Phase, NEW r \in Request
  PROVE  /\ AboutJob(c, pc, r) \in Job
         /\ AboutJob(c, pc, r).pc = pc
         /\ AboutJob(c, pc, r).todo = job[c].todo \ {r}
         /\ AboutJob(c, pc, r).req = {r}
         /\ About(c, pc, r) <=> job' = [job EXCEPT ![c] = AboutJob(c, pc, r)]
  BY DEF TypeOK, Job, AboutJob, About, Goto

-----------------------------------------------------------------------------
(* Steps inside the loops: reading a list, passing over, asking the user.  *)
LEMMA LoopInv ==
  ASSUME IInv, NEW c \in Client, NEW r,
         \/ Poll(c) \/ Review(c)
         \/ r \in Request /\ (PassOver(c, r) \/ Announce(c, r) \/ Refuse(c, r))
  PROVE  IInv'
<1> USE DEF relayVars, storeVars, Phase
<1>1. TypeOK /\ UseInv /\ JobInv /\ AgreedInv /\ StoresInv /\ JobOk(c, job[c])
  BY DEF IInv, JobInv
<1>2. job[c].todo \in SUBSET Request
  BY <1>1 DEF TypeOK, Job
<1>3. /\ UNCHANGED <<parties, status, live, wire, trusted, ids, files, pasted, known, lobbies,
                     agreed, made, torn>>
      /\ announced' \in [Client -> SUBSET Request]
      /\ job[c].pc \notin {"accepting", "trusting"}
  <2>1. CASE Poll(c) \/ Review(c) \/ Refuse(c, r)
    BY <1>1, <2>1 DEF TypeOK, Poll, Review, Refuse, On
  <2>2. CASE r \in Request /\ (PassOver(c, r) \/ Announce(c, r))
    <3>1. announced' = [announced EXCEPT ![c] = announced[c] \cup {r}]
      BY <2>2 DEF PassOver, Announce
    <3> QED
      BY <1>1, <2>2, <3>1 DEF TypeOK, PassOver, Announce
  <2> QED
    BY <2>1, <2>2
<1>4. \E j \in Job : JobOk(c, j) /\ job' = [job EXCEPT ![c] = j]
  <2>1. CASE Poll(c)
    <3>1. Accepted(c) \in SUBSET Request
      BY <1>1 DEF Accepted, TypeOK
    <3>2. JobOk(c, LoopJob("accepted", Accepted(c)))
      BY <2>1, <3>1, <1>1, LoopFields DEF Poll, JobOk, Accepted, AgreedInv
    <3> QED
      BY <2>1, <3>1, <3>2, LoopFields DEF Poll
  <2>2. CASE Review(c)
    <3>1. Pending(c) \in SUBSET Request
      BY <1>1 DEF Pending, TypeOK
    <3>2. JobOk(c, LoopJob("review", Pending(c)))
      BY <2>2, <3>1, LoopFields DEF Review, JobOk, Pending
    <3> QED
      BY <2>2, <3>1, <3>2, LoopFields DEF Review
  <2>3. CASE r \in Request /\ PassOver(c, r)
    <3>1. JobOk(c, LoopJob("accepted", job[c].todo \ {r}))
      BY <2>3, <1>1, <1>2, LoopFields DEF PassOver, JobOk
    <3> QED
      BY <2>3, <3>1, <1>2, LoopFields DEF PassOver
  <2>4. CASE r \in Request /\ Announce(c, r)
    <3>1. JobOk(c, AboutJob(c, "confirm", r))
      BY <2>4, <1>1, <1>2, AboutFields DEF Announce, JobOk
    <3> QED
      BY <2>4, <3>1, <1>1, AboutFields DEF Announce
  <2>5. CASE r \in Request /\ Refuse(c, r)
    <3>1. JobOk(c, LoopJob("accepted", job[c].todo))
      BY <2>5, <1>1, <1>2, LoopFields DEF Refuse, On, JobOk
    <3> QED
      BY <2>5, <3>1, <1>2, LoopFields DEF Refuse
  <2> QED
    BY <2>1, <2>2, <2>3, <2>4, <2>5
<1>5. TypeOK'
  BY <1>1, <1>3, <1>4 DEF TypeOK
<1>6. (UseInv /\ JobInv /\ AgreedInv)'
  <2>1. PICK j \in Job : JobOk(c, j) /\ job' = [job EXCEPT ![c] = j]
    BY <1>4
  <2>2. \A q \in Request : ~(On(c, "accepting", q) \/ On(c, "trusting", q))
    BY <1>3 DEF On
  <2> QED
    BY <1>1, <1>3, <1>5, <2>1, <2>2, JobStep DEF UseInv, AgreedInv
<1>7. StoresInv'
  BY <1>1, <1>3, SameStores DEF TypeOK
<1> QED
  BY <1>5, <1>6, <1>7 DEF IInv
-----------------------------------------------------------------------------
(* The handlers of the relay, whether their answer arrives or not. *)
LEMMA HandleInv ==
  ASSUME IInv, NEW k \in wire, Handle(k)
  PROVE  IInv'
<1> USE DEF relayVars, Phase
<1> DEFINE r == k.req
<1>1. TypeOK /\ UseInv /\ JobInv /\ AgreedInv /\ StoresInv
  BY DEF IInv
<1>2. /\ r \in Request /\ Made(r) /\ Sender(r) \in Client /\ Recipient(r) \in Client
      /\ k.op = "accept" => r \in agreed
  BY <1>1, CallFields, RequestParties DEF TypeOK, UseInv, AgreedInv
<1>3. /\ UNCHANGED <<parties, trusted, ids, files, pasted, known, lobbies, announced, agreed,
                     made, torn>>
      /\ wire' \subseteq wire
      /\ live' \subseteq live \cup {r}
      /\ \/ status' = status
         \/ status[r] = "none" /\ status' = [status EXCEPT ![r] = "pending"]
         \/ /\ k.op = "accept"
            /\ status' = [status EXCEPT ![r] = IF @ = "pending" THEN "accepted" ELSE @]
         \/ status' = [status EXCEPT ![r] = "rejected"]
  BY DEF Handle, HandleCreate, HandleAccept, HandleReject, Taken, storeVars
<1>4. /\ status' \in [Request -> {"none", "pending", "accepted", "rejected"}]
      /\ \A q \in Request : status'[q] = "accepted" => q \in agreed
      /\ \A q \in Request : status'[q] # "none" => Made(q)
  BY <1>1, <1>2, <1>3 DEF TypeOK, UseInv, AgreedInv
<1>5. StoresInv'
  BY <1>1, <1>3, SameStores DEF TypeOK, storeVars
<1>6. CASE UNCHANGED job
  <2>1. TypeOK'
    BY <1>1, <1>2, <1>3, <1>4, <1>6 DEF TypeOK
  <2>2. (UseInv /\ JobInv /\ AgreedInv)'
    BY <1>1, <1>3, <1>4, <1>6, QuietStep
  <2> QED
    BY <1>5, <2>1, <2>2 DEF IInv
<1>7. CASE ~UNCHANGED job
  <2>1. PICK c \in Client, j \in Job :
          /\ job' = [job EXCEPT ![c] = j] /\ JobOk(c, j)
          /\ \A q \in Request :
               (On(c, "accepting", q) \/ On(c, "trusting", q)) =>
                 j.pc \in {"accepting", "trusting"} /\ j.req = {q}
    <3>1. CASE HandleCreate(k)
      <4>1. JobOk(Sender(r), At("idle")) /\ At("idle") \in Job
        BY JobFields DEF JobOk
      <4> QED
        BY <1>2, <1>7, <3>1, <4>1 DEF HandleCreate, Goto, On
    <3>2. CASE HandleAccept(k)
      <4> DEFINE d == Recipient(r)
                 j == AboutJob(d, "trusting", r)
      <4>1. /\ j \in Job /\ job' = [job EXCEPT ![d] = j]
            /\ j.pc = "trusting" /\ j.todo = job[d].todo \ {r} /\ j.req = {r}
            /\ On(d, "accepting", r)
        BY <1>1, <1>2, <1>7, <3>2, AboutFields DEF HandleAccept
      <4>2. JobOk(d, j)
        BY <1>1, <1>2, <4>1 DEF JobInv, JobOk, On
      <4>3. \A q \in Request :
               (On(d, "accepting", q) \/ On(d, "trusting", q)) => q = r
        BY <4>1 DEF On
      <4> HIDE DEF j
      <4> QED
        BY <1>2, <4>1, <4>2, <4>3
    <3>3. CASE HandleReject(k)
      <4> DEFINE d == Recipient(r)
                 j == LoopJob("review", job[d].todo)
      <4>1. job[d].todo \in SUBSET Request
        BY <1>1, <1>2 DEF TypeOK, Job
      <4>2. /\ j \in Job /\ job' = [job EXCEPT ![d] = j]
            /\ j.todo = job[d].todo /\ j.req = {} /\ (j.todo # {} => j.pc = "review")
            /\ On(d, "rejecting", r)
        BY <1>1, <1>2, <1>7, <3>3, <4>1, LoopFields DEF HandleReject
      <4>3. JobOk(d, j)
        BY <1>1, <1>2, <4>2 DEF JobInv, JobOk, On
      <4>4. \A q \in Request : ~(On(d, "accepting", q) \/ On(d, "trusting", q))
        BY <4>2 DEF On
      <4> HIDE DEF j
      <4> QED
        BY <1>2, <4>2, <4>3, <4>4
    <3> QED
      BY <1>7, <3>1, <3>2, <3>3 DEF Handle
  <2>2. TypeOK'
    BY <1>1, <1>2, <1>3, <1>4, <2>1 DEF TypeOK
  <2>3. (UseInv /\ JobInv /\ AgreedInv)'
    BY <1>1, <1>3, <1>4, <2>1, <2>2, JobStep DEF AgreedInv, UseInv
  <2> QED
    BY <1>5, <2>2, <2>3 DEF IInv
<1> QED
  BY <1>6, <1>7

-----------------------------------------------------------------------------
(* Steps that touch nobody's job: time, and the stores of a peer.          *)
LEMMA ExpireInv ==
  ASSUME IInv, NEW r \in Request, Expire(r)
  PROVE  IInv'
<1> USE DEF storeVars
<1>1. TypeOK' /\ StoresInv'
  BY SameStores DEF IInv, TypeOK, Expire
<1>2. (UseInv /\ JobInv /\ AgreedInv)'
  BY QuietStep DEF IInv, Expire, UseInv, AgreedInv
<1> QED
  BY <1>1, <1>2 DEF IInv

(* The parts about the stores hold when some of what is stored goes. *)
LEMMA Fewer ==
  ASSUME StoresInv, UNCHANGED <<parties, ids, agreed>>, TypeOK, torn \subseteq torn',
         \A e \in Client, g \in FileName :
           \/ files'[e][g] = Nobody
           \/ files'[e][g] = files[e][g] /\ (<<e, g>> \in pasted <=> <<e, g>> \in pasted'),
         \A e \in Client, m \in Name : trusted'[e][m] \in {Nobody, trusted[e][m]}
  PROVE  StoresInv'
<1>1. LobbyIsMutual' /\ FileHasId' /\ FileFits'
  <2>1. LobbyIsMutual'
    BY DEF StoresInv, LobbyIsMutual, Between
  <2>2. FileHasId'
    <3> SUFFICES ASSUME NEW e \in Client, NEW g \in FileName, <<e, g>> \notin pasted',
                        files'[e][g] # Nobody
                 PROVE  ids'[e][NameOf[files'[e][g]]] # Nobody
      BY DEF FileHasId
    <3>1. files[e][g] = files'[e][g] /\ <<e, g>> \notin pasted /\ ids' = ids
      OBVIOUS
    <3> QED
      BY <3>1 DEF StoresInv, FileHasId
  <2>3. FileFits'
    <3>1. \A e \in Client, g \in FileName : files'[e][g] = Nobody \/ files'[e][g] = files[e][g]
      OBVIOUS
    <3> QED
      BY <3>1 DEF StoresInv, FileFits, BundleFile
  <2> QED
    BY <2>1, <2>2, <2>3
<1>2. RightMailbox'
  <2> SUFFICES ASSUME NEW e \in Client, NEW g \in FileName, <<e, g>> \notin pasted',
                      files'[e][g] # Nobody, trusted'[e][NameOf[files'[e][g]]] = files'[e][g]
               PROVE  LET d == files'[e][g]
                          n == NameOf[d]
                      IN  ids'[e][n] = d \/ (ids'[e][n] # Nobody /\ <<e, d>> \in torn')
    BY DEF RightMailbox
  <2>1. files[e][g] = files'[e][g] /\ <<e, g>> \notin pasted /\ files[e][g] \in Client
    BY DEF TypeOK
  <2>2. NameOf[files[e][g]] \in Name
    BY <2>1, NameAssumption
  <2>3. trusted[e][NameOf[files[e][g]]] = files[e][g]
    BY <2>1, <2>2
  <2> QED
    BY <2>1, <2>3 DEF StoresInv, RightMailbox
<1> QED
  BY <1>1, <1>2 DEF StoresInv

LEMMA LobbyInv ==
  ASSUME IInv, NEW c \in Client, NEW n \in Name, LoadPeer(c, n) \/ Revoke(c, n)
  PROVE  IInv'
<1> USE DEF relayVars, storeVars
<1>1. TypeOK /\ UseInv /\ JobInv /\ AgreedInv /\ StoresInv
  BY DEF IInv
<1>2. UNCHANGED <<parties, status, live, wire, ids, announced, job, agreed, made, torn>>
  BY DEF LoadPeer, Revoke
<1>3. (UseInv /\ JobInv /\ AgreedInv)'
  BY <1>1, <1>2, QuietStep DEF UseInv, AgreedInv
<1>4. CASE LoadPeer(c, n)
  <2>1. known' = [known EXCEPT ![c] = known[c] \cup {n}]
    BY <1>4 DEF LoadPeer
  <2>2. TypeOK' /\ StoresInv'
    BY <1>1, <1>4, <2>1, SameStores DEF TypeOK, LoadPeer
  <2> QED
    BY <1>3, <2>2 DEF IInv
<1>5. CASE Revoke(c, n)
  <2> DEFINE f == FileOf[n]
  <2>1. /\ trusted' = [trusted EXCEPT ![c] = [trusted[c] EXCEPT ![n] = Nobody]]
        /\ files' = [files EXCEPT ![c] = [files[c] EXCEPT ![f] = Nobody]]
        /\ known' = [known EXCEPT ![c] = {}]
        /\ lobbies' = [lobbies EXCEPT ![c] = lobbies[c] \ {n}]
        /\ pasted' = pasted \ {<<c, f>>}
        /\ f \in FileName
    BY <1>5, NameAssumption DEF Revoke
  <2> HIDE DEF f
  <2>2. TypeOK'
    BY <1>1, <1>2, <2>1 DEF TypeOK
  <2>3. \A e \in Client, g \in FileName :
          \/ files'[e][g] = Nobody
          \/ files'[e][g] = files[e][g] /\ (<<e, g>> \in pasted <=> <<e, g>> \in pasted')
    BY <1>1, <2>1 DEF TypeOK
  <2>4. \A e \in Client, m \in Name : trusted'[e][m] \in {Nobody, trusted[e][m]}
    BY <1>1, <2>1 DEF TypeOK
  <2>5. StoresInv'
    BY <1>1, <1>2, <2>3, <2>4, Fewer
  <2> QED
    BY <1>3, <2>2, <2>5 DEF IInv
<1> QED
  BY <1>4, <1>5

-----------------------------------------------------------------------------
(* What a user asks for: a request, an approval, a rejection. *)
LEMMA UserInv ==
  ASSUME IInv, NEW c \in Client, NEW r \in Request,
         (\E d \in Client : Ask(c, d, r)) \/ Approve(c, r) \/ Decline(c, r)
  PROVE  IInv'
<1> USE DEF relayVars, storeVars, Phase
<1>1. TypeOK /\ UseInv /\ JobInv /\ AgreedInv /\ StoresInv /\ JobOk(c, job[c])
  BY DEF IInv, JobInv
<1>2. PICK pc \in Phase, op \in {"create", "accept", "reject"} :
        /\ job' = [job EXCEPT ![c] = AboutJob(c, pc, r)]
        /\ wire' = wire \cup {[op |-> op, req |-> r]}
        /\ \/ pc = "asking" /\ op = "create" /\ \E d \in Client : Ask(c, d, r)
           \/ pc = "accepting" /\ op = "accept" /\ Approve(c, r)
           \/ pc = "rejecting" /\ op = "reject" /\ Decline(c, r)
  <2>1. CASE \E d \in Client : Ask(c, d, r)
    <3>1. /\ job' = [job EXCEPT ![c] = AboutJob(c, "asking", r)]
          /\ wire' = wire \cup {[op |-> "create", req |-> r]}
      BY <1>1, <2>1, AboutFields DEF Ask, Send, NewCall
    <3> QED
      BY <2>1, <3>1
  <2>2. CASE Approve(c, r)
    <3>1. /\ job' = [job EXCEPT ![c] = AboutJob(c, "accepting", r)]
          /\ wire' = wire \cup {[op |-> "accept", req |-> r]}
      BY <1>1, <2>2, AboutFields DEF Approve, Send, NewCall
    <3> QED
      BY <2>2, <3>1
  <2>3. CASE Decline(c, r)
    <3>1. /\ job' = [job EXCEPT ![c] = AboutJob(c, "rejecting", r)]
          /\ wire' = wire \cup {[op |-> "reject", req |-> r]}
      BY <1>1, <2>3, AboutFields DEF Decline, Send, NewCall
    <3> QED
      BY <2>3, <3>1
  <2> QED
    BY <2>1, <2>2, <2>3
<1>3. PICK j \in Job : /\ j = AboutJob(c, pc, r) /\ j.pc = pc /\ j.req = {r}
                       /\ j.todo = job[c].todo \ {r}
  BY <1>1, AboutFields
<1>4. /\ job'[c] = j /\ \A d \in Client \ {c} : job'[d] = job[d]
      /\ job' \in [Client -> Job]
  BY <1>1, <1>2, <1>3 DEF TypeOK
<1>5. /\ UNCHANGED <<status, live, trusted, ids, files, pasted, known, lobbies, announced,
                     made, torn>>
      /\ job[c].pc \in {"idle", "review"}
  BY <1>2 DEF Ask, Approve, Decline
<1>6. [op |-> op, req |-> r] \in Call
  BY <1>2 DEF Call
<1>7. CASE \E d \in Client : Ask(c, d, r)
  <2>1. PICK d \in Client : Ask(c, d, r)
    BY <1>7
  <2>2. /\ ~Made(r) /\ c # d /\ agreed' = agreed /\ op = "create" /\ pc = "asking"
        /\ parties' = [parties EXCEPT ![r] = <<c, d>>]
        /\ job[c].pc = "idle"
    BY <1>2, <2>1 DEF Ask, Approve, Decline
  <2>3. TypeOK'
    BY <1>1, <1>2, <1>4, <1>5, <1>6, <2>2 DEF TypeOK
  <2>4. /\ parties'[r] = <<c, d>> /\ <<c, d>> # NotMade
        /\ \A q \in Request : Made(q) => q # r /\ parties'[q] = parties[q]
        /\ \A q \in Request : q # r => parties'[q] = parties[q]
    BY <1>1, <2>2, ContactAssumption DEF TypeOK, Made
  <2>5. StoresInv'
    BY <1>1, <1>5, <2>2, <2>4, SameStores DEF TypeOK
  <2>6. UseInv'
    <3>1. \A q \in Request : Made(q) => Made(q)'
      BY <2>4 DEF Made
    <3>2. \A k \in wire' : Made(k.req)'
      <4>1. \A k \in wire : k.req \in Request /\ Made(k.req)
        BY <1>1, CallFields DEF UseInv, TypeOK
      <4>2. Made(r)'
        BY <2>4 DEF Made
      <4>3. \A k \in wire' : k \in wire \/ k.req = r
        BY <1>2
      <4> QED
        BY <3>1, <4>1, <4>2, <4>3
    <3>3. \A q \in Request : Made(q)' => (Sender(q) # Recipient(q))'
      BY <1>1, <2>2, <2>4 DEF UseInv, Made, Sender, Recipient
    <3> QED
      BY <1>1, <1>5, <2>2, <3>1, <3>2, <3>3 DEF UseInv, TypeOK
  <2>7. JobInv'
    <3>1. JobOk(c, j)'
      BY <1>1, <1>3, <2>2, <2>4 DEF JobOk, Made, TypeOK, Job
    <3>2. \A e \in Client \ {c} : JobOk(e, job[e])'
      <4> SUFFICES ASSUME NEW e \in Client \ {c} PROVE JobOk(e, job[e])'
        OBVIOUS
      <4>1. \A q \in job[e].todo \cup job[e].req :
              q \in Request /\ Made(q) /\ parties'[q] = parties[q]
        BY <1>1, <2>4 DEF JobInv, JobOk, TypeOK, Job
      <4>2. JobOk(e, job[e])
        BY <1>1 DEF JobInv
      <4> QED
        BY <1>4, <2>2, <4>1, <4>2 DEF JobOk, Made, Sender, Recipient
    <3> QED
      BY <1>4, <3>1, <3>2 DEF JobInv
  <2>8. AgreedInv'
    <3>1. \A q \in agreed : Answered(q)'
      <4> SUFFICES ASSUME NEW q \in agreed PROVE Answered(q)'
        OBVIOUS
      <4>1. /\ q \in Request /\ Answered(q) /\ parties'[q] = parties[q]
            /\ Recipient(q) \in Client
        BY <1>1, <2>4, RequestParties DEF TypeOK, UseInv, AgreedInv
      <4> QED
        BY <1>4, <1>5, <2>2, <4>1 DEF Answered, On, Sender, Recipient
    <3>2. \A q \in Request : Made(q)' /\ <<Sender(q), q>>' \in made' => q \in agreed'
      BY <1>1, <1>5, <2>2, <2>4 DEF AgreedInv, UseInv, Made, Sender
    <3>3. \A k \in wire' : k.op = "accept" => k.req \in agreed'
      BY <1>1, <1>2, <2>2 DEF AgreedInv
    <3> QED
      BY <1>1, <1>5, <2>2, <3>1, <3>2, <3>3 DEF AgreedInv
  <2> QED
    BY <2>3, <2>5, <2>6, <2>7, <2>8 DEF IInv
<1>8. CASE Approve(c, r) \/ Decline(c, r)
  <2>1. /\ parties' = parties /\ job[c].pc = "review" /\ r \in job[c].todo
        /\ agreed \subseteq agreed' /\ agreed' \subseteq agreed \cup {r}
        /\ r \in agreed' \/ agreed' = agreed
        /\ Approve(c, r) => r \in agreed'
    BY <1>8 DEF Approve, Decline
  <2>2. Made(r) /\ Recipient(r) = c
    BY <1>1, <2>1 DEF JobOk
  <2>3. \/ pc = "accepting" /\ op = "accept" /\ r \in agreed'
        \/ pc = "rejecting" /\ op = "reject" /\ agreed' = agreed
    BY <1>2, <2>1 DEF Ask, Decline
  <2>4. TypeOK'
    BY <1>1, <1>2, <1>4, <1>5, <1>6, <2>1 DEF TypeOK
  <2>5. StoresInv'
    BY <1>1, <1>5, <2>1, SameStores DEF TypeOK
  <2>6. UseInv'
    BY <1>1, <1>2, <1>5, <2>1, <2>2 DEF UseInv, Made, Sender, Recipient
  <2>7. JobInv'
    <3>1. JobOk(c, j)'
      BY <1>1, <1>3, <2>1, <2>2, <2>3 DEF JobOk, Made, Sender, Recipient
    <3>2. \A e \in Client \ {c} : JobOk(e, job[e])'
      BY <1>1, <1>4, <2>1 DEF JobInv, JobOk, Made, Sender, Recipient
    <3> QED
      BY <1>4, <3>1, <3>2 DEF JobInv
  <2>8. AgreedInv'
    <3>1. \A q \in agreed : Answered(q)'
      <4> SUFFICES ASSUME NEW q \in agreed PROVE Answered(q)'
        OBVIOUS
      <4>1. q \in Request /\ Answered(q) /\ Recipient(q) \in Client
        BY <1>1, RequestParties DEF TypeOK, UseInv, AgreedInv
      <4> QED
        BY <1>4, <1>5, <2>1, <4>1 DEF Answered, On, Sender, Recipient
    <3>2. r \in agreed' /\ r \notin agreed => Answered(r)'
      BY <1>3, <1>4, <2>1, <2>2, <2>3 DEF Answered, On, Recipient
    <3>3. \A k \in wire' : k.op = "accept" => k.req \in agreed'
      BY <1>1, <1>2, <2>1, <2>3 DEF AgreedInv
    <3>4. \A q \in agreed' : Answered(q)'
      BY <2>1, <3>1, <3>2
    <3> QED
      BY <1>1, <1>5, <2>1, <3>3, <3>4 DEF AgreedInv, Made, Sender
  <2> QED
    BY <2>4, <2>5, <2>6, <2>7, <2>8 DEF IInv
<1> QED
  BY <1>7, <1>8

-----------------------------------------------------------------------------
(* The peer in a request that c takes part in. *)
LEMMA PeerFacts ==
  ASSUME IInv, NEW c \in Client, NEW r \in Request, r \in job[c].req
  PROVE  /\ Made(r) /\ Peer(c, r) \in Client
         /\ Recipient(r) = c => Peer(c, r) = Sender(r)
         /\ job[c].pc \in {"confirm", "trusting"} =>
              /\ r \in agreed /\ Between(r, c, Peer(c, r))
              /\ NameOf[Peer(c, r)] \in Name
<1>1. TypeOK /\ JobOk(c, job[c]) /\ UseInv
  BY DEF IInv, JobInv
<1>2. /\ Made(r) /\ Sender(r) \in Client /\ Recipient(r) \in Client
      /\ parties[r] = <<Sender(r), Recipient(r)>> /\ Sender(r) # Recipient(r)
  BY <1>1, RequestParties DEF JobOk, UseInv
<1> QED
  BY <1>1, <1>2, NameAssumption DEF JobOk, Peer, Between

(* A peer's side of a request is completed. *)
LEMMA AdoptInv ==
  ASSUME IInv, NEW c \in Client, NEW r \in Request, Adopt(c, r)
  PROVE  IInv'
<1> USE DEF relayVars, Phase
<1> DEFINE d == Peer(c, r)
           n == NameOf[d]
           f == FileOf[n]
           j == LoopJob(IF job[c].pc = "confirm" THEN "accepted" ELSE "review", job[c].todo)
<1>1. TypeOK /\ UseInv /\ JobInv /\ AgreedInv /\ StoresInv /\ JobOk(c, job[c])
  BY DEF IInv, JobInv
<1>2. job[c].pc \in {"confirm", "trusting"} /\ job[c].req = {r}
  BY DEF Adopt
<1>3. /\ Made(r) /\ d \in Client /\ n \in Name /\ r \in agreed /\ Between(r, c, d)
      /\ f \in FileName
  BY <1>2, PeerFacts, NameAssumption
<1>4. /\ trusted' = [trusted EXCEPT ![c] = [trusted[c] EXCEPT ![n] = d]]
      /\ ids' = [ids EXCEPT ![c] = [ids[c] EXCEPT ![n] = d]]
      /\ files' = [files EXCEPT ![c] = [files[c] EXCEPT ![f] = d]]
      /\ pasted' = pasted \ {<<c, f>>}
      /\ known' = [known EXCEPT ![c] = known[c] \cup {n}]
      /\ lobbies' = [lobbies EXCEPT ![c] = lobbies[c] \cup {n}]
      /\ made' = made \cup {<<c, r>>}
      /\ UNCHANGED <<parties, status, live, wire, announced, agreed, torn>>
  BY DEF Adopt, Put, WriteBundle, BundleFile, AddLobby
<1>5. job[c].todo \in SUBSET Request
  BY <1>1 DEF TypeOK, Job
<1>6. /\ j \in Job /\ job' = [job EXCEPT ![c] = j] /\ j.todo = job[c].todo /\ j.req = {}
      /\ j.todo # {} => j.pc = (IF job[c].pc = "confirm" THEN "accepted" ELSE "review")
  BY <1>5, LoopFields DEF Adopt
<1>7. n = NameOf[d] /\ f = BundleFile(d)
  BY DEF BundleFile
<1> HIDE DEF j, f, n, d
<1>8. JobOk(c, j)
  BY <1>1, <1>2, <1>6 DEF JobOk
<1>9. TypeOK'
  BY <1>1, <1>3, <1>4, <1>6 DEF TypeOK
<1>10. (UseInv /\ JobInv /\ AgreedInv)'
  <2>1. \A q \in Request : On(c, "accepting", q) \/ On(c, "trusting", q) => <<c, q>> \in made'
    BY <1>2, <1>4 DEF On
  <2>2. /\ \A e \in Client, q \in Request : <<e, q>> \in made' => Made(q)
        /\ \A q \in Request : Made(q) /\ <<Sender(q), q>> \in made' => q \in agreed
    BY <1>1, <1>3, <1>4 DEF UseInv, AgreedInv
  <2> QED
    BY <1>1, <1>4, <1>6, <1>8, <1>9, <2>1, <2>2, JobStep DEF UseInv, AgreedInv
<1>11. StoresInv'
  <2>1. \A e \in Client, m \in Name :
          \/ e = c /\ m = n /\ ids'[e][m] = d /\ trusted'[e][m] = d
          \/ ids'[e][m] = ids[e][m] /\ trusted'[e][m] = trusted[e][m]
    BY <1>1, <1>3, <1>4 DEF TypeOK
  <2>2. \A e \in Client, g \in FileName :
          \/ e = c /\ g = f /\ files'[e][g] = d
          \/ /\ files'[e][g] = files[e][g]
             /\ <<e, g>> \in pasted <=> <<e, g>> \in pasted'
    BY <1>1, <1>3, <1>4 DEF TypeOK
  <2>3. LobbyIsMutual'
    <3> SUFFICES ASSUME NEW e \in Client, NEW g \in FileName, files'[e][g] # Nobody,
                        <<e, g>> \notin pasted'
                 PROVE  \E q \in agreed' : Between(q, e, files[e][g])'
      BY DEF LobbyIsMutual
    <3>1. CASE e = c /\ g = f /\ files'[e][g] = d
      BY <1>3, <1>4, <3>1 DEF Between
    <3>2. CASE files'[e][g] = files[e][g] /\ <<e, g>> \notin pasted
      BY <1>1, <1>4, <3>2 DEF StoresInv, LobbyIsMutual, Between
    <3> QED
      BY <2>2, <3>1, <3>2
  <2>4. /\ ids'[c][n] = d /\ d # Nobody
        /\ \A e \in Client, g \in FileName :
             files'[e][g] # Nobody => files'[e][g] \in Client /\ NameOf[files'[e][g]] \in Name
    BY <1>1, <1>3, <1>4, <1>9, NameAssumption, ContactAssumption DEF TypeOK
  <2>5. FileFits'
    <3>1. \A e \in Client, g \in FileName :
            files'[e][g] = files[e][g] \/ (g = f /\ files'[e][g] = d)
      BY <2>2
    <3> QED
      BY <1>1, <1>7, <3>1 DEF StoresInv, FileFits, BundleFile
  <2>6. FileHasId'
    <3> SUFFICES ASSUME NEW e \in Client, NEW g \in FileName, <<e, g>> \notin pasted',
                        files'[e][g] # Nobody
                 PROVE  ids'[e][NameOf[files'[e][g]]] # Nobody
      BY DEF FileHasId
    <3>1. CASE e = c /\ NameOf[files'[e][g]] = n
      BY <2>4, <3>1
    <3>2. CASE ~(e = c /\ NameOf[files'[e][g]] = n)
      <4>1. files'[e][g] = files[e][g] /\ <<e, g>> \notin pasted
        BY <1>7, <2>2, <3>2
      <4> QED
        BY <1>1, <2>1, <2>4, <3>2, <4>1 DEF StoresInv, FileHasId
    <3> QED
      BY <3>1, <3>2
  <2>7. RightMailbox'
    <3> SUFFICES ASSUME NEW e \in Client, NEW g \in FileName, <<e, g>> \notin pasted',
                        files'[e][g] # Nobody, trusted'[e][NameOf[files'[e][g]]] = files'[e][g]
                 PROVE  LET x == files'[e][g]
                            m == NameOf[x]
                        IN  ids'[e][m] = x \/ (ids'[e][m] # Nobody /\ <<e, x>> \in torn')
      BY DEF RightMailbox
    <3>1. CASE e = c /\ NameOf[files'[e][g]] = n
      <4>1. trusted'[e][n] = d
        BY <1>1, <1>3, <1>4, <3>1 DEF TypeOK
      <4> QED
        BY <2>4, <3>1, <4>1
    <3>2. CASE ~(e = c /\ NameOf[files'[e][g]] = n)
      <4>1. files'[e][g] = files[e][g] /\ <<e, g>> \notin pasted
        BY <1>7, <2>2, <3>2
      <4> DEFINE x == files[e][g]
                 m == NameOf[x]
      <4>2. ids'[e][m] = ids[e][m] /\ trusted'[e][m] = trusted[e][m]
        BY <2>1, <2>4, <3>2, <4>1
      <4>3. x # Nobody /\ trusted[e][m] = x
        BY <4>1, <4>2
      <4>4. RightMailbox
        BY <1>1 DEF StoresInv
      <4>5. ids[e][m] = x \/ (ids[e][m] # Nobody /\ <<e, x>> \in torn)
        BY <4>1, <4>3, <4>4 DEF RightMailbox
      <4> QED
        BY <1>4, <4>1, <4>2, <4>5
    <3> QED
      BY <3>1, <3>2
  <2> QED
    BY <2>3, <2>5, <2>7, <2>6 DEF StoresInv
<1> QED
  BY <1>9, <1>10, <1>11 DEF IInv

(* The program of c ends, and writes at most to its first two stores. *)
LEMMA ExitStep ==
  ASSUME IInv, NEW c \in Client, Exit(c),
         UNCHANGED <<parties, status, live, wire, files, pasted, agreed, made>>,
         torn \subseteq torn', torn' \in SUBSET (Client \X Client),
         trusted' \in [Client -> [Name -> Client \cup {Nobody}]],
         ids' \in [Client -> [Name -> Client \cup {Nobody}]],
         \A q \in Request :
           (On(c, "accepting", q) \/ On(c, "trusting", q)) /\ Recipient(q) = c =>
             <<c, Sender(q)>> \in torn'
  PROVE  TypeOK' /\ (UseInv /\ JobInv /\ AgreedInv)'
<1>1. TypeOK /\ UseInv /\ JobInv /\ AgreedInv
  BY DEF IInv
<1>2. PICK j \in Job : j = At("idle") /\ j.todo = {} /\ j.req = {}
  BY JobFields DEF Phase
<1>3. /\ job' = [job EXCEPT ![c] = j] /\ JobOk(c, j)
      /\ known' = [known EXCEPT ![c] = {}] /\ announced' = [announced EXCEPT ![c] = {}]
      /\ lobbies' = [lobbies EXCEPT ![c] = Stored(c)]
  BY <1>2 DEF Exit, Goto, JobOk
<1>4. Stored(c) \subseteq Name
  <2>1. \A f \in FileName : files[c][f] \in Client \cup {Nobody}
    BY <1>1 DEF TypeOK
  <2> QED
    BY <2>1, NameAssumption DEF Stored
<1>5. TypeOK'
  BY <1>1, <1>3, <1>4 DEF TypeOK
<1>6. (UseInv /\ JobInv /\ AgreedInv)'
  BY <1>1, <1>3, <1>5, JobStep DEF UseInv, AgreedInv
<1> QED
  BY <1>6, <1>5

(* A program that ends before it has touched the stores. *)
LEMMA QuitInv ==
  ASSUME IInv, NEW c \in Client, NEW r,
         Quit(c) \/ (r \in Request /\ AdoptRefused(c, r))
  PROVE  IInv'
<1> USE DEF relayVars, storeVars
<1>1. /\ TypeOK /\ UseInv /\ StoresInv /\ Exit(c)
      /\ UNCHANGED <<parties, status, live, wire, trusted, ids, files, pasted, agreed, made>>
  BY DEF IInv, Quit, AdoptRefused
<1>2. /\ torn \subseteq torn' /\ torn' \in SUBSET (Client \X Client)
      /\ \A q \in Request :
           (On(c, "accepting", q) \/ On(c, "trusting", q)) /\ Recipient(q) = c =>
             <<c, Sender(q)>> \in torn'
  <2>1. CASE r \in Request /\ AdoptRefused(c, r)
    <3>1. Peer(c, r) \in Client /\ (Recipient(r) = c => Peer(c, r) = Sender(r))
      BY <2>1, PeerFacts DEF AdoptRefused
    <3>2. torn' = torn \cup {<<c, Peer(c, r)>>} /\ job[c].req = {r}
      BY <2>1 DEF AdoptRefused, StopsShort
    <3> DEFINE d == Peer(c, r)
    <3> HIDE DEF d
    <3>3. torn' \in SUBSET (Client \X Client)
      BY <1>1, <3>1, <3>2 DEF TypeOK, d
    <3>4. \A q \in Request : On(c, "accepting", q) \/ On(c, "trusting", q) => q = r
      BY <3>2 DEF On
    <3> QED
      BY <3>1, <3>2, <3>3, <3>4
  <2>2. CASE Quit(c)
    <3> DEFINE owed == IF job[c].pc \in {"accepting", "trusting"} THEN job[c].req ELSE {}
    <3>1. torn' = torn \cup {<<c, Peer(c, q)>> : q \in owed}
      BY <2>2 DEF Quit, StopsShort
    <3>2. \A q \in Request : q \in owed =>
            Peer(c, q) \in Client /\ (Recipient(q) = c => Peer(c, q) = Sender(q))
      BY PeerFacts
    <3>3. owed \subseteq Request
      BY <1>1 DEF TypeOK, Job
    <3>4. \A q \in Request : On(c, "accepting", q) \/ On(c, "trusting", q) => q \in owed
      BY DEF On
    <3> HIDE DEF owed
    <3>5. torn' \in SUBSET (Client \X Client)
      BY <1>1, <3>1, <3>2, <3>3 DEF TypeOK
    <3> QED
      BY <3>1, <3>2, <3>4, <3>5
  <2> QED
    BY <2>1, <2>2
<1>3. TypeOK' /\ (UseInv /\ JobInv /\ AgreedInv)'
  BY <1>1, <1>2, ExitStep DEF TypeOK
<1>4. StoresInv'
  BY <1>1, <1>2, SameStores DEF TypeOK
<1> QED
  BY <1>3, <1>4 DEF IInv

(* A program that ends when it has trusted d, and perhaps stored its id, but *)
(* not written its bundle file.                                            *)
LEMMA CutStep ==
  ASSUME IInv, NEW c \in Client, NEW d \in Client, Exit(c),
         trusted' = Put(trusted, c, d), ids' = Put(ids, c, d) \/ ids' = ids,
         torn' = torn \cup {<<c, d>>},
         UNCHANGED <<parties, status, live, wire, files, pasted, agreed, made>>,
         \A q \in Request :
           (On(c, "accepting", q) \/ On(c, "trusting", q)) /\ Recipient(q) = c =>
             <<c, Sender(q)>> \in torn'
  PROVE  IInv'
<1> DEFINE n == NameOf[d]
<1>1. TypeOK /\ UseInv /\ StoresInv
  BY DEF IInv
<1>2. n \in Name
  BY NameAssumption
<1>3. /\ trusted' = [trusted EXCEPT ![c] = [trusted[c] EXCEPT ![n] = d]]
      /\ ids' = [ids EXCEPT ![c] = [ids[c] EXCEPT ![n] = d]] \/ ids' = ids
  BY DEF Put
<1> HIDE DEF n
<1>4. /\ torn' \in SUBSET (Client \X Client)
      /\ trusted' \in [Client -> [Name -> Client \cup {Nobody}]]
      /\ ids' \in [Client -> [Name -> Client \cup {Nobody}]]
  <2>1. /\ trusted \in [Client -> [Name -> Client \cup {Nobody}]]
        /\ ids \in [Client -> [Name -> Client \cup {Nobody}]]
        /\ torn \in SUBSET (Client \X Client)
    BY <1>1 DEF TypeOK
  <2>2. trusted' \in [Client -> [Name -> Client \cup {Nobody}]]
    BY <1>2, <1>3, <2>1
  <2>3. ids' \in [Client -> [Name -> Client \cup {Nobody}]]
    <3>1. [ids[c] EXCEPT ![n] = d] \in [Name -> Client \cup {Nobody}]
      BY <1>2, <2>1
    <3> QED
      BY <1>3, <2>1, <3>1
  <2>4. torn' \in SUBSET (Client \X Client)
    <3>1. torn' = torn \cup {<<c, d>>} /\ <<c, d>> \in Client \X Client
      OBVIOUS
    <3> QED
      BY <2>1, <3>1
  <2> QED
    BY <2>2, <2>3, <2>4
<1>5. TypeOK' /\ (UseInv /\ JobInv /\ AgreedInv)'
  BY <1>4, ExitStep
<1>6. StoresInv'
  <2>1. \A e \in Client, m \in Name :
          \/ e = c /\ m = n /\ trusted'[e][m] = d /\ ids'[e][m] \in {d, ids[e][m]}
          \/ ids'[e][m] = ids[e][m] /\ trusted'[e][m] = trusted[e][m]
    BY <1>1, <1>2, <1>3 DEF TypeOK
  <2>2. \A e \in Client, g \in FileName :
          files[e][g] # Nobody => NameOf[files[e][g]] \in Name
    BY <1>1, NameAssumption DEF TypeOK
  <2>3. LobbyIsMutual' /\ FileFits'
    BY <1>1 DEF StoresInv, LobbyIsMutual, FileFits, BundleFile, Between
  <2>4. FileHasId'
    BY <1>1, <2>1, <2>2, ContactAssumption DEF StoresInv, FileHasId
  <2>5. RightMailbox'
    BY <1>1, <2>1, <2>2, <2>4 DEF StoresInv, RightMailbox, FileHasId
  <2> QED
    BY <2>3, <2>4, <2>5 DEF StoresInv
<1> QED
  BY <1>5, <1>6 DEF IInv

LEMMA AdoptCutInv ==
  ASSUME IInv, NEW c \in Client, NEW r \in Request, AdoptCut(c, r)
  PROVE  IInv'
<1> DEFINE d == Peer(c, r)
<1>1. job[c].pc \in {"confirm", "trusting"} /\ job[c].req = {r}
  BY DEF AdoptCut
<1>2. d \in Client /\ (Recipient(r) = c => d = Sender(r))
  BY <1>1, PeerFacts
<1>3. /\ trusted' = Put(trusted, c, d) /\ (ids' = Put(ids, c, d) \/ ids' = ids)
      /\ torn' = torn \cup {<<c, d>>} /\ Exit(c)
      /\ UNCHANGED <<parties, status, live, wire, files, pasted, agreed, made>>
  BY DEF AdoptCut, StopsShort, relayVars
<1> HIDE DEF d
<1>4. \A q \in Request :
        (On(c, "accepting", q) \/ On(c, "trusting", q)) /\ Recipient(q) = c =>
          <<c, Sender(q)>> \in torn'
  BY <1>1, <1>2, <1>3 DEF On
<1> QED
  BY <1>2, <1>3, <1>4, CutStep

(* A bundle that is pasted: the three stores of the client, but the ids.   *)
LEMMA SetupPeerInv ==
  ASSUME IInv, NEW c \in Client, NEW d \in Client, SetupPeer(c, d) \/ SetupPeerCut(c, d)
  PROVE  IInv'
<1> USE DEF relayVars
<1>1. CASE SetupPeerCut(c, d)
  <2>1. \A q \in Request : ~(On(c, "accepting", q) \/ On(c, "trusting", q))
    BY <1>1 DEF SetupPeerCut, On
  <2> QED
    BY <1>1, <2>1, CutStep DEF SetupPeerCut, StopsShort
<1>2. CASE SetupPeer(c, d)
  <2> DEFINE n == NameOf[d]
             f == FileOf[n]
  <2>1. TypeOK /\ UseInv /\ JobInv /\ AgreedInv /\ StoresInv
    BY DEF IInv
  <2>2. n \in Name /\ f \in FileName
    BY NameAssumption
  <2>3. /\ trusted' = [trusted EXCEPT ![c] = [trusted[c] EXCEPT ![n] = d]]
        /\ files' = [files EXCEPT ![c] = [files[c] EXCEPT ![f] = d]]
        /\ pasted' = pasted \cup {<<c, f>>}
        /\ known' = [known EXCEPT ![c] = known[c] \cup {n}]
        /\ lobbies' = [lobbies EXCEPT ![c] = lobbies[c] \cup {n}]
        /\ UNCHANGED <<parties, status, live, wire, ids, announced, job, agreed, made, torn>>
    BY <1>2 DEF SetupPeer, Put, WriteBundle, BundleFile, AddLobby
  <2>4. n = NameOf[d] /\ f = BundleFile(d)
    BY DEF BundleFile
  <2> HIDE DEF n, f
  <2>5. TypeOK'
    BY <2>1, <2>2, <2>3 DEF TypeOK
  <2>6. (UseInv /\ JobInv /\ AgreedInv)'
    BY <2>1, <2>3, QuietStep DEF UseInv, AgreedInv
  <2>7. /\ \A e \in Client, m \in Name : (e = c /\ m = n) \/ trusted'[e][m] = trusted[e][m]
        /\ \A e \in Client, g \in FileName :
             <<e, g>> \notin pasted' => files'[e][g] = files[e][g] /\ <<e, g>> \notin pasted
    BY <2>1, <2>2, <2>3 DEF TypeOK
  <2>8. LobbyIsMutual' /\ FileHasId'
    BY <2>1, <2>3, <2>7 DEF StoresInv, LobbyIsMutual, FileHasId, Between
  <2>9. FileFits'
    <3>1. \A e \in Client, g \in FileName :
            files'[e][g] = files[e][g] \/ (g = f /\ files'[e][g] = d)
      BY <2>1, <2>2, <2>3 DEF TypeOK
    <3> QED
      BY <2>1, <2>4, <3>1 DEF StoresInv, FileFits, BundleFile
  <2>10. RightMailbox'
    <3> SUFFICES ASSUME NEW e \in Client, NEW g \in FileName, <<e, g>> \notin pasted',
                        files'[e][g] # Nobody, trusted'[e][NameOf[files'[e][g]]] = files'[e][g]
                 PROVE  LET x == files'[e][g]
                            m == NameOf[x]
                        IN  ids'[e][m] = x \/ (ids'[e][m] # Nobody /\ <<e, x>> \in torn')
      BY DEF RightMailbox
    <3> DEFINE x == files'[e][g]
    <3>1. x = files[e][g] /\ <<e, g>> \notin pasted /\ NameOf[x] \in Name
      BY <2>1, <2>7, NameAssumption DEF TypeOK
    <3>2. BundleFile(x) = g /\ (e = c => g # f)
      BY <2>1, <2>3, <3>1 DEF StoresInv, FileFits
    <3>3. ~(e = c /\ NameOf[x] = n)
      BY <2>4, <3>2 DEF BundleFile
    <3>4. trusted'[e][NameOf[x]] = trusted[e][NameOf[x]]
      BY <2>7, <3>1, <3>3
    <3>5. RightMailbox
      BY <2>1 DEF StoresInv
    <3>6. LET m == NameOf[x]
          IN  ids[e][m] = x \/ (ids[e][m] # Nobody /\ <<e, x>> \in torn)
      BY <3>1, <3>4, <3>5 DEF RightMailbox
    <3> QED
      BY <2>3, <3>6
  <2> QED
    BY <2>5, <2>6, <2>8, <2>10, <2>9 DEF StoresInv, IInv
<1> QED
  BY <1>1, <1>2

LEMMA RevokeCutInv ==
  ASSUME IInv, NEW c \in Client, NEW n \in Name, RevokeCut(c, n)
  PROVE  IInv'
<1> USE DEF relayVars
<1>1. TypeOK /\ UseInv /\ StoresInv
  BY DEF IInv
<1>2. /\ trusted' = [trusted EXCEPT ![c] = [trusted[c] EXCEPT ![n] = Nobody]]
      /\ torn' = torn \cup {<<c, trusted[c][n]>>} /\ Exit(c)
      /\ trusted[c][n] # Nobody /\ job[c].pc = "idle"
      /\ UNCHANGED <<parties, status, live, wire, ids, files, pasted, agreed, made>>
  BY DEF RevokeCut, StopsShort
<1>3. /\ torn' \in SUBSET (Client \X Client)
      /\ trusted' \in [Client -> [Name -> Client \cup {Nobody}]]
      /\ ids' \in [Client -> [Name -> Client \cup {Nobody}]]
  BY <1>1, <1>2 DEF TypeOK
<1>4. \A q \in Request : ~(On(c, "accepting", q) \/ On(c, "trusting", q))
  BY <1>2 DEF On
<1>5. TypeOK' /\ (UseInv /\ JobInv /\ AgreedInv)'
  BY <1>1, <1>2, <1>3, <1>4, ExitStep DEF TypeOK
<1>6. \A e \in Client, m \in Name : trusted'[e][m] \in {Nobody, trusted[e][m]}
  BY <1>1, <1>2 DEF TypeOK
<1>7. StoresInv'
  BY <1>1, <1>2, <1>6, Fewer
<1> QED
  BY <1>5, <1>7 DEF IInv
-----------------------------------------------------------------------------
LEMMA StepInv == IInv /\ [Next]_vars => IInv'
<1> SUFFICES ASSUME IInv, [Next]_vars PROVE IInv'
  OBVIOUS
<1>1. CASE UNCHANGED vars
  <2>1. TypeOK' /\ UseInv' /\ AgreedInv'
    BY <1>1 DEF vars, IInv, TypeOK, UseInv, AgreedInv, Answered, Made, Sender, Recipient, On
  <2>2. JobInv' /\ StoresInv'
    BY <1>1 DEF vars, IInv, JobInv, JobOk, Made, Sender, Recipient, StoresInv,
                LobbyIsMutual, Between, RightMailbox, FileHasId, FileFits, BundleFile
  <2> QED
    BY <2>1, <2>2 DEF IInv
<1>2. ASSUME NEW c \in Client, Quit(c) \/ Poll(c) \/ Review(c)
      PROVE  IInv'
  BY <1>2, QuitInv, LoopInv
<1>3. ASSUME NEW c \in Client, NEW d \in Client, SetupPeer(c, d) \/ SetupPeerCut(c, d)
      PROVE  IInv'
  BY <1>3, SetupPeerInv
<1>4. ASSUME NEW c \in Client, NEW r \in Request, Dialogue(c, r) \/ \E d \in Client : Ask(c, d, r)
      PROVE  IInv'
  BY <1>4, LoopInv, UserInv, AdoptInv, AdoptCutInv, QuitInv DEF Dialogue
<1>5. ASSUME NEW c \in Client, NEW n \in Name, LoadPeer(c, n) \/ Revoke(c, n) \/ RevokeCut(c, n)
      PROVE  IInv'
  BY <1>5, LobbyInv, RevokeCutInv
<1>6. ASSUME NEW k \in wire, Handle(k) PROVE IInv'
  BY <1>6, HandleInv
<1>7. ASSUME NEW r \in Request, Expire(r) PROVE IInv'
  BY <1>7, ExpireInv
<1> QED
  BY <1>1, <1>2, <1>4, <1>5, <1>6, <1>7, <1>3 DEF Next

LEMMA Inductive == Spec => []IInv
<1>1. Init => IInv
  BY InitInv
<1>2. IInv /\ [Next]_vars => IInv'
  BY StepInv
<1> QED
  BY <1>1, <1>2, PTL DEF Spec

(* Every variable has its type: no dialogue is about anything but requests, *)
(* no store holds anything but clients (the tables and files of Contacts). *)
THEOREM TypeCorrect == Spec => []TypeOK
<1>1. IInv => TypeOK
  BY DEF IInv
<1> QED
  BY <1>1, Inductive, PTL

(* No lobby without consent: for any users, names, file names, requests,   *)
(* crashes, late answers and revocations, a bundle file was pasted by its  *)
(* user (setup_peer), or names a peer with whom one of the two asked and   *)
(* the other approved (review_contact_requests, the polling of chat_loop). *)
THEOREM LobbyMutual == Spec => []LobbyIsMutual
<1>1. IInv => LobbyIsMutual
  BY DEF IInv, StoresInv
<1> QED
  BY <1>1, Inductive, PTL

(* An accepted request has been answered for: its recipient has the lobby, *)
(* is in the middle of setting it up, or its program stopped there         *)
(* (accept, and what review_contact_requests does after it).               *)
THEOREM AcceptedLobby == Spec => []AcceptedHasLobby
<1>1. IInv => AcceptedHasLobby
  BY DEF IInv, AgreedInv, AcceptedHasLobby
<1> QED
  BY <1>1, Inductive, PTL

(* A usable lobby sends to the mailbox of the peer whose bundle it holds,  *)
(* for any display names and any way of making file names of them, with    *)
(* the two exceptions RightMailbox names: a bundle that was pasted, and a  *)
(* program that stopped short (set_peer_id, trust_peer, setup_peer and the *)
(* order of the writes in integrate_accepted_contact).                     *)
THEOREM Mailbox == Spec => []RightMailbox
<1>1. IInv => RightMailbox
  BY DEF IInv, StoresInv
<1> QED
  BY <1>1, Inductive, PTL
=============================================================================
