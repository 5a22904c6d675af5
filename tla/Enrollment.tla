------------------------------ MODULE Enrollment ------------------------------
(***************************************************************************)
(* How a client gets a device at the relay (relay/src/enrollment.rs), the  *)
(* administrator's commands that let it (relay/src/database.rs, main.rs),  *)
(* and the start of the terminal client, which applies, waits for approval *)
(* and registers (src/bin/safechat-ui.rs, setup_relay).                    *)
(*                                                                         *)
(* A client's enrollment secret, identity, fingerprint and address are     *)
(* fixed in its profile, and its id is the hash of its identity: requests  *)
(* of one client differ in when they expire and in nothing else.  Time is  *)
(* left out: a pending request or a challenge may expire at any moment.    *)
(*                                                                         *)
(* Every handler is one transaction or one statement under the database    *)
(* mutex.  The administrator's commands are separate processes, and their  *)
(* statements commit one by one.  An HTTP request may be handled long after*)
(* its client has given up on it and sent it again.                        *)
(***************************************************************************)
EXTENDS RelayClients

CONSTANTS
  Address,     \* the addresses clients register under
  AddressOf,   \* the address in the profile of each client
  NoDevice,    \* no row in `devices`
  Nonce,       \* bound: the challenges in use at a time
  NoNonce,     \* no row in `challenges`
  Token,       \* bound: the access tokens in use at a time
  NoToken,     \* no session file
  Revocable    \* bound: the clients the administrator may revoke

ASSUME NoDeviceAssumption == NoDevice \notin Address
ASSUME EnrollmentAssumption ==
  /\ AddressOf \in [Client -> Address]
  /\ NoNonce \notin Nonce
  /\ NoToken \notin Token
  /\ Revocable \subseteq Client

VARIABLES
  requests,    \* enrollment_requests: "none", "live" or "expired"
  status,      \* allowlist.status: "none" (no row), "active" or "revoked"
  used,        \* allowlist.enrollment_used
  challenge,   \* the nonce of the client's row in `challenges`
  lapsed,      \* clients whose challenge has expired
  device,      \* device_address of the client's row in `devices`
  token,       \* the token whose hash is in that row
  approving,   \* what enrollment-approve has yet to do: "no", "write", "clean"
  dropping,    \* clients whose device row allowlist-revoke has yet to delete
  wire,        \* HTTP requests sent and perhaps handled, perhaps again
  job,         \* where each client is in setup_relay
  session      \* the token in each client's session file

relayVars == <<requests, status, used, challenge, lapsed, device, token>>
adminVars == <<approving, dropping>>
clientVars == <<wire, job, session>>
vars == <<requests, status, used, challenge, lapsed, device, token, approving,
          dropping, wire, job, session>>

EnrollCall    == [op : {"enroll"}, by : Client]
ChallengeCall == [op : {"challenge"}, by : Client]
RegisterCall  == [op : {"register"}, by : Client, nonce : Nonce]
Call == EnrollCall \cup ChallengeCall \cup RegisterCall

(* "off": not running; "applying", "asking", "joining": waiting for the    *)
(* answer to an enrollment request, a challenge, a registration; "waiting":*)
(* between two attempts; "challenged", "saving": the answer has come;      *)
(* "enrolled": the session file is written.                                *)
Phase == {"off", "applying", "waiting", "asking", "challenged", "joining",
          "saving", "enrolled"}
Job == [pc : Phase, nonce : Nonce \cup {NoNonce}, token : Token \cup {NoToken}]
At(pc) == [pc |-> pc, nonce |-> NoNonce, token |-> NoToken]

Goto(c, j) == job' = [job EXCEPT ![c] = j]
Send(k) == wire' = wire \cup {k}
(* A request that has been handled may be there once more. *)
Taken(k) == wire' = wire \/ wire' = wire \ {k}

-----------------------------------------------------------------------------
(***************************************************************************)
(* The client.  It only knows its id from the answer to an enrollment      *)
(* request, so a start without a session file always submits one.          *)
(***************************************************************************)
Launch(c) ==
  /\ job[c].pc = "off" /\ session[c] = NoToken
  /\ Goto(c, At("applying"))
  /\ Send([op |-> "enroll", by |-> c])
  /\ UNCHANGED <<relayVars, adminVars, session>>

AskChallenge(c) ==
  /\ job[c].pc = "waiting"
  /\ Goto(c, At("asking"))
  /\ Send([op |-> "challenge", by |-> c])
  /\ UNCHANGED <<relayVars, adminVars, session>>

Join(c) ==
  /\ job[c].pc = "challenged"
  /\ Goto(c, [job[c] EXCEPT !.pc = "joining"])
  /\ Send([op |-> "register", by |-> c, nonce |-> job[c].nonce])
  /\ UNCHANGED <<relayVars, adminVars, session>>

(* Every attempt at the request failed: a failed enrollment request ends   *)
(* the program, the other two only the attempt.                            *)
GiveUp(c) ==
  /\ job[c].pc \in {"applying", "asking", "joining"}
  /\ Goto(c, At(IF job[c].pc = "applying" THEN "off" ELSE "waiting"))
  /\ UNCHANGED <<relayVars, adminVars, wire, session>>

SaveToken(c) ==
  /\ job[c].pc = "saving"
  /\ session' = [session EXCEPT ![c] = job[c].token]
  /\ Goto(c, At("enrolled"))
  /\ UNCHANGED <<relayVars, adminVars, wire>>

(* The user cancels, or the program crashes. *)
Quit(c) ==
  /\ job[c].pc \notin {"off", "enrolled"}
  /\ Goto(c, At("off"))
  /\ UNCHANGED <<relayVars, adminVars, wire, session>>

-----------------------------------------------------------------------------
(* enrollment_request: INSERT OR REPLACE. *)
HandleEnroll(k) ==
  /\ k \in wire /\ k.op = "enroll" /\ Taken(k)
  /\ requests' = [requests EXCEPT ![k.by] = "live"]
  /\ \/ UNCHANGED job
     \/ job[k.by].pc = "applying" /\ Goto(k.by, At("waiting"))
  /\ UNCHANGED <<status, used, challenge, lapsed, device, token, adminVars, session>>

Enrollable(c) == status[c] = "active" /\ ~used[c]

(* 32 random bytes: none of the challenges that anybody still holds. *)
FreshNonce(n) ==
  /\ \A c \in Client : challenge[c] # n /\ job[c].nonce # n
  /\ \A k \in wire : k.op = "register" => k.nonce # n

(* challenge: INSERT OR REPLACE, for an approved client not enrolled yet.  *)
HandleChallenge(k) ==
  /\ k \in wire /\ k.op = "challenge" /\ Taken(k)
  /\ \/ \E n \in Nonce :
          /\ Enrollable(k.by) /\ FreshNonce(n)
          /\ challenge' = [challenge EXCEPT ![k.by] = n]
          /\ lapsed' = lapsed \ {k.by}
          /\ \/ UNCHANGED job
             \/ job[k.by].pc = "asking"
                /\ Goto(k.by, [At("challenged") EXCEPT !.nonce = n])
     \/ /\ ~Enrollable(k.by)
        /\ \/ UNCHANGED job
           \/ job[k.by].pc = "asking" /\ Goto(k.by, At("waiting"))
        /\ UNCHANGED <<challenge, lapsed>>
  /\ UNCHANGED <<requests, status, used, device, token, adminVars, session>>

FreshToken(t) == \A c \in Client : /\ token[c] # t /\ session[c] # t
                                   /\ job[c].token # t

(* The client waits for the answer to this registration. *)
Awaits(k) == job[k.by].pc = "joining" /\ job[k.by].nonce = k.nonce

(* Mutant of Acceptable: the allowlist status is not looked at. *)
AcceptableRevoked(k) ==
  ~used[k.by] /\ challenge[k.by] = k.nonce /\ k.by \notin lapsed

(* register accepts what is signed over the challenge in the table. *)
Acceptable(k) ==
  Enrollable(k.by) /\ challenge[k.by] = k.nonce /\ k.by \notin lapsed

(* The answer with the token arrives, or does not. *)
Granted(k, t) ==
  \/ UNCHANGED job
  \/ Awaits(k) /\ Goto(k.by, [At("saving") EXCEPT !.token = t])

(* Mutant of Enrol: the challenge stays in the table. *)
EnrolKeepsChallenge(k, t) ==
  /\ used' = [used EXCEPT ![k.by] = TRUE]
  /\ device' = [device EXCEPT ![k.by] = AddressOf[k.by]]
  /\ token' = [token EXCEPT ![k.by] = t]
  /\ UNCHANGED <<challenge, lapsed>>

(* The transaction: enrollment_used, the device row, the challenge. *)
Enrol(k, t) ==
  /\ used' = [used EXCEPT ![k.by] = TRUE]
  /\ device' = [device EXCEPT ![k.by] = AddressOf[k.by]]
  /\ token' = [token EXCEPT ![k.by] = t]
  /\ challenge' = [challenge EXCEPT ![k.by] = NoNonce]
  /\ lapsed' = lapsed \ {k.by}

HandleRegister(k) ==
  /\ k \in wire /\ k.op = "register" /\ Taken(k)
  /\ \/ \E t \in Token :
          Acceptable(k) /\ FreshToken(t) /\ Enrol(k, t) /\ Granted(k, t)
     \/ /\ ~Acceptable(k)
        /\ UNCHANGED job \/ (Awaits(k) /\ Goto(k.by, At("waiting")))
        /\ UNCHANGED <<used, device, token, challenge, lapsed>>
  /\ UNCHANGED <<requests, status, adminVars, session>>

(* A request is lost, or the relay restarts. *)
Lose(k) ==
  /\ k \in wire
  /\ wire' = wire \ {k}
  /\ UNCHANGED <<relayVars, adminVars, job, session>>

RequestExpires(c) ==
  /\ requests[c] = "live"
  /\ requests' = [requests EXCEPT ![c] = "expired"]
  /\ UNCHANGED <<status, used, challenge, lapsed, device, token, adminVars, clientVars>>

ChallengeExpires(c) ==
  /\ challenge[c] # NoNonce
  /\ lapsed' = lapsed \cup {c}
  /\ UNCHANGED <<requests, status, used, challenge, device, token, adminVars, clientVars>>

-----------------------------------------------------------------------------
(***************************************************************************)
(* The administrator.  enrollment-approve: three statements, each of which *)
(* commits, and the command may be killed after each.                      *)
(***************************************************************************)
ApproveRead(c) ==
  /\ approving[c] = "no" /\ requests[c] = "live"
  /\ approving' = [approving EXCEPT ![c] = "write"]
  /\ UNCHANGED <<relayVars, dropping, clientVars>>

(* Mutant of Allow: the row keeps its enrollment_used. *)
AllowKeepsUsed(c) ==
  /\ status' = [status EXCEPT ![c] = "active"]
  /\ UNCHANGED used

(* The allowlist row of an approved client. *)
Allow(c) ==
  /\ status' = [status EXCEPT ![c] = "active"]
  /\ used' = [used EXCEPT ![c] = FALSE]

ApproveWrite(c) ==
  /\ approving[c] = "write"
  /\ Allow(c)
  /\ approving' = [approving EXCEPT ![c] = "clean"]
  /\ UNCHANGED <<requests, challenge, lapsed, device, token, dropping, clientVars>>

ApproveClean(c) ==
  /\ approving[c] = "clean"
  /\ requests' = [requests EXCEPT ![c] = "none"]
  /\ approving' = [approving EXCEPT ![c] = "no"]
  /\ UNCHANGED <<status, used, challenge, lapsed, device, token, dropping, clientVars>>

ApproveKilled(c) ==
  /\ approving[c] # "no"
  /\ approving' = [approving EXCEPT ![c] = "no"]
  /\ UNCHANGED <<relayVars, dropping, clientVars>>

(* enrollment-reject. *)
Reject(c) ==
  /\ requests[c] # "none"
  /\ requests' = [requests EXCEPT ![c] = "none"]
  /\ UNCHANGED <<status, used, challenge, lapsed, device, token, adminVars, clientVars>>

(* allowlist-add and POST /v1/admin/allowlist: a plain INSERT. *)
AllowlistAdd(c) ==
  /\ status[c] = "none"
  /\ Allow(c)
  /\ UNCHANGED <<requests, challenge, lapsed, device, token, adminVars, clientVars>>

(* allowlist-revoke: two statements. *)
RevokeStatus(c) ==
  /\ c \in Revocable /\ status[c] # "none"
  /\ status' = [status EXCEPT ![c] = "revoked"]
  /\ dropping' = dropping \cup {c}
  /\ UNCHANGED <<requests, used, challenge, lapsed, device, token, approving, clientVars>>

RevokeDevice(c) ==
  /\ c \in dropping
  /\ device' = [device EXCEPT ![c] = NoDevice]
  /\ token' = [token EXCEPT ![c] = NoToken]
  /\ dropping' = dropping \ {c}
  /\ UNCHANGED <<requests, status, used, challenge, lapsed, approving, clientVars>>

-----------------------------------------------------------------------------
Init ==
  /\ requests = [c \in Client |-> "none"]
  /\ status = [c \in Client |-> "none"]
  /\ used = [c \in Client |-> FALSE]
  /\ challenge = [c \in Client |-> NoNonce]
  /\ lapsed = {}
  /\ device = [c \in Client |-> NoDevice]
  /\ token = [c \in Client |-> NoToken]
  /\ approving = [c \in Client |-> "no"]
  /\ dropping = {}
  /\ wire = {}
  /\ job = [c \in Client |-> At("off")]
  /\ session = [c \in Client |-> NoToken]

Setup(c) == AskChallenge(c) \/ Join(c) \/ GiveUp(c) \/ SaveToken(c)

Handle(k) == HandleEnroll(k) \/ HandleChallenge(k) \/ HandleRegister(k) \/ Lose(k)

Approve(c) == ApproveRead(c) \/ ApproveWrite(c) \/ ApproveClean(c)

Next ==
  \/ \E c \in Client :
       \/ Launch(c) \/ Setup(c) \/ Quit(c)
       \/ RequestExpires(c) \/ ChallengeExpires(c)
       \/ Approve(c) \/ ApproveKilled(c) \/ Reject(c) \/ AllowlistAdd(c)
       \/ RevokeStatus(c) \/ RevokeDevice(c)
  \/ \E k \in wire : Handle(k)

Spec == Init /\ [][Next]_vars

(***************************************************************************)
(* Fairness.  A running client goes on; each request succeeds eventually,  *)
(* answer included, if it is made again and again while the relay would    *)
(* grant it, and old copies of it do not stay in flight for ever; the      *)
(* administrator approves a client whose requests keep coming in; and it   *)
(* does not go on for ever that the challenge a client is answering        *)
(* expires or is replaced by a late copy of the request for it.            *)
(***************************************************************************)
Reaches(c, pc) == job'[c].pc = pc
Undisturbed(c) == used'[c] \/ (challenge'[c] = challenge[c] /\ (c \in lapsed' => c \in lapsed))

Fairness ==
  \A c \in Client :
    /\ WF_vars(Launch(c)) /\ WF_vars(Setup(c))
    /\ SF_vars(Join(c)) /\ SF_vars(AskChallenge(c)) /\ SF_vars(SaveToken(c))
    /\ SF_vars(HandleEnroll([op |-> "enroll", by |-> c]) /\ Reaches(c, "waiting"))
    /\ SF_vars(HandleChallenge([op |-> "challenge", by |-> c]) /\ Reaches(c, "challenged"))
    /\ SF_vars(\E k \in wire : k.by = c /\ HandleRegister(k) /\ Reaches(c, "saving"))
    /\ WF_vars(\E k \in wire : k.by = c /\ k.op = "register" /\ ~Awaits(k) /\ Lose(k))
    /\ SF_vars(ApproveRead(c)) /\ SF_vars(ApproveWrite(c)) /\ WF_vars(ApproveClean(c))
    /\ <>[][challenge[c] # job[c].nonce \/ Undisturbed(c)]_vars

(* The user who waits for long ends the program and starts it again. *)
Impatience == \A c \in Client : SF_vars(job[c].pc = "waiting" /\ Quit(c))

FairSpec == Spec /\ Fairness
RestartSpec == FairSpec /\ Impatience
-----------------------------------------------------------------------------
TypeOK ==
  /\ requests \in [Client -> {"none", "live", "expired"}]
  /\ status \in [Client -> {"none", "active", "revoked"}]
  /\ used \in [Client -> BOOLEAN]
  /\ challenge \in [Client -> Nonce \cup {NoNonce}]
  /\ lapsed \in SUBSET Client
  /\ device \in [Client -> Address \cup {NoDevice}]
  /\ token \in [Client -> Token \cup {NoToken}]
  /\ approving \in [Client -> {"no", "write", "clean"}]
  /\ dropping \in SUBSET Client
  /\ wire \in SUBSET Call
  /\ job \in [Client -> Job]
  /\ session \in [Client -> Token \cup {NoToken}]

(* A client that has its session is not locked out by what is still in     *)
(* flight: while it has a device at the relay, the token of the device is  *)
(* the one in its session file.  A copy of its registration, handled late, *)
(* would put a token there that nobody ever gets.                          *)
TokenWorks ==
  \A c \in Client : session[c] # NoToken /\ device[c] # NoDevice => token[c] = session[c]

(* The registered devices and the allowlist behave as RelayService takes   *)
(* them to: one registration for each approval, none for a revoked client. *)
Access == INSTANCE RelayAccess WITH
  access <- [c \in Client |-> IF status[c] # "active" THEN status[c]
                              ELSE IF used[c] THEN "used" ELSE "approved"]

AccessSpec == Access!AccessSpec

(* The user who starts the program again when it waits too long gets in:   *)
(* whatever was lost, expired or killed on the way, no client is stuck for *)
(* good, unless it is revoked.                                             *)
EventuallyEnrolled ==
  \A c \in Client : <>(status[c] = "revoked") \/ <>(session[c] # NoToken)

=============================================================================
