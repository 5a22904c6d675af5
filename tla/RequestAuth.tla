----------------------------- MODULE RequestAuth -----------------------------
(***************************************************************************)
(* The replay window of the relay's signed requests (relay/src/auth.rs,    *)
(* verify_signature): a request carries its client's time and a nonce, the *)
(* relay compares the time with its own clock, waits for the database      *)
(* mutex, forgets the nonces that have expired and records the new one.    *)
(*                                                                         *)
(* The time is compared before the mutex is taken, and the nonce looked up *)
(* after, so a request is verified in two steps with a wait in between.    *)
(* The same signed request may arrive any number of times (a WebSocket     *)
(* frame is verified by the same function).                                *)
(*                                                                         *)
(* Clock is the relay's now(), in seconds; it does not go backwards.       *)
(***************************************************************************)
EXTENDS Naturals, FiniteSets

CONSTANTS
  Client,
  Nonce,
  Window,     \* 300: how far a timestamp may be from the relay's clock
  NonceTtl,   \* 600: how long a nonce is kept
  Skew,       \* how far a client's clock is from the relay's
  MaxWait,    \* how long a handler waits for the mutex, at most
  MaxClock    \* bound on the clock

(* What 600 = 2 * 300 is good for: clocks that are off and waits that      *)
(* together stay within the other half of the time a nonce is kept.        *)
ASSUME WindowAssumption ==
  /\ Window \in Nat /\ NonceTtl \in Nat /\ Skew \in Nat /\ MaxWait \in Nat
  /\ MaxClock \in Nat
  /\ Window + Skew + MaxWait <= NonceTtl

VARIABLES
  clock,      \* now() at the relay
  signed,     \* the requests clients have signed
  checking,   \* copies of requests that wait for the mutex, and since when
  nonces,     \* the rows of `request_nonces`
  accepted    \* history variable: how often each request was accepted

vars == <<clock, signed, checking, nonces, accepted>>

(* The times a client may sign with. *)
SignTime == 0..(MaxClock + Skew)

Request == [by : Client, nonce : Nonce, ts : SignTime]
NonceRow == [by : Client, nonce : Nonce, expires : Nat]

(* Two clocks that are at most d apart. *)
Close(s, t, d) == s <= t + d /\ t <= s + d

(* A client signs its request with its own time and a new random nonce. *)
Sign(c, n, t) ==
  /\ \A r \in signed : ~(r.by = c /\ r.nonce = n)
  /\ Close(t, clock, Skew)
  /\ signed' = signed \cup {[by |-> c, nonce |-> n, ts |-> t]}
  /\ UNCHANGED <<clock, checking, nonces, accepted>>

(* A copy of the request arrives and its timestamp is near enough. *)
Arrive(r) ==
  /\ r \in signed
  /\ Close(r.ts, clock, Window)
  /\ checking' = checking \cup {[req |-> r, since |-> clock]}
  /\ UNCHANGED <<clock, signed, nonces, accepted>>

(* Mutant of Purged: nonces that expire now are gone already. *)
PurgedEarly == {w \in nonces : w.expires > clock}

(* DELETE FROM request_nonces WHERE expires_at < now. *)
Purged == {w \in nonces : w.expires >= clock}

(* PRIMARY KEY (client_id, nonce). *)
Recorded(r) == \E w \in Purged : w.by = r.by /\ w.nonce = r.nonce

(* Under the mutex: purge, INSERT OR IGNORE, and 409 if it was ignored.    *)
Accept(k) ==
  /\ k \in checking /\ ~Recorded(k.req)
  /\ nonces' = Purged \cup {[by |-> k.req.by, nonce |-> k.req.nonce,
                             expires |-> clock + NonceTtl]}
  /\ accepted' = [accepted EXCEPT ![k.req] = @ + 1]
  /\ checking' = checking \ {k}
  /\ UNCHANGED <<clock, signed>>

Refuse(k) ==
  /\ k \in checking /\ Recorded(k.req)
  /\ nonces' = Purged
  /\ checking' = checking \ {k}
  /\ UNCHANGED <<clock, signed, accepted>>

(* The client hangs up while the handler waits; or the relay restarts. *)
Drop(k) ==
  /\ k \in checking
  /\ checking' = checking \ {k}
  /\ UNCHANGED <<clock, signed, nonces, accepted>>

Tick ==
  /\ clock < MaxClock
  /\ \A k \in checking : clock < k.since + MaxWait
  /\ clock' = clock + 1
  /\ UNCHANGED <<signed, checking, nonces, accepted>>

Init ==
  /\ clock = 0
  /\ signed = {} /\ checking = {} /\ nonces = {}
  /\ accepted = [r \in Request |-> 0]

Next ==
  \/ \E c \in Client : \E n \in Nonce : \E t \in SignTime : Sign(c, n, t)
  \/ \E r \in signed : Arrive(r)
  \/ \E k \in checking : Accept(k) \/ Refuse(k) \/ Drop(k)
  \/ Tick

Spec == Init /\ [][Next]_vars
-----------------------------------------------------------------------------
TypeOK ==
  /\ clock \in 0..MaxClock
  /\ signed \in SUBSET Request
  /\ checking \in SUBSET [req : signed, since : Nat]
  /\ nonces \in SUBSET NonceRow
  /\ accepted \in [Request -> Nat]

(* A signed request is accepted once at most, however often and however    *)
(* late its copies arrive ("replay protection for registration and control *)
(* requests", RELAY_SERVER_PLAN 9).                                        *)
AcceptedOnce == \A r \in signed : accepted[r] <= 1

=============================================================================
