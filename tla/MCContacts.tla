----------------------------- MODULE MCContacts -----------------------------
(* Instances of Contacts for TLC: a and b have names of their own, c has   *)
(* the same display name as b.  Every name has a file of its own.          *)
EXTENDS Contacts, TLC

CONSTANTS a, b, c, alice, bob, r1, r2

Names == a :> alice @@ b :> bob @@ c :> bob
Files == [n \in Name |-> n]

(* One request each way, from and to the two with the same name. *)
BothWays == r1 :> {<<a, b>>} @@ r2 :> {<<c, a>>}

(* What a may paste. *)
SameName == {<<a, c>>}
=============================================================================
