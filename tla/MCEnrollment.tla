----------------------------- MODULE MCEnrollment -----------------------------
(* Instances of Enrollment for TLC. *)
EXTENDS Enrollment, TLC

CONSTANTS a, b, x, n1, n2, n3, t1, t2, t3

(* Both clients chose the same name. *)
SameAddress == [c \in Client |-> x]

Symmetry == Permutations(Nonce) \cup Permutations(Token)
=============================================================================
