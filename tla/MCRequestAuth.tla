---------------------------- MODULE MCRequestAuth ----------------------------
(* Instances of RequestAuth for TLC. *)
EXTENDS RequestAuth

CONSTANTS a, b, n1, n2
=============================================================================
