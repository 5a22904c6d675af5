--------------------------- MODULE MCRelayService ---------------------------
(* Instances of RelayService for TLC. *)
EXTENDS RelayService

CONSTANTS a, r, x, m1, m2

(* a writes to an address both clients may have. *)
ToAddress == {<<a, x>>}
=============================================================================
