--------------------------- MODULE MCSignalStore ---------------------------
(* Instances of SignalStore for TLC. *)
EXTENDS SignalStore, TLC

CONSTANTS bob, carol, m1, m2, m3

Symmetry == Permutations(Peer) \cup Permutations(Msg)
=============================================================================
