----------------------------- MODULE MCUiWorker -----------------------------
(* Instances of UiWorker for TLC. *)
EXTENDS UiWorker, TLC

CONSTANTS a, b, p, q

Symmetry == Permutations(Profile) \cup Permutations(Peer)
=============================================================================
