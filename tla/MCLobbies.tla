------------------------------ MODULE MCLobbies ------------------------------
(* Instances of Lobbies for TLC: the last two of the peers have names that *)
(* make the same file name.                                                *)
EXTENDS Lobbies, TLC

LastTwoShare == [p \in 1 .. Peers |-> IF p < Peers THEN p ELSE p - 1]
=============================================================================
