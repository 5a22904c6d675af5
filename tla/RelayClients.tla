---------------------------- MODULE RelayClients ----------------------------
(* The clients of a relay, shared by the modules about its message queue   *)
(* and its access control.                                                 *)
CONSTANT
  Client      \* relay client ids, the same strings in every table
=============================================================================
