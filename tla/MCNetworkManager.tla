--------------------------- MODULE MCNetworkManager ----------------------------
(* Small instances of NetworkManager for TLC. *)
EXTENDS NetworkManager

TwoFlows == {1, 2}
================================================================================
