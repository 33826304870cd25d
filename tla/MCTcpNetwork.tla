---------------------------- MODULE MCTcpNetwork ----------------------------
(* Instances of TcpNetwork for TLC; the parties are ordered by their IDs,  *)
(* so there is no symmetry to use.                                         *)
EXTENDS TcpNetworkInvariant
=============================================================================
