------------------------------ MODULE MCPirMain -----------------------------
(* Instances of PirMain for TLC.                                           *)
EXTENDS PirInvariant
=============================================================================
