---------------------------- MODULE MCMheClient ----------------------------
(* Instances of MheClient for TLC.                                         *)
EXTENDS MheInvariant
=============================================================================
