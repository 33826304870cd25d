--------------------------- MODULE MCRkgProtocol ---------------------------
(* Instances of RkgProtocol for TLC.                                       *)
EXTENDS RkgInvariant
=============================================================================
