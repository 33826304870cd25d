------------------------------ MODULE MCPsiMain -----------------------------
(* Instances of PsiMain for TLC.                                           *)
EXTENDS PsiInvariant
=============================================================================
