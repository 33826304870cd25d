--------------------------- MODULE MCHeTripleGen ---------------------------
(* Instances of HeTripleGen for TLC.                                       *)
EXTENDS HeTripleGenInvariant, FiniteSets, TLC

Symmetry == Permutations(Parties)

\* Bound: the processes that have panicked stop the search at the second one.
MaxPanics == 1
FewPanics == Cardinality({p \in Parties : proc[p] = "panicked"}) <= MaxPanics
=============================================================================
