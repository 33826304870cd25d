---------------------------- MODULE TripleParties ----------------------------
(* The parties of the pairwise protocol, apps/tpl/offline_he.go: every one *)
(* has all the others as its peers.                                        *)
CONSTANT Parties  \* the processes of one experiment

Peers(p) == Parties \ {p}
=============================================================================
