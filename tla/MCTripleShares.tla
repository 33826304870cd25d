--------------------------- MODULE MCTripleShares --------------------------
(* An instance of TripleShares for TLC: three parties, the sums of whose   *)
(* samples pass the modulus.  The shares are linear in what is sampled, so *)
(* that few samples per party tell right from wrong.                       *)
EXTENDS TripleSharesInvariant, TLC

MCParties == 0 .. 2
MCSamples == (0 :> {<<4, 2>>, <<0, 3>>}) @@ (1 :> {<<3, 0>>, <<1, 4>>}) @@ (2 :> {<<2, 4>>})
MCAsked == 0 .. 3
=============================================================================
