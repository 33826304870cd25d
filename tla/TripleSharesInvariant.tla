----------------------- MODULE TripleSharesInvariant -----------------------
(***************************************************************************)
(* The inductive invariant of TripleShares: which sums, modulo T, decAggr  *)
(* and c hold while the answers come in.                                   *)
(***************************************************************************)
EXTENDS TripleShares

Residues == 0 .. T - 1
Vectors == [1 .. N -> Residues]

SecretsTypeOK ==
  a \in [Parties -> Vectors] /\ b \in [Parties -> Vectors] /\ masks \in [Pairs -> Vectors]

SharesTypeOK ==
  /\ SecretsTypeOK
  /\ c \in [Parties -> Vectors] /\ decAggr \in [Parties -> Vectors]
  /\ triples \in [Parties -> Seq([A : Residues, B : Residues, C : Residues])]
  /\ received \in [Parties -> SUBSET Parties]
  /\ finished \in SUBSET Parties

\* The mask of p for r at the place i; a party has none for itself.
Mask(p, r, i) == IF p = r THEN 0 ELSE masks[<<p, r>>][i]
Masks(p, i) == [r \in Parties |-> Mask(p, r, i)]

\* What each party contributes to the share of p: the others with their
\* answers, p with its own product.
Terms(p, i) == [r \in Parties |-> a[p][i] * b[r][i] + Mask(r, p, i)]

\* decAggr is the sum of the answers received.
AnswersSummed ==
  \A p \in Parties : \A i \in 1 .. N :
     decAggr[p][i] = SumFunctionOnSet(Terms(p, i), received[p]) % T

\* c is the own product without the masks for the others, and in the end
\* with all the answers.
SharesKept ==
  \A p \in Parties : \A i \in 1 .. N :
     LET used == IF p \in finished THEN received[p] ELSE {}
     IN  c[p][i] = (SumFunctionOnSet(Terms(p, i), used \cup {p})
                    - SumFunctionOnSet(Masks(p, i), Parties)) % T

\* A party that has finished has used all the answers, and its triples are
\* made of its vectors.
SharesDelivered ==
  \A p \in finished :
     /\ received[p] = Peers(p)
     /\ Len(triples[p]) <= N
     /\ \A i \in 1 .. Len(triples[p]) :
           triples[p][i] = [A |-> a[p][i], B |-> b[p][i], C |-> c[p][i]]

SharesInv ==
  /\ SharesTypeOK
  /\ \A p \in Parties : received[p] \subseteq Peers(p)
  /\ AnswersSummed
  /\ SharesKept
  /\ SharesDelivered
=============================================================================
