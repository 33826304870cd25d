---------------------------- MODULE TripleShares ----------------------------
(***************************************************************************)
(* The values behind the pairwise protocol: what TripleExchange counts as  *)
(* answers, with the vectors modulo q of apps/tpl/utils.go and the         *)
(* delivery of the triples at the end of Run (apps/tpl/offline_he.go).     *)
(*                                                                         *)
(* A ciphertext is the vector that it decrypts to.  CRed and BRed, the     *)
(* reductions of the library, are modelled by what they return for the     *)
(* arguments they get here, uint64 by the integers modulo Word.            *)
(***************************************************************************)
EXTENDS TripleExchange, Integers, Sequences, FiniteSetsExt

CONSTANTS
  T,        \* the modulus of the triples (params.T())
  N,        \* length of the vectors (params.N())
  Word,     \* 2^64 in the code
  Samples,  \* Samples[p]: bound, the vectors that p may sample
  Asked     \* bound, the arguments nTriple of Run

ASSUME TAssumption == T \in Nat \ {0, 1}
ASSUME NAssumption == N \in Nat \ {0}
ASSUME WordAssumption == Word \in Nat /\ T + T <= Word /\ N <= Word
ASSUME SamplesAssumption == \A p \in Parties : Samples[p] \subseteq [1 .. N -> 0 .. T - 1]
ASSUME AskedAssumption == Asked \subseteq 0 .. Word - 1

CRed(x) == IF x >= T THEN x - T ELSE x
BRed(x, y) == (x * y) % T

addVec(x, y) == [i \in 1 .. N |-> CRed((x[i] + y[i]) % Word)]
\* Faulty: the difference is taken in machine words.
subVecWord(x, y) == [i \in 1 .. N |-> CRed((x[i] - y[i]) % Word)]

subVec(x, y) == [i \in 1 .. N |-> CRed((x[i] + (T - y[i])) % Word)]
mulVec(x, y) == [i \in 1 .. N |-> BRed(x[i], y[i])]

VARIABLES
  a, b, c,  \* the vectors of the round of each party
  masks,    \* masks[<<p, r>>]: the mask that p has sampled for r
  decAggr,  \* the sum of the answers, as it decrypts
  triples   \* triples[p]: what p has put into the channel Triples

secrets == <<a, b, masks>>

-----------------------------------------------------------------------------
Pairs == {pair \in Parties \X Parties : pair[1] # pair[2]}
AnySample == UNION {Samples[p] : p \in Parties}

\* genInput: sample, and subtract all the masks from the own product.
SharesInit ==
  /\ ExchangeInit
  /\ a \in {v \in [Parties -> AnySample] : \A p \in Parties : v[p] \in Samples[p]}
  /\ b \in {v \in [Parties -> AnySample] : \A p \in Parties : v[p] \in Samples[p]}
  /\ masks \in {v \in [Pairs -> AnySample] : \A pair \in Pairs : v[pair] \in Samples[pair[1]]}
  /\ c = [p \in Parties |-> FoldSet(LAMBDA r, v : subVec(v, masks[<<p, r>>]),
                                    mulVec(a[p], b[p]), Peers(p))]
  /\ decAggr = [p \in Parties |-> [i \in 1 .. N |-> 0]]
  /\ triples = [p \in Parties |-> <<>>]

\* What the answer of p to the query of r decrypts to.
AnswerVec(p, r) == addVec(mulVec(a[r], b[p]), masks[<<p, r>>])

AnswerQuery(p, r) == GiveAnswer(p, r) /\ UNCHANGED <<secrets, c, decAggr, triples>>

\* Faulty: the counter is tested before it is decremented.
NeededBefore(nTriple, k) == (nTriple - k + 1) % Word

\* The unsigned counter of the loop after k triples.
Needed(nTriple, k) == (nTriple - k) % Word

\* How many triples the loop puts into the channel.
Count(nTriple) ==
  CHOOSE k \in 1 .. N : /\ k = N \/ Needed(nTriple, k) = 0
                        /\ \A j \in 1 .. k - 1 : Needed(nTriple, j) # 0

\* Add the answer; if it is the last one, decrypt, deliver and return.
CollectAnswer(p, r, nTriple) ==
  /\ Collect(p, r)
  /\ LET aggr == addVec(decAggr[p], AnswerVec(r, p))
         share == addVec(c[p], aggr)
     IN  /\ decAggr' = [decAggr EXCEPT ![p] = aggr]
         /\ \/ p \notin finished' /\ UNCHANGED <<c, triples>>
            \/ /\ p \in finished'
               /\ c' = [c EXCEPT ![p] = share]
               /\ triples' = [triples EXCEPT ![p] =
                    [i \in 1 .. Count(nTriple) |-> [A |-> a[p][i], B |-> b[p][i], C |-> share[i]]]]
  /\ UNCHANGED secrets

SharesNext ==
  \E p \in Parties : \E r \in Peers(p) :
     AnswerQuery(p, r) \/ \E nTriple \in Asked : CollectAnswer(p, r, nTriple)

SharesSpec == SharesInit /\ [][SharesNext]_<<exchangeVars, secrets, c, decAggr, triples>>

-----------------------------------------------------------------------------
(* Properties.                                                             *)

\* Whatever was sampled and in whatever order the answers came, the triples
\* that all parties have delivered at the same place are additive shares of
\* a product, modulo T, and every number is reduced.
ProductShared ==
  finished = Parties =>
     \A i \in 1 .. N : (\A p \in Parties : i <= Len(triples[p])) =>
        LET A == [p \in Parties |-> triples[p][i].A]
            B == [p \in Parties |-> triples[p][i].B]
            C == [p \in Parties |-> triples[p][i].C]
        IN  /\ SumFunction(C) % T = (SumFunction(A) * SumFunction(B)) % T
            /\ C \in [Parties -> 0 .. T - 1]

\* A party delivers as many triples as it was asked for, as far as they go,
\* and all of them if it was asked for none; never more than Triples holds,
\* which nobody reads before Run has returned.
DeliveredCount ==
  [][\A p \in Parties : \A r \in Peers(p) : \A nTriple \in Asked :
       p \in finished' \ finished /\ CollectAnswer(p, r, nTriple) =>
          Len(triples'[p]) = IF nTriple \in 1 .. N THEN nTriple ELSE N]_triples
=============================================================================
