--------------------------- MODULE TripleExchange ---------------------------
(***************************************************************************)
(* What the pairwise protocol promises, without channels, connections and  *)
(* processes: every party answers every other one once, uses every answer  *)
(* once, and finishes together with the use of its last answer.            *)
(***************************************************************************)
EXTENDS TripleParties

VARIABLES
  answered,  \* answered[p]: the parties whose query p has answered
  received,  \* received[p]: the parties whose answer p has added up
  finished   \* the parties that have their triples

exchangeVars == <<answered, received, finished>>

ExchangeInit ==
  /\ answered = [p \in Parties |-> {}]
  /\ received = [p \in Parties |-> {}]
  /\ finished = {}

GiveAnswer(p, q) ==
  /\ q \notin answered[p]
  /\ answered' = [answered EXCEPT ![p] = @ \cup {q}]
  /\ UNCHANGED <<received, finished>>

\* q has answered p, and p has answered q before it takes that answer.
Collect(p, q) ==
  /\ p \in answered[q] /\ q \in answered[p]
  /\ q \notin received[p]
  /\ received' = [received EXCEPT ![p] = @ \cup {q}]
  /\ finished' = IF received[p] \cup {q} = Peers(p) THEN finished \cup {p} ELSE finished
  /\ UNCHANGED answered

ExchangeNext == \E p \in Parties : \E q \in Peers(p) : GiveAnswer(p, q) \/ Collect(p, q)

ExchangeSpec == ExchangeInit /\ [][ExchangeNext]_exchangeVars

=============================================================================
