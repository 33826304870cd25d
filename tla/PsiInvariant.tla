----------------------------- MODULE PsiInvariant -----------------------------
(***************************************************************************)
(* The inductive invariant of PsiMain: the workers and the WaitGroup of    *)
(* the level under way, which ciphertexts are finished, the end of the     *)
(* workers, and how far the collective phases are in each phase of main.   *)
(***************************************************************************)
EXTENDS PsiMain

\* The products of the level under way, and those that have not been handed out.
Products == IF level < Last THEN Length(level + 1) ELSE 0

\* A worker has a product of this level that was handed out, and no other
\* worker has it; the WaitGroup counts those not handed out or not done.
LevelInv ==
  /\ next <= Products
  /\ \A w \in Worker :
        /\ Working(w) => /\ level < Last
                         /\ \E j \in 0 .. next - 1 : task[w] = <<level + 1, j>>
        /\ ~Working(w) => task[w] = Idle
  /\ \A v, w \in Worker : v # w /\ Working(v) /\ Working(w) => task[v] # task[w]
  /\ wg = Products - next + Cardinality({w \in Worker : Working(w)})

\* The encrypted inputs and the levels up to the one that is read are finished;
\* a product of the level under way is finished or with a worker.
DataInv ==
  /\ \A p \in Places : p[1] = 0 /\ p[2] < encInputs => Finished(p)
  /\ \A p \in Places : p[1] \in 1 .. level => Finished(p)
  /\ \A p \in Places : p[1] = level + 1 /\ p[2] < next =>
        Finished(p) \/ \E w \in Worker : stage[w] \in {"multiply", "relinearize"} /\ task[w] = p
  /\ \A w \in Worker : stage[w] = "relinearize" => factors[task[w]] = Product(task[w])

\* The end of the workers: tasks is closed after the last level, and the
\* WaitGroup counts the workers that have not left their loop.
PoolInv ==
  /\ ~open => level = Last
  /\ \A w \in Worker : stage[w] = "down" => ~open
  /\ workers = Cardinality({w \in Worker : stage[w] # "down"})
  /\ returned => ~open

EvalInv == TypeOK /\ LevelInv /\ DataInv /\ PoolInv

\* How far the collective phases are, and what main has waited for.
PhaseInv ==
  /\ now = "setup" => phase \in SetupPhases /\ encInputs = 0
  /\ now \in {"encrypt", "eval", "switch"} => phase = 4
  /\ now \in {"check", "finished"} => phase = 5
  /\ now \in {"setup", "encrypt"} =>
        encInputs < N /\ level = 0 /\ next = 0 /\ \A w \in Worker : ~Working(w)
  /\ now \in {"eval", "switch", "check", "finished"} => encInputs = N
  /\ now \in {"switch", "check", "finished"} => returned

\* The expected result is the product of all inputs, and so is the result
\* whenever the inputs fill the tree.
VerdictInv ==
  /\ expRes = IF \A i \in Input : input[i] = 1 THEN 1 ELSE 0
  /\ N = Width[Last] => verdict # "incorrect"

IInv ==
  /\ MainTypeOK
  /\ EvalInv
  /\ Keys!CollectiveInv
  /\ PhaseInv
  /\ VerdictInv
=============================================================================
