----------------------------- MODULE PirInvariant -----------------------------
(***************************************************************************)
(* The inductive invariant of PirMain: where a row is between the moment   *)
(* it is handed out and the moment its partial result is final, what the   *)
(* sum holds so far, and how far the collective phases are in each phase   *)
(* of main.                                                                *)
(***************************************************************************)
EXTENDS PirMain

\* Worker w has taken a row and not yet stored its partial result.
Busy(w) == stage[w] \in {"mask", "sum", "multiply"}

\* The partial result of row i is the row, if it is that of the query, else zero.
Final(i) == partial[i] = Times(Spread(Masked(i)), i)

\* A worker has only rows that were handed out, and its ciphertext tmp belongs
\* to the row it has, although tmp outlives the task.
TaskInv ==
  \A w \in Worker :
     /\ Busy(w) => task[w] < next
     /\ stage[w] = "sum" => tmp[w] = Masked(task[w])
     /\ stage[w] = "multiply" => tmp[w] = Spread(Masked(task[w]))

\* No row is lost: it is final or a worker has it.
RowInv ==
  \A i \in Row : i < next => Final(i) \/ \E w \in Worker : Busy(w) /\ task[w] = i

\* The end of the workers: tasks is closed after the last row was handed out,
\* and the WaitGroup counts the workers that have not left their loop.
PoolInv ==
  /\ ~open => next = N
  /\ \A w \in Worker : stage[w] = "down" => ~open
  /\ workers = Cardinality({w \in Worker : stage[w] # "down"})

\* The sum begins after the last worker, and holds what has been added.
SumInv ==
  /\ added > 0 => ~open /\ workers = 0
  /\ returned => added = N
  /\ result = [i \in Row |-> IF i < added /\ i = QueryIndex THEN 1 ELSE 0]

RequestInv == TypeOK /\ TaskInv /\ RowInv /\ PoolInv /\ SumInv

\* How far the collective phases are, and what main has waited for.
PhaseInv ==
  /\ now = "setup" => phase \in SetupPhases
  /\ now \in {"setup", "encrypt"} => encInputs < N
  /\ now \in {"encrypt", "query", "request", "switch"} => phase = 4 + Galois
  /\ now \in {"decrypt", "finished"} => phase = 5 + Galois
  /\ now \in {"switch", "decrypt", "finished"} => returned
  /\ now = "finished" => output = IF QueryIndex \in Row THEN QueryIndex ELSE 0

IInv ==
  /\ MainTypeOK
  /\ RequestInv
  /\ Keys!CollectiveInv
  /\ PhaseInv
=============================================================================
