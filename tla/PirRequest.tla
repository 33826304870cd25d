----------------------------- MODULE PirRequest -----------------------------
(***************************************************************************)
(* The request phase of private information retrieval, requestphase in     *)
(* apps/pir/main.go: for every row of the database a worker masks the      *)
(* encrypted query with the position of the row, spreads what is left over *)
(* all slots (inner sum) and multiplies it with the row.  The main         *)
(* goroutine adds up the partial results after all workers have ended.     *)
(*                                                                         *)
(* Each worker has one ciphertext tmp that it uses for all its tasks.      *)
(***************************************************************************)
EXTENDS Integers

CONSTANTS N,           \* number of parties, each of which stores a row (arg1)
          NGoRoutine,  \* number of workers (arg2)
          QueryIndex   \* the row to retrieve (2 in main)

ASSUME NAssumption == N \in Nat \ {0}
ASSUME NGoRoutineAssumption == NGoRoutine \in Nat \ {0}
ASSUME QueryIndexAssumption == QueryIndex \in Nat

Row == 0 .. N - 1
Worker == 1 .. NGoRoutine

VARIABLES
  next,     \* index of the next row that is handed out
  open,     \* is the channel tasks open?
  task,     \* task[w]: the row of the task of worker w
  stage,    \* stage[w]: what worker w does next
  tmp,      \* tmp[w]: content of the ciphertext of worker w
  partial,  \* partial[i]: content of encPartial[i]
  workers,  \* the WaitGroup of the workers
  added,    \* how many partial results have been added
  result,   \* result[i]: how often row i is in resultDeg2
  returned  \* has requestphase returned?

vars == <<next, open, task, stage, tmp, partial, workers, added, result, returned>>

\* A masked query holds one in the slot of the query if that is the slot of
\* the mask, else zero; after the inner sum it holds that value in all slots.
Fresh == [value |-> 0, slots |-> "none"]
\* Faulty: the slots of the masks are off by one.
MaskedNext(i) == [value |-> IF i + 1 = QueryIndex THEN 1 ELSE 0, slots |-> "one"]
Masked(i) == [value |-> IF i = QueryIndex THEN 1 ELSE 0, slots |-> "one"]
Spread(t) == [t EXCEPT !.slots = "all"]

\* What multiplying t with row i gives: the row as a whole, or parts of it.
Times(t, i) == [row |-> i, factor |-> t.value, slots |-> t.slots]
Blank == [row |-> 0, factor |-> 0, slots |-> "none"]

TypeOK ==
  /\ next \in 0 .. N
  /\ open \in BOOLEAN
  /\ task \in [Worker -> Row]
  /\ stage \in [Worker -> {"receive", "mask", "sum", "multiply", "down"}]
  /\ tmp \in [Worker -> [value : {0, 1}, slots : {"none", "one", "all"}]]
  /\ partial \in [Row -> [row : Row, factor : {0, 1}, slots : {"none", "one", "all"}]]
  /\ workers \in 0 .. NGoRoutine
  /\ added \in 0 .. N
  /\ result \in [Row -> Nat]
  /\ returned \in BOOLEAN

Init ==
  /\ next = 0
  /\ open = TRUE
  /\ task = [w \in Worker |-> 0]
  /\ stage = [w \in Worker |-> "receive"]
  /\ tmp = [w \in Worker |-> Fresh]
  /\ partial = [i \in Row |-> Blank]
  /\ workers = NGoRoutine
  /\ added = 0
  /\ result = [i \in Row |-> 0]
  /\ returned = FALSE

-----------------------------------------------------------------------------
(* The main goroutine.                                                     *)

\* Hand the next row to a worker that waits: tasks has no buffer.
Hand(w) ==
  /\ next < N
  /\ stage[w] = "receive"
  /\ task' = [task EXCEPT ![w] = next]
  /\ stage' = [stage EXCEPT ![w] = "mask"]
  /\ next' = next + 1
  /\ UNCHANGED <<open, tmp, partial, workers, added, result, returned>>

CloseTasks ==
  /\ next = N
  /\ open
  /\ open' = FALSE
  /\ UNCHANGED <<next, task, stage, tmp, partial, workers, added, result, returned>>

\* Faulty: the sum does not wait for the workers.
AddPartialAtOnce ==
  /\ ~open
  /\ added < N
  /\ result' = [result EXCEPT ![partial[added].row] = @ + partial[added].factor]
  /\ added' = added + 1
  /\ UNCHANGED <<next, open, task, stage, tmp, partial, workers, returned>>

\* After workers.Wait(): one iteration of the final sum.
AddPartial ==
  /\ ~open
  /\ workers = 0
  /\ added < N
  /\ result' = [result EXCEPT ![partial[added].row] = @ + partial[added].factor]
  /\ added' = added + 1
  /\ UNCHANGED <<next, open, task, stage, tmp, partial, workers, returned>>

\* Relinearize the sum and return it.
Return ==
  /\ added = N
  /\ ~returned
  /\ returned' = TRUE
  /\ UNCHANGED <<next, open, task, stage, tmp, partial, workers, added, result>>

-----------------------------------------------------------------------------
(* The workers.                                                            *)

\* evaluator.Mul(query, mask, tmp)
Mask(w) ==
  /\ stage[w] = "mask"
  /\ tmp' = [tmp EXCEPT ![w] = Masked(task[w])]
  /\ stage' = [stage EXCEPT ![w] = "sum"]
  /\ UNCHANGED <<next, open, task, partial, workers, added, result, returned>>

\* evaluator.InnerSum(tmp, tmp)
InnerSum(w) ==
  /\ stage[w] = "sum"
  /\ tmp' = [tmp EXCEPT ![w] = Spread(@)]
  /\ stage' = [stage EXCEPT ![w] = "multiply"]
  /\ UNCHANGED <<next, open, task, partial, workers, added, result, returned>>

\* evaluator.Mul(tmp, row, res)
Multiply(w) ==
  /\ stage[w] = "multiply"
  /\ partial' = [partial EXCEPT ![task[w]] = Times(tmp[w], task[w])]
  /\ stage' = [stage EXCEPT ![w] = "receive"]
  /\ UNCHANGED <<next, open, task, tmp, workers, added, result, returned>>

\* Faulty: the worker does not report its end.
DownUnreported(w) ==
  /\ stage[w] = "receive"
  /\ ~open
  /\ stage' = [stage EXCEPT ![w] = "down"]
  /\ UNCHANGED <<next, open, task, tmp, partial, workers, added, result, returned>>

\* The channel is closed: the worker leaves its loop.
Down(w) ==
  /\ stage[w] = "receive"
  /\ ~open
  /\ stage' = [stage EXCEPT ![w] = "down"]
  /\ workers' = workers - 1
  /\ UNCHANGED <<next, open, task, tmp, partial, added, result, returned>>

Step(w) == Hand(w) \/ Mask(w) \/ InnerSum(w) \/ Multiply(w) \/ Down(w)

Next == CloseTasks \/ AddPartial \/ Return \/ \E w \in Worker : Step(w)

Spec == Init /\ [][Next]_vars

-----------------------------------------------------------------------------
(* Properties.                                                             *)

\* No partial result is read before it is final: when the sum starts, every
\* row has been multiplied with its own mask, spread over all slots.
PartialsFinal ==
  added > 0 => \A i \in Row : partial[i] = Times(Spread(Masked(i)), i)
=============================================================================
