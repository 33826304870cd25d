------------------------------- MODULE PsiEval -------------------------------
(***************************************************************************)
(* The evaluation phase of private set intersection, evalPhase in          *)
(* apps/psi/main.go: the encrypted inputs are multiplied along a binary    *)
(* tree of levels by a pool of worker goroutines.  The main goroutine      *)
(* hands out the products of one level over an unbuffered channel and      *)
(* waits for all of them before it goes on to the next level.              *)
(*                                                                         *)
(* A ciphertext is symbolic: how often each party's input is a factor, and *)
(* its degree (2 after a multiplication, 1 after relinearization).  A      *)
(* worker multiplies and relinearizes in two steps, into the ciphertext    *)
(* that the next level reads.                                              *)
(***************************************************************************)
EXTENDS Integers, FiniteSets

CONSTANTS N,          \* number of parties (arg1)
          NGoRoutine  \* number of workers (arg2)

ASSUME NAssumption == N \in Nat \ {0}
ASSUME NGoRoutineAssumption == NGoRoutine \in Nat \ {0}

Input == 0 .. N - 1
Worker == 1 .. NGoRoutine

\* Half[i] is the length of encLvls[i], each half the one before.
Half[i \in 0 .. N] == IF i = 0 THEN N ELSE Half[i - 1] \div 2
Last == CHOOSE i \in 0 .. N : Half[i] = 1
Length(i) == Half[i]
Level == 0 .. Last
Places == {p \in Level \X Input : p[2] < Length(p[1])}

VARIABLES
  level,    \* the level whose products are handed out
  next,     \* index of the next product of this level
  wg,       \* the WaitGroup of this level
  task,     \* task[w]: the place of the result worker w computes, or Idle
  stage,    \* stage[w]: what worker w does next with its task
  factors,  \* factors[place]: how often each input is a factor
  degree,   \* degree[place] of the ciphertext, 0 before the first use
  open,     \* is the channel tasks open?
  workers,  \* the WaitGroup of the workers
  returned  \* has evalPhase returned?

pool == <<level, next, wg, task, stage, open, workers, returned>>
vars == <<pool, factors, degree>>

Idle == <<-1, -1>>
None == [k \in Input |-> 0]
Only(i) == [k \in Input |-> IF k = i THEN 1 ELSE 0]

\* The two operands of the product at a place.
Operand1(place) == <<place[1] - 1, 2 * place[2]>>
\* Faulty: both operands are the same.
OperandTwice(place) == <<place[1] - 1, 2 * place[2]>>
Operand2(place) == <<place[1] - 1, 2 * place[2] + 1>>

TypeOK ==
  /\ level \in Level
  /\ next \in 0 .. N
  /\ wg \in 0 .. N
  /\ task \in [Worker -> Places \cup {Idle}]
  /\ stage \in [Worker -> {"receive", "multiply", "relinearize", "done", "down"}]
  /\ factors \in [Places -> [Input -> Nat]]
  /\ degree \in [Places -> 0 .. 2]
  /\ open \in BOOLEAN
  /\ workers \in 0 .. NGoRoutine
  /\ returned \in BOOLEAN

\* The workers are spawned and the products of the first level are counted.
PoolInit ==
  /\ level = 0
  /\ next = 0
  /\ wg = IF Last > 0 THEN Length(1) ELSE 0
  /\ task = [w \in Worker |-> Idle]
  /\ stage = [w \in Worker |-> "receive"]
  /\ open = TRUE
  /\ workers = NGoRoutine
  /\ returned = FALSE

\* encPhase has encrypted all the inputs; the other ciphertexts are new.
Init ==
  /\ PoolInit
  /\ factors = [p \in Places |-> IF p[1] = 0 THEN Only(p[2]) ELSE None]
  /\ degree = [p \in Places |-> IF p[1] = 0 THEN 1 ELSE 0]

-----------------------------------------------------------------------------
(* The main goroutine.                                                     *)

\* Hand the next product to a worker that waits: tasks has no buffer.
Hand(w) ==
  /\ level < Last
  /\ next < Length(level + 1)
  /\ stage[w] = "receive"
  /\ task' = [task EXCEPT ![w] = <<level + 1, next>>]
  /\ stage' = [stage EXCEPT ![w] = "multiply"]
  /\ next' = next + 1
  /\ UNCHANGED <<level, wg, open, workers, returned, factors, degree>>

\* Faulty: the main goroutine does not wait for the level.
NextLevelAtOnce ==
  /\ level < Last
  /\ next = Length(level + 1)
  /\ level' = level + 1
  /\ next' = 0
  /\ wg' = IF level + 1 < Last THEN Length(level + 2) ELSE 0
  /\ UNCHANGED <<task, stage, open, workers, returned, factors, degree>>

\* wg.Wait() lets the main goroutine go on to the next level.
NextLevel ==
  /\ level < Last
  /\ next = Length(level + 1)
  /\ wg = 0
  /\ level' = level + 1
  /\ next' = 0
  /\ wg' = IF level + 1 < Last THEN Length(level + 2) ELSE 0
  /\ UNCHANGED <<task, stage, open, workers, returned, factors, degree>>

CloseTasks ==
  /\ level = Last
  /\ open
  /\ open' = FALSE
  /\ UNCHANGED <<level, next, wg, task, stage, workers, returned, factors, degree>>

Return ==
  /\ ~open
  /\ workers = 0
  /\ ~returned
  /\ returned' = TRUE
  /\ UNCHANGED <<level, next, wg, task, stage, open, workers, factors, degree>>

-----------------------------------------------------------------------------
(* The workers.                                                            *)

\* evaluator.Mul(op1, op2, res)
Multiply(w) ==
  /\ stage[w] = "multiply"
  /\ LET res == task[w]
         f == factors[Operand1(res)]
         g == factors[Operand2(res)]
     IN  /\ factors' = [factors EXCEPT ![res] = [k \in Input |-> f[k] + g[k]]]
         /\ degree' = [degree EXCEPT ![res] = 2]
  /\ stage' = [stage EXCEPT ![w] = "relinearize"]
  /\ UNCHANGED <<level, next, wg, task, open, workers, returned>>

\* evaluator.Relinearize(res, res)
Relinearize(w) ==
  /\ stage[w] = "relinearize"
  /\ degree' = [degree EXCEPT ![task[w]] = 1]
  /\ stage' = [stage EXCEPT ![w] = "done"]
  /\ UNCHANGED <<level, next, wg, task, open, workers, returned, factors>>

\* Faulty: Done is called again and again for one task.
DoneAgain(w) ==
  /\ stage[w] = "done"
  /\ wg' = wg - 1
  /\ UNCHANGED <<level, next, task, stage, open, workers, returned, factors, degree>>

\* task.wg.Done()
Done(w) ==
  /\ stage[w] = "done"
  /\ wg' = wg - 1
  /\ task' = [task EXCEPT ![w] = Idle]
  /\ stage' = [stage EXCEPT ![w] = "receive"]
  /\ UNCHANGED <<level, next, open, workers, returned, factors, degree>>

\* Faulty: the worker does not report its end.
DownUnreported(w) ==
  /\ stage[w] = "receive"
  /\ ~open
  /\ stage' = [stage EXCEPT ![w] = "down"]
  /\ UNCHANGED <<level, next, wg, task, open, workers, returned, factors, degree>>

\* The channel is closed: the worker leaves its loop.
Down(w) ==
  /\ stage[w] = "receive"
  /\ ~open
  /\ stage' = [stage EXCEPT ![w] = "down"]
  /\ workers' = workers - 1
  /\ UNCHANGED <<level, next, wg, task, open, returned, factors, degree>>

Step(w) == Hand(w) \/ Multiply(w) \/ Relinearize(w) \/ Done(w) \/ Down(w)

Next == NextLevel \/ CloseTasks \/ Return \/ \E w \in Worker : Step(w)

Spec == Init /\ [][Next]_vars

-----------------------------------------------------------------------------
(* Properties.                                                             *)

Working(w) == stage[w] \in {"multiply", "relinearize", "done"}

\* No data race on a ciphertext: while a worker has a task, no other worker
\* writes what it reads or writes.
NoSharedCiphertext ==
  \A v, w \in Worker : v # w /\ Working(v) /\ Working(w) =>
     task[v] \notin {task[w], Operand1(task[w]), Operand2(task[w])}

\* The inputs below a place: a place of level l has 2^l of them.
Width[l \in Nat] == IF l = 0 THEN 1 ELSE 2 * Width[l - 1]
Below(p) == p[2] * Width[p[1]] .. (p[2] + 1) * Width[p[1]] - 1

\* The ciphertext has been relinearized and holds the inputs below, each once.
Product(p) == [k \in Input |-> IF k \in Below(p) THEN 1 ELSE 0]
Finished(p) == degree[p] = 1 /\ factors[p] = Product(p)

\* A worker never multiplies an unfinished ciphertext.
OperandsFinished ==
  \A w \in Worker : stage[w] = "multiply" =>
     Finished(Operand1(task[w])) /\ Finished(Operand2(task[w]))
=============================================================================
