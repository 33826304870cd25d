------------------------------ MODULE PirProofs ------------------------------
(***************************************************************************)
(* Proofs about PirMain, for all numbers of parties, workers and Galois    *)
(* elements, and all indices of the query.                                 *)
(***************************************************************************)
EXTENDS PirInvariant, FiniteSetTheorems, SequenceTheorems, WellFoundedInduction, TLAPS

KeysProofs == INSTANCE CollectiveProofs WITH Parties <- N, Phases <- PirPhases

-----------------------------------------------------------------------------
(* The request phase.                                                      *)

\* The workers are finitely many.
LEMMA Workers ==
  /\ IsFiniteSet(Worker) /\ Cardinality(Worker) = NGoRoutine /\ NGoRoutine \in Nat \ {0}
  /\ \A S \in SUBSET Worker : IsFiniteSet(S) /\ Cardinality(S) \in 0 .. NGoRoutine
<1>1. NGoRoutine \in Nat \ {0} /\ IsFiniteSet(Worker) /\ Cardinality(Worker) = NGoRoutine
  BY NGoRoutineAssumption, FS_Interval DEF Worker
<1>2. ASSUME NEW S \in SUBSET Worker PROVE IsFiniteSet(S) /\ Cardinality(S) \in 0 .. NGoRoutine
  BY <1>1, FS_Subset, FS_CardinalityType
<1>. QED BY <1>1, <1>2

\* What the steps of a task put together is the final partial result.
LEMMA TaskData ==
  ASSUME NEW i \in Row
  PROVE  /\ Masked(i) \in [value : {0, 1}, slots : {"none", "one", "all"}]
         /\ Spread(Masked(i)) = [value |-> IF i = QueryIndex THEN 1 ELSE 0, slots |-> "all"]
         /\ Spread(Masked(i)) \in [value : {0, 1}, slots : {"none", "one", "all"}]
         /\ Times(Spread(Masked(i)), i) =
              [row |-> i, factor |-> IF i = QueryIndex THEN 1 ELSE 0, slots |-> "all"]
         /\ Times(Spread(Masked(i)), i) \in
              [row : Row, factor : {0, 1}, slots : {"none", "one", "all"}]
<1>1. Spread(Masked(i)) = [value |-> IF i = QueryIndex THEN 1 ELSE 0, slots |-> "all"]
  BY DEF Spread, Masked
<1>2. Times(Spread(Masked(i)), i) =
        [row |-> i, factor |-> IF i = QueryIndex THEN 1 ELSE 0, slots |-> "all"]
  BY <1>1 DEF Times
<1>. QED BY <1>1, <1>2 DEF Masked

\* The initial state of the request phase.
LEMMA RequestInit == Init => RequestInv
<1>. SUFFICES ASSUME Init PROVE RequestInv
  OBVIOUS
<1>1. N \in Nat \ {0} /\ 0 \in Row
  BY NAssumption DEF Row
<1>2. TypeOK
  <2>1. /\ next \in 0 .. N /\ added \in 0 .. N /\ workers \in 0 .. NGoRoutine
        /\ task \in [Worker -> Row] /\ result \in [Row -> Nat]
    BY <1>1, Workers DEF Init
  <2>2. tmp \in [Worker -> [value : {0, 1}, slots : {"none", "one", "all"}]]
    BY DEF Init, Fresh
  <2>3. partial \in [Row -> [row : Row, factor : {0, 1}, slots : {"none", "one", "all"}]]
    BY <1>1 DEF Init, Blank
  <2>4. stage \in [Worker -> {"receive", "mask", "sum", "multiply", "down"}]
    BY DEF Init
  <2>. QED BY <2>1, <2>2, <2>3, <2>4 DEF Init, TypeOK
<1>3. TaskInv /\ RowInv
  BY <1>1 DEF Init, TaskInv, RowInv, Busy, Row
<1>4. PoolInv
  <2>1. {w \in Worker : stage[w] # "down"} = Worker
    BY DEF Init
  <2>. QED BY <2>1, Workers DEF Init, PoolInv
<1>5. SumInv
  BY <1>1 DEF Init, SumInv, Row
<1>. QED BY <1>2, <1>3, <1>4, <1>5 DEF RequestInv

\* When the sum starts, all rows are final: no worker is left, so all rows
\* were handed out and none is with a worker.
LEMMA AllFinal ==
  ASSUME RequestInv, ~open, workers = 0
  PROVE  \A i \in Row : Final(i)
<1>1. {w \in Worker : stage[w] # "down"} = {}
  <2>. DEFINE S == {w \in Worker : stage[w] # "down"}
  <2>1. IsFiniteSet(S) /\ Cardinality(S) = 0
    BY Workers DEF RequestInv, PoolInv
  <2>. QED BY <2>1, FS_EmptySet
<1>2. \A w \in Worker : ~Busy(w)
  BY <1>1 DEF Busy
<1>3. \A i \in Row : i < next
  BY NAssumption DEF RequestInv, PoolInv, Row
<1>. QED BY <1>2, <1>3 DEF RequestInv, RowInv

\* No partial result is read before it is final.
LEMMA FinalWhenAdded == RequestInv => PartialsFinal
<1>. SUFFICES ASSUME RequestInv, added > 0 PROVE \A i \in Row : Final(i)
  BY DEF PartialsFinal, Final
<1>. QED BY AllFinal DEF RequestInv, SumInv

\* A row is handed to a worker that waits.
LEMMA HandStep ==
  ASSUME RequestInv, NEW w \in Worker, Hand(w)
  PROVE  RequestInv'
<1>1. /\ N \in Nat \ {0} /\ next \in Nat /\ next < N /\ next \in Row /\ next + 1 \in 0 .. N
      /\ stage[w] = "receive" /\ next' = next + 1
      /\ task' = [task EXCEPT ![w] = next] /\ stage' = [stage EXCEPT ![w] = "mask"]
      /\ UNCHANGED <<open, tmp, partial, workers, added, result, returned>>
  BY NAssumption DEF RequestInv, TypeOK, Hand, Row
<1>2. /\ \A v \in Worker : v # w => stage'[v] = stage[v] /\ task'[v] = task[v]
      /\ stage'[w] = "mask" /\ task'[w] = next
  BY <1>1 DEF RequestInv, TypeOK
<1>3. TypeOK'
  BY <1>1 DEF RequestInv, TypeOK
<1>4. TaskInv'
  <2>1. ASSUME NEW v \in Worker, v # w
        PROVE  /\ Busy(v)' => task'[v] < next'
               /\ stage'[v] = "sum" => tmp'[v] = Masked(task'[v])
               /\ stage'[v] = "multiply" => tmp'[v] = Spread(Masked(task'[v]))
    <3>1. Busy(v) => task[v] < next
      BY DEF RequestInv, TaskInv
    <3>2. Busy(v) => task[v] < next + 1
      BY <1>1, <3>1 DEF RequestInv, TypeOK, Row
    <3>. QED BY <1>1, <1>2, <2>1, <3>2 DEF RequestInv, TaskInv, Busy
  <2>2. Busy(w)' => task'[w] < next'
    BY <1>1, <1>2
  <2>. QED BY <1>2, <2>1, <2>2 DEF TaskInv, Masked, Spread
<1>5. RowInv'
  <2>. SUFFICES ASSUME NEW i \in Row, i < next + 1
                PROVE  Final(i)' \/ \E v \in Worker : Busy(v)' /\ task'[v] = i
    BY <1>1 DEF RowInv
  <2>1. CASE i = next
    BY <1>2, <2>1 DEF Busy
  <2>2. CASE i # next
    <3>1. i < next
      BY <1>1, <2>2 DEF Row
    <3>2. Final(i) \/ \E v \in Worker : Busy(v) /\ task[v] = i
      BY <3>1 DEF RequestInv, RowInv
    <3>3. Final(i) => Final(i)'
      BY <1>1 DEF Final, Times, Spread, Masked
    <3>4. ASSUME NEW v \in Worker, Busy(v), task[v] = i PROVE Busy(v)' /\ task'[v] = i
      BY <1>1, <1>2, <3>4 DEF Busy
    <3>. QED BY <3>2, <3>3, <3>4
  <2>. QED BY <2>1, <2>2
<1>6. PoolInv'
  <2>1. {v \in Worker : stage'[v] # "down"} = {v \in Worker : stage[v] # "down"}
    BY <1>1, <1>2
  <2>. QED BY <1>1, <1>2, <2>1 DEF RequestInv, PoolInv
<1>7. SumInv'
  BY <1>1 DEF RequestInv, SumInv
<1>. QED BY <1>3, <1>4, <1>5, <1>6, <1>7 DEF RequestInv

\* The channel is closed.
LEMMA CloseTasksStep ==
  ASSUME RequestInv, CloseTasks
  PROVE  RequestInv'
<1>1. /\ next = N /\ open /\ open' = FALSE
      /\ UNCHANGED <<next, task, stage, tmp, partial, workers, added, result, returned>>
  BY DEF CloseTasks
<1>2. TypeOK'
  BY <1>1 DEF RequestInv, TypeOK
<1>3. TaskInv'
  BY <1>1 DEF RequestInv, TaskInv, Busy, Masked, Spread
<1>4. RowInv'
  BY <1>1 DEF RequestInv, RowInv, Busy, Final, Times, Masked, Spread
<1>5. PoolInv' /\ SumInv'
  BY <1>1 DEF RequestInv, PoolInv, SumInv
<1>. QED BY <1>2, <1>3, <1>4, <1>5 DEF RequestInv

\* The final sum: the partial result of a row has just this row.
LEMMA AddPartialStep ==
  ASSUME RequestInv, AddPartial
  PROVE  RequestInv'
<1>1. /\ N \in Nat \ {0} /\ added \in Nat /\ added \in Row /\ added + 1 \in 0 .. N
      /\ ~open /\ workers = 0 /\ added < N /\ added' = added + 1
      /\ result' = [result EXCEPT ![partial[added].row] = @ + partial[added].factor]
      /\ UNCHANGED <<next, open, task, stage, tmp, partial, workers, returned>>
  BY NAssumption DEF RequestInv, TypeOK, AddPartial, Row
<1>2. partial[added].row = added /\ partial[added].factor = IF added = QueryIndex THEN 1 ELSE 0
  <2>1. Final(added)
    BY <1>1, AllFinal
  <2>. QED BY <1>1, <2>1, TaskData DEF Final
<1>3. result = [i \in Row |-> IF i < added /\ i = QueryIndex THEN 1 ELSE 0]
  BY DEF RequestInv, SumInv
<1>4. result' = [i \in Row |-> IF i < added + 1 /\ i = QueryIndex THEN 1 ELSE 0]
  <2>1. ASSUME NEW i \in Row, i # added
        PROVE  i < added + 1 <=> i < added
    BY <1>1, <2>1 DEF Row
  <2>2. ASSUME NEW i \in Row
        PROVE  result'[i] = IF i < added + 1 /\ i = QueryIndex THEN 1 ELSE 0
    <3>1. CASE i = added
      BY <1>1, <1>2, <1>3, <3>1 DEF Row
    <3>2. CASE i # added
      BY <1>1, <1>2, <1>3, <2>1, <3>2
    <3>. QED BY <3>1, <3>2
  <2>3. result' = [i \in Row |-> result'[i]]
    BY <1>1, <1>3
  <2>. QED BY <2>2, <2>3
<1>5. TypeOK'
  <2>1. result' \in [Row -> Nat]
    BY <1>4
  <2>. QED BY <1>1, <2>1 DEF RequestInv, TypeOK
<1>6. TaskInv'
  BY <1>1 DEF RequestInv, TaskInv, Busy, Masked, Spread
<1>7. RowInv'
  BY <1>1 DEF RequestInv, RowInv, Busy, Final, Times, Masked, Spread
<1>8. PoolInv'
  BY <1>1 DEF RequestInv, PoolInv
<1>9. SumInv'
  <2>1. ~returned'
    BY <1>1 DEF RequestInv, SumInv
  <2>. QED BY <1>1, <1>4, <2>1 DEF SumInv
<1>. QED BY <1>5, <1>6, <1>7, <1>8, <1>9 DEF RequestInv

\* requestphase returns.
LEMMA ReturnStep ==
  ASSUME RequestInv, Return
  PROVE  RequestInv'
<1>1. /\ added = N /\ returned' = TRUE
      /\ UNCHANGED <<next, open, task, stage, tmp, partial, workers, added, result>>
  BY DEF Return
<1>2. TypeOK'
  BY <1>1 DEF RequestInv, TypeOK
<1>3. TaskInv'
  BY <1>1 DEF RequestInv, TaskInv, Busy, Masked, Spread
<1>4. RowInv'
  BY <1>1 DEF RequestInv, RowInv, Busy, Final, Times, Masked, Spread
<1>5. PoolInv' /\ SumInv'
  BY <1>1 DEF RequestInv, PoolInv, SumInv
<1>. QED BY <1>2, <1>3, <1>4, <1>5 DEF RequestInv
\* evaluator.Mul with the mask.
LEMMA MaskStep ==
  ASSUME RequestInv, NEW w \in Worker, Mask(w)
  PROVE  RequestInv'
<1>1. /\ stage[w] = "mask" /\ task[w] \in Row
      /\ tmp' = [tmp EXCEPT ![w] = Masked(task[w])] /\ stage' = [stage EXCEPT ![w] = "sum"]
      /\ UNCHANGED <<next, open, task, partial, workers, added, result, returned>>
  BY DEF RequestInv, TypeOK, Mask
<1>2. /\ \A v \in Worker : v # w => stage'[v] = stage[v] /\ tmp'[v] = tmp[v]
      /\ stage'[w] = "sum" /\ tmp'[w] = Masked(task[w])
  BY <1>1 DEF RequestInv, TypeOK
<1>3. TypeOK'
  <2>1. tmp' \in [Worker -> [value : {0, 1}, slots : {"none", "one", "all"}]]
    BY <1>1, TaskData DEF RequestInv, TypeOK
  <2>. QED BY <1>1, <2>1 DEF RequestInv, TypeOK
<1>4. \A v \in Worker : Busy(v)' <=> Busy(v)
  BY <1>1, <1>2 DEF Busy
<1>5. TaskInv'
  BY <1>1, <1>2, <1>4 DEF RequestInv, TaskInv, Masked, Spread
<1>6. RowInv'
  BY <1>1, <1>4 DEF RequestInv, RowInv, Final, Times, Masked, Spread
<1>7. PoolInv'
  <2>1. {v \in Worker : stage'[v] # "down"} = {v \in Worker : stage[v] # "down"}
    BY <1>1, <1>2
  <2>. QED BY <1>1, <1>2, <2>1 DEF RequestInv, PoolInv
<1>8. SumInv'
  BY <1>1 DEF RequestInv, SumInv
<1>. QED BY <1>3, <1>5, <1>6, <1>7, <1>8 DEF RequestInv

\* evaluator.InnerSum
LEMMA InnerSumStep ==
  ASSUME RequestInv, NEW w \in Worker, InnerSum(w)
  PROVE  RequestInv'
<1>1. /\ stage[w] = "sum" /\ task[w] \in Row /\ tmp[w] = Masked(task[w])
      /\ tmp' = [tmp EXCEPT ![w] = Spread(@)] /\ stage' = [stage EXCEPT ![w] = "multiply"]
      /\ UNCHANGED <<next, open, task, partial, workers, added, result, returned>>
  BY DEF RequestInv, TypeOK, TaskInv, InnerSum
<1>2. /\ \A v \in Worker : v # w => stage'[v] = stage[v] /\ tmp'[v] = tmp[v]
      /\ stage'[w] = "multiply" /\ tmp'[w] = Spread(Masked(task[w]))
  BY <1>1 DEF RequestInv, TypeOK
<1>3. TypeOK'
  <2>1. tmp' \in [Worker -> [value : {0, 1}, slots : {"none", "one", "all"}]]
    BY <1>1, TaskData DEF RequestInv, TypeOK
  <2>. QED BY <1>1, <2>1 DEF RequestInv, TypeOK
<1>4. \A v \in Worker : Busy(v)' <=> Busy(v)
  BY <1>1, <1>2 DEF Busy
<1>5. TaskInv'
  BY <1>1, <1>2, <1>4 DEF RequestInv, TaskInv, Masked, Spread
<1>6. RowInv'
  BY <1>1, <1>4 DEF RequestInv, RowInv, Final, Times, Masked, Spread
<1>7. PoolInv'
  <2>1. {v \in Worker : stage'[v] # "down"} = {v \in Worker : stage[v] # "down"}
    BY <1>1, <1>2
  <2>. QED BY <1>1, <1>2, <2>1 DEF RequestInv, PoolInv
<1>8. SumInv'
  BY <1>1 DEF RequestInv, SumInv
<1>. QED BY <1>3, <1>5, <1>6, <1>7, <1>8 DEF RequestInv

\* evaluator.Mul with the row: its partial result is final from here on.
LEMMA MultiplyStep ==
  ASSUME RequestInv, NEW w \in Worker, Multiply(w)
  PROVE  RequestInv'
<1>. DEFINE row == task[w]
<1>1. /\ stage[w] = "multiply" /\ row \in Row /\ tmp[w] = Spread(Masked(row))
      /\ partial' = [partial EXCEPT ![row] = Times(Spread(Masked(row)), row)]
      /\ stage' = [stage EXCEPT ![w] = "receive"]
      /\ UNCHANGED <<next, open, task, tmp, workers, added, result, returned>>
  BY DEF RequestInv, TypeOK, TaskInv, Multiply
<1>. HIDE DEF row
<1>2. /\ \A v \in Worker : v # w => stage'[v] = stage[v]
      /\ stage'[w] = "receive"
      /\ \A i \in Row : partial'[i] = IF i = row THEN Times(Spread(Masked(row)), row) ELSE partial[i]
  BY <1>1 DEF RequestInv, TypeOK
<1>3. TypeOK'
  <2>1. partial' \in [Row -> [row : Row, factor : {0, 1}, slots : {"none", "one", "all"}]]
    BY <1>1, TaskData DEF RequestInv, TypeOK
  <2>. QED BY <1>1, <2>1 DEF RequestInv, TypeOK
<1>4. \A v \in Worker : Busy(v)' <=> Busy(v) /\ v # w
  BY <1>2 DEF Busy
<1>5. TaskInv'
  BY <1>1, <1>2, <1>4 DEF RequestInv, TaskInv, Masked, Spread
<1>6. RowInv'
  <2>. SUFFICES ASSUME NEW i \in Row, i < next
                PROVE  Final(i)' \/ \E v \in Worker : Busy(v)' /\ task'[v] = i
    BY <1>1 DEF RowInv
  <2>1. CASE i = row
    BY <1>2, <2>1 DEF Final, Times, Masked, Spread
  <2>2. CASE i # row
    <3>1. Final(i) \/ \E v \in Worker : Busy(v) /\ task[v] = i
      BY DEF RequestInv, RowInv
    <3>2. Final(i) => Final(i)'
      BY <1>2, <2>2 DEF Final, Times, Masked, Spread
    <3>3. ASSUME NEW v \in Worker, Busy(v), task[v] = i PROVE Busy(v)' /\ task'[v] = i
      BY <1>1, <1>4, <2>2, <3>3 DEF row
    <3>. QED BY <3>1, <3>2, <3>3
  <2>. QED BY <2>1, <2>2
<1>7. PoolInv'
  <2>1. {v \in Worker : stage'[v] # "down"} = {v \in Worker : stage[v] # "down"}
    BY <1>1, <1>2
  <2>. QED BY <1>1, <1>2, <2>1 DEF RequestInv, PoolInv
<1>8. SumInv'
  BY <1>1 DEF RequestInv, SumInv
<1>. QED BY <1>3, <1>5, <1>6, <1>7, <1>8 DEF RequestInv

\* A worker leaves its loop.
LEMMA DownStep ==
  ASSUME RequestInv, NEW w \in Worker, Down(w)
  PROVE  RequestInv'
<1>. DEFINE S == {v \in Worker : stage[v] # "down"}
            T == {v \in Worker : stage'[v] # "down"}
<1>1. /\ stage[w] = "receive" /\ ~open
      /\ stage' = [stage EXCEPT ![w] = "down"] /\ workers' = workers - 1
      /\ UNCHANGED <<next, open, task, tmp, partial, added, result, returned>>
  BY DEF Down
<1>2. /\ \A v \in Worker : v # w => stage'[v] = stage[v]
      /\ stage'[w] = "down"
  BY <1>1 DEF RequestInv, TypeOK
<1>3. workers' = Cardinality(T) /\ workers # 0 /\ workers' \in 0 .. NGoRoutine
  <2>1. T = S \ {w} /\ w \in S
    BY <1>1, <1>2
  <2>2. IsFiniteSet(S) /\ Cardinality(S) \in Nat /\ workers = Cardinality(S)
    BY Workers DEF RequestInv, PoolInv
  <2>. HIDE DEF S, T
  <2>3. Cardinality(T) = Cardinality(S) - 1
    BY <2>1, <2>2, FS_RemoveElement
  <2>4. Cardinality(T) \in 0 .. NGoRoutine
    BY Workers DEF T
  <2>5. Cardinality(S) # 0
    BY <2>1, <2>2, FS_EmptySet
  <2>. QED BY <1>1, <2>2, <2>3, <2>4, <2>5
<1>4. TypeOK'
  BY <1>1, <1>3 DEF RequestInv, TypeOK
<1>5. \A v \in Worker : Busy(v)' <=> Busy(v)
  BY <1>1, <1>2 DEF Busy
<1>6. TaskInv'
  BY <1>1, <1>2, <1>5 DEF RequestInv, TaskInv, Masked, Spread
<1>7. RowInv'
  BY <1>1, <1>5 DEF RequestInv, RowInv, Final, Times, Masked, Spread
<1>8. PoolInv'
  BY <1>1, <1>2, <1>3 DEF RequestInv, PoolInv
<1>9. SumInv'
  BY <1>1, <1>3 DEF RequestInv, SumInv, TypeOK
<1>. QED BY <1>4, <1>6, <1>7, <1>8, <1>9 DEF RequestInv

\* Every step of the request phase keeps its invariant.
LEMMA RequestStep ==
  ASSUME RequestInv, Next
  PROVE  RequestInv'
BY CloseTasksStep, AddPartialStep, ReturnStep, HandStep, MaskStep, InnerSumStep,
   MultiplyStep, DownStep DEF Next, Step

-----------------------------------------------------------------------------
(* The collective phases and main.                                         *)

\* What the sum over the rows gives once every partial result is in: the
\* library's fold over a set, solved for the rows of the result.
LEMMA SumOfRows ==
  ASSUME result = [i \in Row |-> IF i = QueryIndex THEN 1 ELSE 0]
  PROVE  MapThenSumSet(LAMBDA i : result[i] * Content(i), Row) =
           IF QueryIndex \in Row THEN QueryIndex ELSE 0
<1>. DEFINE pick(s) == CHOOSE x \in s : TRUE
            Sums(iter) == iter = [s \in SUBSET Row |->
               IF s = {} THEN 0 ELSE result[pick(s)] * pick(s) + iter[s \ {pick(s)}]]
            closed == [s \in SUBSET Row |-> IF QueryIndex \in s THEN QueryIndex ELSE 0]
            fold == CHOOSE iter : Sums(iter)
<1>1. MapThenSumSet(LAMBDA i : result[i] * Content(i), Row) = fold[Row]
  BY DEF MapThenSumSet, MapThenFoldSet, Content
<1>2. ASSUME NEW s \in SUBSET Row, s # {}
      PROVE  /\ pick(s) \in s /\ s \ {pick(s)} \in SUBSET Row
             /\ result[pick(s)] * pick(s) = IF pick(s) = QueryIndex THEN QueryIndex ELSE 0
             /\ closed[s] = result[pick(s)] * pick(s) + closed[s \ {pick(s)}]
  <2>. DEFINE x == pick(s)
  <2>1. x \in s /\ x \in Row /\ s \ {x} \in SUBSET Row
    BY <1>2
  <2>. HIDE DEF x
  <2>2. x \in Int /\ QueryIndex \in Nat
    BY <2>1, NAssumption, QueryIndexAssumption DEF Row
  <2>3. result[x] * x = IF x = QueryIndex THEN QueryIndex ELSE 0
    BY <2>1, <2>2
  <2>4. closed[s] = IF QueryIndex \in s THEN QueryIndex ELSE 0
    OBVIOUS
  <2>5. closed[s \ {x}] = IF QueryIndex \in s \ {x} THEN QueryIndex ELSE 0
    BY <2>1
  <2>6. closed[s] = result[x] * x + closed[s \ {x}]
    <3>. HIDE DEF closed
    <3>. QED BY <2>1, <2>2, <2>3, <2>4, <2>5
  <2>. QED BY <2>1, <2>3, <2>6 DEF x
<1>3. Sums(closed)
  <2>. DEFINE sum(s) == IF s = {} THEN 0 ELSE result[pick(s)] * pick(s) + closed[s \ {pick(s)}]
  <2>1. \A s \in SUBSET Row : closed[s] = sum(s)
    <3>1. closed[{}] = 0
      OBVIOUS
    <3>. HIDE DEF closed, pick
    <3>. QED BY <1>2, <3>1
  <2>2. closed = [s \in SUBSET Row |-> closed[s]]
    OBVIOUS
  <2>. HIDE DEF closed, pick, sum
  <2>3. closed = [s \in SUBSET Row |-> sum(s)]
    BY <2>1, <2>2
  <2>. QED BY <2>3 DEF sum
<1>4. Sums(fold)
  <2>. HIDE DEF Sums, closed
  <2>. QED BY <1>3
<1>. HIDE DEF fold
<1>5. ASSUME NEW s \in SUBSET Row PROVE fold[s] = closed[s]
  <2>. DEFINE Wrong == {t \in SUBSET Row : fold[t] # closed[t]}
  <2>. SUFFICES ASSUME Wrong # {} PROVE FALSE
    OBVIOUS
  <2>1. Wrong \subseteq FiniteSubsetsOf(Row)
    <3>1. IsFiniteSet(Row)
      <4>1. 0 \in Int /\ N - 1 \in Int
        BY NAssumption
      <4>. QED BY <4>1, FS_Interval DEF Row
    <3>. QED BY <3>1, FS_Subset DEF FiniteSubsetsOf
  <2>2. PICK t \in Wrong : \A u \in Wrong : ~(<<u, t>> \in StrictSubsetOrdering(Row))
    BY <2>1, FS_StrictSubsetOrderingWellFounded, WFMin
  <2>3. t # {}
    <3>1. fold[{}] = 0 /\ closed[{}] = 0
      BY <1>4
    <3>. QED BY <3>1
  <2>. DEFINE rest == t \ {pick(t)}
  <2>4. rest \in SUBSET Row /\ <<rest, t>> \in StrictSubsetOrdering(Row)
    BY <1>2, <2>3 DEF StrictSubsetOrdering
  <2>5. fold[rest] = closed[rest]
    BY <2>2, <2>4
  <2>6. fold[t] = result[pick(t)] * pick(t) + fold[rest]
    BY <1>4, <2>3
  <2>7. closed[t] = result[pick(t)] * pick(t) + closed[rest]
    BY <1>2, <2>3
  <2>. HIDE DEF closed, rest
  <2>. QED BY <2>5, <2>6, <2>7
<1>. QED BY <1>1, <1>5

\* The phases of the program.
LEMMA PhaseFacts ==
  /\ Len(PirPhases) = 4 + Galois /\ DOMAIN PirPhases = 1 .. 4 + Galois /\ Galois \in Nat \ {0}
  /\ \A k \in 1 .. 4 + Galois :
        /\ PirPhases[k].first = IF k = 4 + Galois THEN 1 ELSE 0
        /\ PirPhases[k].from = IF k = 3 THEN 2 ELSE 0
        /\ PirPhases[k].kind = "cksShare" <=> k = 4 + Galois
<1>1. Galois \in Nat \ {0} /\ DOMAIN PirPhases = 1 .. 4 + Galois
  BY GaloisAssumption DEF PirPhases
<1>2. Len(PirPhases) = 4 + Galois
  BY <1>1, LenProperties DEF PirPhases
<1>3. ASSUME NEW k \in 1 .. 4 + Galois
      PROVE  /\ k = 1 => PirPhases[k] = [kind |-> "ckgShare", first |-> 0, from |-> 0]
             /\ k = 2 => PirPhases[k] = [kind |-> "rkgShareOne", first |-> 0, from |-> 0]
             /\ k = 3 => PirPhases[k] = [kind |-> "rkgShareTwo", first |-> 0, from |-> 2]
             /\ k \in SetupPhases \ 1 .. 3 => PirPhases[k] = [kind |-> "rtgShare", first |-> 0, from |-> 0]
             /\ k = 4 + Galois => PirPhases[k] = [kind |-> "cksShare", first |-> 1, from |-> 0]
             /\ k = 1 \/ k = 2 \/ k = 3 \/ k \in SetupPhases \ 1 .. 3 \/ k = 4 + Galois
  <2>1. 4 + Galois \notin 1 .. 3 + Galois /\ 4 + Galois \notin 1 .. 3
    BY <1>1
  <2>. QED BY <1>1, <2>1 DEF PirPhases, SetupPhases
<1>4. ASSUME NEW k \in 1 .. 4 + Galois
      PROVE  /\ PirPhases[k].first = IF k = 4 + Galois THEN 1 ELSE 0
             /\ PirPhases[k].from = IF k = 3 THEN 2 ELSE 0
             /\ PirPhases[k].kind = "cksShare" <=> k = 4 + Galois
  <2>1. k \in SetupPhases \ 1 .. 3 => k # 3 /\ k # 4 + Galois
    BY <1>1 DEF SetupPhases
  <2>2. 1 # 4 + Galois /\ 2 # 4 + Galois /\ 3 # 4 + Galois
    BY <1>1
  <2>. QED BY <1>3, <2>1, <2>2
<1>. QED BY <1>1, <1>2, <1>4

\* They are as the lemmas about the collective phases ask.
LEMMA PirPhasesOK == KeysProofs!PhasesOK
<1>1. N \in Nat \ {0}
  BY NAssumption
<1>2. ASSUME NEW k \in 1 .. 4 + Galois
      PROVE  PirPhases[k].first \in 0 .. N /\ PirPhases[k].from \in 0 .. k - 1
  BY <1>1, PhaseFacts
<1>3. ASSUME NEW j \in 1 .. 4 + Galois, NEW k \in 1 .. 4 + Galois, PirPhases[j].kind = PirPhases[k].kind
      PROVE  PirPhases[j].first = PirPhases[k].first
  BY <1>3, PhaseFacts
<1>. QED BY <1>1, <1>2, <1>3, PhaseFacts DEF KeysProofs!PhasesOK, KeysProofs!PhaseNumber

\* The lemmas speak of the same phases as the program.
LEMMA SamePhases ==
  /\ Keys!CollectiveInit <=> KeysProofs!CollectiveInit
  /\ Keys!CollectiveTypeOK <=> KeysProofs!CollectiveTypeOK
  /\ Keys!CollectiveTypeOK' <=> KeysProofs!CollectiveTypeOK'
  /\ Keys!CollectiveInv <=> KeysProofs!CollectiveInv
  /\ Keys!CollectiveInv' <=> KeysProofs!CollectiveInv'
  /\ Keys!CollectiveStep <=> KeysProofs!CollectiveStep
<1>1. /\ Keys!PhaseNumber = KeysProofs!PhaseNumber /\ Keys!Member = KeysProofs!Member
      /\ Keys!Kind = KeysProofs!Kind /\ Keys!Shares = KeysProofs!Shares
  BY DEF Keys!PhaseNumber, KeysProofs!PhaseNumber, Keys!Member, KeysProofs!Member,
         Keys!Kind, KeysProofs!Kind, Keys!Shares, KeysProofs!Shares
<1>2. Keys!CollectiveInit <=> KeysProofs!CollectiveInit
  BY <1>1 DEF Keys!CollectiveInit, KeysProofs!CollectiveInit, Keys!Allocated, KeysProofs!Allocated
<1>3. /\ Keys!CollectiveTypeOK <=> KeysProofs!CollectiveTypeOK
      /\ Keys!CollectiveTypeOK' <=> KeysProofs!CollectiveTypeOK'
  BY <1>1 DEF Keys!CollectiveTypeOK, KeysProofs!CollectiveTypeOK
<1>4. /\ Keys!CollectiveInv <=> KeysProofs!CollectiveInv
      /\ Keys!CollectiveInv' <=> KeysProofs!CollectiveInv'
  BY <1>1 DEF Keys!CollectiveInv, KeysProofs!CollectiveInv, Keys!PhaseUnderWay, KeysProofs!PhaseUnderWay,
              Keys!ReadyBelow, KeysProofs!ReadyBelow, Keys!Exact, KeysProofs!Exact,
              Keys!Due, KeysProofs!Due, Keys!Allocated, KeysProofs!Allocated
<1>5. Keys!CollectiveStep <=> KeysProofs!CollectiveStep
  BY <1>1 DEF Keys!CollectiveStep, KeysProofs!CollectiveStep, Keys!GenShare, KeysProofs!GenShare,
              Keys!Aggregate, KeysProofs!Aggregate, Keys!AddShare, KeysProofs!AddShare,
              Keys!EndPhase, KeysProofs!EndPhase, Keys!Exact, KeysProofs!Exact, Keys!Due, KeysProofs!Due
<1>. QED BY <1>2, <1>3, <1>4, <1>5

\* A step of a phase moves to the next one at most.
LEMMA KeysStep ==
  ASSUME Keys!CollectiveTypeOK, Keys!CollectiveInv, Keys!CollectiveStep
  PROVE  /\ Keys!CollectiveTypeOK' /\ Keys!CollectiveInv'
         /\ phase \in 1 .. 4 + Galois /\ phase' \in {phase, phase + 1}
<1>1. Keys!CollectiveTypeOK' /\ Keys!CollectiveInv'
  BY SamePhases, PirPhasesOK, KeysProofs!CollectiveTypeStep, KeysProofs!CollectiveInvStep
<1>2. phase \in 1 .. 4 + Galois /\ phase' \in {phase, phase + 1}
  BY PhaseFacts DEF Keys!CollectiveStep, Keys!GenShare, Keys!Aggregate, Keys!AddShare, Keys!EndPhase,
                    Keys!PhaseNumber
<1>. QED BY <1>1, <1>2

\* The initial state of the program.
LEMMA MainInitInv == MainInit => IInv
<1>. SUFFICES ASSUME MainInit PROVE IInv
  OBVIOUS
<1>1. RequestInv /\ TypeOK
  BY RequestInit DEF MainInit, RequestInv
<1>2. Keys!CollectiveTypeOK /\ Keys!CollectiveInv
  BY SamePhases, PirPhasesOK, KeysProofs!CollectiveInitOK DEF MainInit
<1>3. MainTypeOK
  <2>1. now = "setup" /\ encInputs = 0 /\ encQuery = FALSE /\ output = -2 /\ 0 \in 0 .. N /\ -2 \in Int
    BY NAssumption DEF MainInit, Nothing
  <2>. QED BY <1>1, <1>2, <2>1 DEF MainTypeOK
<1>4. PhaseInv
  <2>1. now = "setup" /\ encInputs = 0 /\ phase = 1
    BY DEF MainInit, Keys!CollectiveInit
  <2>2. 1 \in SetupPhases /\ 0 < N
    BY NAssumption, GaloisAssumption DEF SetupPhases
  <2>. QED BY <2>1, <2>2 DEF PhaseInv
<1>. QED BY <1>1, <1>2, <1>3, <1>4 DEF IInv

\* A step that leaves the request phase alone keeps its invariant, and one
\* that leaves the collective phases alone keeps theirs.
LEMMA RequestFrame ==
  ASSUME RequestInv, UNCHANGED vars
  PROVE  RequestInv'
BY DEF vars, RequestInv, TypeOK, TaskInv, RowInv, PoolInv, SumInv, Busy, Final, Times, Spread, Masked

LEMMA CollectiveFrame ==
  ASSUME Keys!CollectiveTypeOK, Keys!CollectiveInv, UNCHANGED collective
  PROVE  Keys!CollectiveTypeOK' /\ Keys!CollectiveInv'
BY DEF collective, Keys!CollectiveTypeOK, Keys!CollectiveInv, Keys!PhaseUnderWay, Keys!ReadyBelow,
       Keys!Exact, Keys!Due, Keys!Allocated

\* Every step of the program keeps the invariant.
LEMMA MainStep ==
  ASSUME IInv, [MainNext]_mainVars
  PROVE  IInv'
<1>1. N \in Nat \ {0} /\ Galois \in Nat \ {0} /\ TypeOK /\ RequestInv /\ encInputs \in 0 .. N
      /\ Keys!CollectiveTypeOK /\ Keys!CollectiveInv /\ phase \in Nat
  BY NAssumption, GaloisAssumption DEF IInv, MainTypeOK, Keys!CollectiveTypeOK
<1>2. CASE Setup
  <2>1. /\ now = "setup" /\ Keys!CollectiveStep
        /\ now' = IF phase' \in SetupPhases THEN now ELSE "encrypt"
        /\ UNCHANGED <<vars, encInputs, encQuery, output>>
    BY <1>2 DEF Setup, inputs
  <2>2. /\ Keys!CollectiveTypeOK' /\ Keys!CollectiveInv'
        /\ phase \in 1 .. 3 + Galois /\ phase' \in {phase, phase + 1}
    BY <1>1, <2>1, KeysStep DEF IInv, PhaseInv, SetupPhases
  <2>3. RequestInv' /\ TypeOK'
    BY <1>1, <2>1, RequestFrame DEF RequestInv
  <2>4. MainTypeOK'
    BY <2>1, <2>2, <2>3 DEF IInv, MainTypeOK
  <2>5. PhaseInv'
    <3>1. CASE phase' \in SetupPhases
      BY <2>1, <3>1 DEF IInv, PhaseInv
    <3>2. CASE phase' \notin SetupPhases
      <4>1. phase' = 4 + Galois
        BY <1>1, <2>2, <3>2 DEF SetupPhases
      <4>2. encInputs < N
        BY <2>1 DEF IInv, PhaseInv
      <4>. QED BY <1>1, <2>1, <3>2, <4>1, <4>2 DEF PhaseInv
    <3>. QED BY <3>1, <3>2
  <2>. QED BY <2>2, <2>3, <2>4, <2>5 DEF IInv
<1>3. CASE Encrypt \/ GenQuery \/ RequestDone
  <2>1. /\ UNCHANGED <<vars, output, collective>>
        /\ now \in {"encrypt", "query", "request"} /\ now' \in {"encrypt", "query", "request", "switch"}
        /\ encInputs' \in 0 .. N /\ encQuery' \in BOOLEAN
        /\ now' = "encrypt" => encInputs' < N
        /\ now' = "switch" => returned
    <3>1. CASE Encrypt
      <4>1. /\ now = "encrypt" /\ encInputs' = encInputs + 1
            /\ now' = IF encInputs' < N THEN now ELSE "query"
            /\ UNCHANGED <<vars, encQuery, output, collective>>
        BY <3>1 DEF Encrypt
      <4>2. encInputs < N /\ encQuery \in BOOLEAN
        BY <4>1 DEF IInv, PhaseInv, MainTypeOK
      <4>3. encInputs' \in 0 .. N
        BY <1>1, <4>1, <4>2
      <4>. QED BY <4>1, <4>2, <4>3
    <3>2. CASE GenQuery
      BY <1>1, <3>2 DEF GenQuery, Goto, IInv, MainTypeOK
    <3>3. CASE RequestDone
      BY <1>1, <3>3 DEF RequestDone, Goto, inputs, IInv, MainTypeOK
    <3>. QED BY <1>3, <3>1, <3>2, <3>3
  <2>2. RequestInv' /\ TypeOK' /\ Keys!CollectiveTypeOK' /\ Keys!CollectiveInv'
    BY <1>1, <2>1, RequestFrame, CollectiveFrame DEF RequestInv
  <2>3. MainTypeOK'
    BY <2>1, <2>2 DEF IInv, MainTypeOK
  <2>4. PhaseInv'
    BY <2>1 DEF IInv, PhaseInv, vars, collective
  <2>. QED BY <2>2, <2>3, <2>4 DEF IInv
<1>4. CASE InRequest(Next)
  <2>1. /\ now = "request" /\ Next
        /\ UNCHANGED <<now, encInputs, encQuery, output, collective>>
    BY <1>4 DEF InRequest, inputs
  <2>2. RequestInv' /\ TypeOK' /\ Keys!CollectiveTypeOK' /\ Keys!CollectiveInv'
    BY <1>1, <2>1, RequestStep, CollectiveFrame DEF RequestInv
  <2>3. MainTypeOK'
    BY <2>1, <2>2 DEF IInv, MainTypeOK
  <2>4. PhaseInv'
    BY <2>1 DEF IInv, PhaseInv, collective
  <2>. QED BY <2>2, <2>3, <2>4 DEF IInv
<1>5. CASE Switch
  <2>1. /\ now = "switch" /\ Keys!CollectiveStep /\ returned
        /\ now' = IF phase' \in 1 .. 4 + Galois THEN now ELSE "decrypt"
        /\ UNCHANGED <<vars, encInputs, encQuery, output>>
    BY <1>5, PhaseFacts DEF Switch, inputs, IInv, PhaseInv, Keys!PhaseNumber
  <2>2. /\ Keys!CollectiveTypeOK' /\ Keys!CollectiveInv'
        /\ phase = 4 + Galois /\ phase' \in {phase, phase + 1}
    BY <1>1, <2>1, KeysStep DEF IInv, PhaseInv
  <2>3. RequestInv' /\ TypeOK' /\ returned'
    BY <1>1, <2>1, RequestFrame DEF RequestInv, vars
  <2>4. MainTypeOK'
    BY <2>1, <2>2, <2>3 DEF IInv, MainTypeOK
  <2>5. PhaseInv'
    <3>1. CASE phase' = phase
      BY <1>1, <2>1, <2>2, <2>3, <3>1 DEF PhaseInv
    <3>2. CASE phase' = phase + 1
      BY <1>1, <2>1, <2>2, <2>3, <3>2 DEF PhaseInv
    <3>. QED BY <2>2, <3>1, <3>2
  <2>. QED BY <2>2, <2>3, <2>4, <2>5 DEF IInv
<1>6. CASE Decrypt
  <2>1. /\ now = "decrypt" /\ now' = "finished" /\ output' = Decrypted /\ returned
        /\ phase = 5 + Galois /\ UNCHANGED <<vars, encInputs, encQuery, collective>>
    BY <1>6 DEF Decrypt, Goto, inputs, IInv, PhaseInv
  <2>2. RequestInv' /\ TypeOK' /\ Keys!CollectiveTypeOK' /\ Keys!CollectiveInv'
    BY <1>1, <2>1, RequestFrame, CollectiveFrame DEF RequestInv
  <2>3. \A k \in Keys!PhaseNumber : Keys!Exact(k)
    <3>1. \A k \in Keys!PhaseNumber : k < phase
      BY <1>1, <2>1, PhaseFacts DEF Keys!PhaseNumber
    <3>. QED BY <1>1, <3>1 DEF Keys!CollectiveInv
  <2>4. result = [i \in Row |-> IF i = QueryIndex THEN 1 ELSE 0]
    <3>1. added = N
      BY <1>1, <2>1 DEF RequestInv, SumInv
    <3>2. \A i \in Row : i < added
      BY <1>1, <3>1 DEF Row
    <3>. QED BY <1>1, <3>2 DEF RequestInv, SumInv
  <2>5. output' = IF QueryIndex \in Row THEN QueryIndex ELSE 0
    <3>1. Decrypted = MapThenSumSet(LAMBDA i : result[i] * Content(i), Row)
      BY <2>3 DEF Decrypted
    <3>2. MapThenSumSet(LAMBDA i : result[i] * Content(i), Row) =
            IF QueryIndex \in Row THEN QueryIndex ELSE 0
      BY <2>4, SumOfRows
    <3>. QED BY <2>1, <3>1, <3>2
  <2>6. MainTypeOK'
    BY <2>1, <2>2, <2>5, QueryIndexAssumption DEF IInv, MainTypeOK
  <2>7. PhaseInv'
    BY <2>1, <2>5 DEF PhaseInv, vars, collective
  <2>. QED BY <2>2, <2>6, <2>7 DEF IInv
<1>7. CASE UNCHANGED mainVars
  <2>1. UNCHANGED <<vars, collective, now, encInputs, encQuery, output>>
    BY <1>7 DEF mainVars, inputs
  <2>2. RequestInv' /\ TypeOK' /\ Keys!CollectiveTypeOK' /\ Keys!CollectiveInv'
    BY <1>1, <2>1, RequestFrame, CollectiveFrame DEF RequestInv
  <2>3. MainTypeOK'
    BY <2>1, <2>2 DEF IInv, MainTypeOK
  <2>4. PhaseInv'
    BY <2>1 DEF IInv, PhaseInv, vars, collective
  <2>. QED BY <2>2, <2>3, <2>4 DEF IInv
<1>. QED BY <1>2, <1>3, <1>4, <1>5, <1>6, <1>7 DEF MainNext

-----------------------------------------------------------------------------
(* The theorems.                                                           *)

\* The inductive invariant holds throughout.
THEOREM Invariance == MainSpec => []IInv
BY MainInitInv, MainStep, PTL DEF MainSpec

\* The types of the program's state.
THEOREM MainTypeCorrect == MainSpec => []MainTypeOK
<1>1. IInv => MainTypeOK
  BY DEF IInv
<1>. QED BY <1>1, Invariance, PTL

\* requestphase adds up no partial result that a worker still computes,
\* whichever worker got which row.
THEOREM PartialsAreFinal == MainSpec => []PartialsFinal
<1>1. IInv => PartialsFinal
  BY FinalWhenAdded DEF IInv
<1>. QED BY <1>1, Invariance, PTL

\* main prints the row of the query, if there is such a row.
THEOREM RowRetrieved ==
  ASSUME QueryIndex \in Row
  PROVE  MainSpec => []OutputIsRow
<1>1. IInv => OutputIsRow
  BY DEF IInv, PhaseInv, OutputIsRow, Content
<1>. QED BY <1>1, Invariance, PTL
=============================================================================
