------------------------------- MODULE PsiMain -------------------------------
(***************************************************************************)
(* The whole program apps/psi/main.go: collective keys, encryption of the  *)
(* inputs, the evaluation by the worker pool (PsiEval), the collective     *)
(* switch of the result to the target key, its decryption and the final    *)
(* comparison with the expected result.                                    *)
(*                                                                         *)
(* The inputs have many slots, which no operation mixes: one slot with any *)
(* values stands for each of them (slot 4, where all inputs are one, too). *)
(***************************************************************************)
EXTENDS PsiEval, Sequences

CONSTANT MaxZeros  \* bound: how many inputs of the slot may be zero

ASSUME MaxZerosAssumption == MaxZeros \in Nat

\* ckgphase, the two rounds of rkgphase, and pcksPhase.
PsiPhases == <<[kind |-> "ckgShare",    first |-> 0, from |-> 0],
               [kind |-> "rkgShareOne", first |-> 0, from |-> 0],
               [kind |-> "rkgShareTwo", first |-> 0, from |-> 2],
               [kind |-> "pcksShare",   first |-> 0, from |-> 0]>>
SetupPhases == 1 .. 3

VARIABLES
  now,       \* the phase of main
  input,     \* input[i]: the slot of the input of party i
  expRes,    \* the slot of the expected result
  encInputs, \* number of inputs that have been encrypted
  verdict,   \* what main prints
  phase, loop, member, share, combined  \* Collective

collective == <<phase, loop, member, share, combined>>
data == <<input, expRes>>
mainVars == <<vars, now, data, encInputs, verdict, collective>>

Keys == INSTANCE Collective WITH Parties <- N, Phases <- PsiPhases

MainTypeOK ==
  /\ TypeOK
  /\ Keys!CollectiveTypeOK
  /\ now \in {"setup", "encrypt", "eval", "switch", "check", "finished"}
  /\ input \in [Input -> {0, 1}]
  /\ expRes \in {0, 1}
  /\ encInputs \in 0 .. N
  /\ verdict \in {"none", "correct", "incorrect"}

\* genparties and genInputs; expRes is the product of the inputs.
MainInit ==
  /\ PoolInit
  /\ factors = [p \in Places |-> None]
  /\ degree = [p \in Places |-> 0]
  /\ Keys!CollectiveInit
  /\ now = "setup"
  /\ input \in {f \in [Input -> {0, 1}] : Cardinality({i \in Input : f[i] = 0}) <= MaxZeros}
  /\ expRes = IF \A i \in Input : input[i] = 1 THEN 1 ELSE 0
  /\ encInputs = 0
  /\ verdict = "none"

-----------------------------------------------------------------------------
Goto(from, to) == now = from /\ now' = to

\* ckgphase and rkgphase
Setup ==
  /\ now = "setup"
  /\ Keys!CollectiveStep
  /\ now' = IF phase' \in SetupPhases THEN now ELSE "encrypt"
  /\ UNCHANGED <<vars, data, encInputs, verdict>>

\* encPhase: one input after the other, with one plaintext for all.
Encrypt ==
  /\ now = "encrypt"
  /\ factors' = [factors EXCEPT ![<<0, encInputs>>] = Only(encInputs)]
  /\ degree' = [degree EXCEPT ![<<0, encInputs>>] = 1]
  /\ encInputs' = encInputs + 1
  /\ now' = IF encInputs' < N THEN now ELSE "eval"
  /\ UNCHANGED <<pool, data, verdict, collective>>

InEval(A) == now = "eval" /\ A /\ UNCHANGED <<now, data, encInputs, verdict, collective>>

EvalDone ==
  /\ returned
  /\ Goto("eval", "switch")
  /\ UNCHANGED <<vars, data, encInputs, verdict, collective>>

\* pcksPhase
Switch ==
  /\ now = "switch"
  /\ Keys!CollectiveStep
  /\ now' = IF phase' \in Keys!PhaseNumber THEN now ELSE "check"
  /\ UNCHANGED <<vars, data, encInputs, verdict>>

\* What the target key decrypts: the product of the inputs that are factors,
\* or noise, if a combined share is not exact or the result has degree two.
Noise == 2
Decrypted ==
  IF degree[<<Last, 0>>] # 1 \/ \E k \in Keys!PhaseNumber : ~Keys!Exact(k) THEN Noise
  ELSE IF \A i \in Input : factors[<<Last, 0>>][i] > 0 => input[i] = 1 THEN 1 ELSE 0

Check ==
  /\ Goto("check", "finished")
  /\ verdict' = IF Decrypted = expRes THEN "correct" ELSE "incorrect"
  /\ UNCHANGED <<vars, data, encInputs, collective>>

MainNext == Setup \/ Encrypt \/ InEval(Next) \/ EvalDone \/ Switch \/ Check

MainSpec == MainInit /\ [][MainNext]_mainVars

\* The scheduler runs every goroutine that can run.
MainFairness ==
  /\ WF_mainVars(Setup \/ Encrypt \/ EvalDone \/ Switch \/ Check)
  /\ WF_mainVars(InEval(NextLevel \/ CloseTasks \/ Return \/ \E w \in Worker : Hand(w)))
  /\ \A w \in Worker :
        WF_mainVars(InEval(Multiply(w) \/ Relinearize(w) \/ Done(w) \/ Down(w)))

MainFairSpec == MainSpec /\ MainFairness

-----------------------------------------------------------------------------
(* Properties.                                                             *)

\* The program's own test: whatever the inputs, main prints "correct".
VerdictCorrect == verdict # "incorrect"

\* main returns: the loops, the channel and the wait groups of the worker
\* pool, in which the goroutines meet in any order, never hold it up.
MainReturns == <>(now = "finished")
=============================================================================
