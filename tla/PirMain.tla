------------------------------- MODULE PirMain -------------------------------
(***************************************************************************)
(* The whole program apps/pir/main.go: collective keys (encryption,        *)
(* relinearization and one rotation key per Galois element of the inner    *)
(* sum), encryption of the rows and of the query, the request phase        *)
(* (PirRequest), the collective switch of the result to the secret key of  *)
(* party 0, and the decryption with that key.                              *)
(***************************************************************************)
EXTENDS PirRequest, Sequences, FiniteSetsExt

CONSTANT Galois  \* number of Galois elements of the inner sum

ASSUME GaloisAssumption == Galois \in Nat \ {0}

\* ckgphase, the two rounds of rkgphase, the loop of rtkphase over the Galois
\* elements, with one share object per party, and cksphase, where party 0
\* computes no share.
SetupPhases == 1 .. 3 + Galois
PirPhases == [k \in 1 .. 4 + Galois |->
  CASE k = 1 -> [kind |-> "ckgShare",    first |-> 0, from |-> 0]
    [] k = 2 -> [kind |-> "rkgShareOne", first |-> 0, from |-> 0]
    [] k = 3 -> [kind |-> "rkgShareTwo", first |-> 0, from |-> 2]
    [] k \in SetupPhases \ 1 .. 3 -> [kind |-> "rtgShare", first |-> 0, from |-> 0]
    [] OTHER -> [kind |-> "cksShare", first |-> 1, from |-> 0]]

VARIABLES
  now,        \* the phase of main
  encInputs,  \* number of rows that have been encrypted
  encQuery,   \* has genquery returned?
  output,     \* what main prints
  phase, loop, member, share, combined  \* Collective

collective == <<phase, loop, member, share, combined>>
inputs == <<encInputs, encQuery>>
mainVars == <<vars, now, inputs, output, collective>>

Keys == INSTANCE Collective WITH Parties <- N, Phases <- PirPhases

\* The input of party i holds i in every slot (genparties).
Content(i) == i
Noise == -1
Nothing == -2

MainTypeOK ==
  /\ TypeOK
  /\ Keys!CollectiveTypeOK
  /\ now \in {"setup", "encrypt", "query", "request", "switch", "decrypt", "finished"}
  /\ encInputs \in 0 .. N
  /\ encQuery \in BOOLEAN
  /\ output \in Int

MainInit ==
  /\ Init
  /\ Keys!CollectiveInit
  /\ now = "setup"
  /\ encInputs = 0
  /\ encQuery = FALSE
  /\ output = Nothing

-----------------------------------------------------------------------------
Goto(from, to) == now = from /\ now' = to

\* ckgphase, rkgphase and rtkphase
Setup ==
  /\ now = "setup"
  /\ Keys!CollectiveStep
  /\ now' = IF phase' \in SetupPhases THEN now ELSE "encrypt"
  /\ UNCHANGED <<vars, inputs, output>>

\* One row after the other, with one plaintext for all.
Encrypt ==
  /\ now = "encrypt"
  /\ encInputs' = encInputs + 1
  /\ now' = IF encInputs' < N THEN now ELSE "query"
  /\ UNCHANGED <<vars, encQuery, output, collective>>

GenQuery ==
  /\ Goto("query", "request")
  /\ encQuery' = TRUE
  /\ UNCHANGED <<vars, encInputs, output, collective>>

InRequest(A) == now = "request" /\ A /\ UNCHANGED <<now, inputs, output, collective>>

RequestDone ==
  /\ returned
  /\ Goto("request", "switch")
  /\ UNCHANGED <<vars, inputs, output, collective>>

\* cksphase
Switch ==
  /\ now = "switch"
  /\ Keys!CollectiveStep
  /\ now' = IF phase' \in Keys!PhaseNumber THEN now ELSE "decrypt"
  /\ UNCHANGED <<vars, inputs, output>>

\* What the key of party 0 decrypts: the sum of the rows in the result, or
\* noise, if a combined share is not exact.
Decrypted ==
  IF \E k \in Keys!PhaseNumber : ~Keys!Exact(k) THEN Noise
  ELSE MapThenSumSet(LAMBDA i : result[i] * Content(i), Row)

Decrypt ==
  /\ Goto("decrypt", "finished")
  /\ output' = Decrypted
  /\ UNCHANGED <<vars, inputs, collective>>

MainNext == Setup \/ Encrypt \/ GenQuery \/ InRequest(Next) \/ RequestDone \/ Switch \/ Decrypt

MainSpec == MainInit /\ [][MainNext]_mainVars

\* The scheduler runs every goroutine that can run.
MainFairness ==
  /\ WF_mainVars(Setup \/ Encrypt \/ GenQuery \/ RequestDone \/ Switch \/ Decrypt)
  /\ WF_mainVars(InRequest(CloseTasks \/ AddPartial \/ Return \/ \E w \in Worker : Hand(w)))
  /\ \A w \in Worker :
        WF_mainVars(InRequest(Mask(w) \/ InnerSum(w) \/ Multiply(w) \/ Down(w)))

MainFairSpec == MainSpec /\ MainFairness

-----------------------------------------------------------------------------
(* Properties.                                                             *)

\* The external party retrieves the content of one ciphertext: main prints
\* the row of the query, whichever workers computed the partial results, and
\* although all rotation keys come from the same share objects and party 0
\* contributes to the switch only the share it never computed.
OutputIsRow ==
  now = "finished" => QueryIndex \in Row /\ output = Content(QueryIndex)

\* main returns, whichever worker gets which row.
MainReturns == <>(now = "finished")
=============================================================================
