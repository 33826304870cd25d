# Specifications of the MHE experiments

TLA+ models, TLC runs and TLAPS proofs for the three experiment programs of
this repository: `apps/tpl` (generation of Beaver triples by several
processes), `apps/psi` and `apps/pir` (one process with a pool of workers).

## The system

| component | state | operations | interacts with |
|---|---|---|---|
| connection setup, `apps/tpl/network.go` | `Conns`, the WaitGroup `ready`, the listening socket | `Connect`: one accept goroutine, one goroutine per dialled peer; `Sum` | the kernel; called by the clients, read by `BindNetwork` |
| pairwise triples ("he"), `apps/tpl/offline_he.go` | `hasQueried`, `hasResponded`, `encAggr`, the channels of the peers and of the protocol | `Run`, `processQuery`, `processResponse`, `IsComplete`, the goroutines of `BindNetwork` | all peers, by messages over TCP |
| tree, `NewTree` in `apps/tpl/offline_mhe.go` | parent and children of each party | `NewTree` | read by the constructors of the two tree protocols |
| relinearization key, `apps/tpl/genrlk.go` | `crp`, `share1`, `share2`, one counter `state`, channels | `Run` (rounds 0 to 3), `BindNetwork` | parent and children, by messages over TCP |
| triples along the tree ("mhe"), `apps/tpl/offline_mhe.go` | sums of ciphertexts, `decryptionShare`, one counter `state`, channels | `Run` (rounds 0 to 2), `BindNetwork` | parent and children, by messages over TCP |
| clients, `apps/tpl/main.go` | none of their own | `Connect`, `Run`, drain `Triples`, exit; for "mhe" twice, then a second of sleep | start all of the above in one process |
| scripts, `run-tpl-parties.sh` | the containers | start one per party; stop all others when that of party 0 has ended | the processes of the parties |
| vectors modulo q, `apps/tpl/utils.go` | | `sampleUniformVector`, `addVec`, `subVec`, `mulVec` | called by both triple protocols |
| PSI, `apps/psi/main.go` | keys and shares of all parties; levels of ciphertexts, channel `tasks`, a WaitGroup per level and one for the workers | collective phases; `evalPhase`: hand out, multiply, relinearize, wait; comparison of the result | the main goroutine and its workers share ciphertexts |
| PIR, `apps/pir/main.go` | keys and shares of all parties; `encPartial`, one `tmp` per worker, channel `tasks`, a WaitGroup | collective phases; `requestphase`: hand out, mask, inner sum, multiply, add up; decryption | the main goroutine and its workers share ciphertexts |
| party records, `apps/tpl/parties.go` | IDs and names | constructors, `check` | read by everything in `tpl` |

What is hard here, and what makes each part correct:

* **he**: a message passes a channel, a goroutine, a connection, a goroutine and
  a channel; a party may exit or panic while any of its messages is at any of
  these places. `Run` looks for completion only after a response, so queries
  must not come last; the aggregate must be exact whenever `Run` returns.
* **connection setup**: a WaitGroup counts, a map registers, and both must agree
  when `Connect` returns; "mhe" sets up two networks on one port, the second
  while goroutines of the first may still run.
* **rkg, mhe**: one counter serves two rounds, and shares are overwritten by
  later computations; the order of the rounds at a node of the tree is nowhere
  checked, it follows from who sends what when.
* **mhe as a process**: the goroutines of the key generation live on while the
  triples are generated, and panic the process on a deadline or a reset; each
  end of a process is felt by its neighbours in both networks.
* **psi, pir**: workers write ciphertexts that others read; only the order of
  WaitGroup and channel operations keeps them apart. The collective phases
  reuse share objects, and each rests on the completeness of the one before.
* **values**: the triples are right only if all masks cancel modulo T, in
  unsigned machine words.

`PROJECT.json` lists every hazard at its line, with the properties that would
catch it going wrong.

## Modules

| module | models | main definitions and the code |
|---|---|---|
| `TripleParties` | the parties of the pairwise protocol | `Peers` |
| `TripleExchange` | what the pairwise protocol promises | `GiveAnswer`, `Collect`: one answer to every peer, one use of each answer |
| `HeTripleGen` | `offline_he.go` and the exit in `main.go` | `SendQuery`, `HandleQuery`, `HandleResponse` are the iterations of the two loops of `Run`; `Send` and `Receive` of the goroutines of `BindNetwork`; `ReceiveEOF`, `ReadFails`, `WriteFails` their ends; `Exit` the return from `main` |
| `HeTripleGenInvariant`, `HeTripleGenProofs` | | inductive invariant, theorems |
| `TcpNetwork` | `Connect` | `Listen` ... `CloseListener` are the accept goroutine, `DialOk` ... `WriteIDFails` the dialling goroutines, `listener`, `backlog` and `link` the kernel |
| `TcpNetworkInvariant`, `TcpNetworkProofs` | | inductive invariant, theorems |
| `Tree` | `NewTree` | `Parent`, `Children`, `Binds` |
| `TreeLinks` | `BindNetwork` of both tree protocols | channels, connections, ends of processes |
| `TreeInvariant`, `TreeProofs` | | subtrees and what they add up to (`Part`), the one message of a link (`Carried`); the lemmas about both that the two tree protocols share |
| `RkgProtocol` | `RkgProtocol.Run` | one action per branch of the message loop |
| `RkgInvariant`, `RkgProofs` | | inductive invariant, theorems |
| `MheTripleGen` | `MHETripleGenProtocol.Run` | one action per branch of the message loop |
| `MheClient` | `ClientMHETripleGen` and `run-tpl-parties.sh` | both protocols in one process: `RunSetup` and `FlowSetup` on the first network, `ConnectAgain`, `Bind`, `RunTriples` and `FlowTriples` on the second; `Exit` the return from `main`, `Stop` docker stop, `FailSetup` and `FailTriples` the panics |
| `MheInvariant`, `MheProofs` | | inductive invariant, theorems |
| `TripleShares` | values of the pairwise protocol, `utils.go` and the delivery of the triples | `AnswerQuery` and `CollectAnswer` are the two actions of `TripleExchange` with values; `Count` the loop over `needed` |
| `TripleSharesInvariant` | | inductive invariant; its theorems are the last part of `HeTripleGenProofs` |
| `Collective` | the collective phases of `psi` and `pir` | `GenShare` and `AddShare` are the iterations of the two loops of each phase |
| `CollectiveProofs` | | lemmas: the phases keep their invariant, whatever their number and kinds |
| `PsiEval` | `evalPhase` | `Hand`, `NextLevel` ... are the main goroutine, `Multiply` ... `Down` the workers |
| `PsiMain` | `main` of `psi` | `Setup`, `Encrypt`, `InEval`, `Switch`, `Check` are its phases in order |
| `PsiInvariant`, `PsiProofs` | | inductive invariant, theorems |
| `PirRequest` | `requestphase` and the masks | as `PsiEval` |
| `PirMain` | `main` of `pir` | `Setup`, `Encrypt`, `GenQuery`, `InRequest`, `Switch`, `Decrypt` |
| `PirInvariant`, `PirProofs` | | inductive invariant, theorems |
| `MC...` | | instances for TLC |

`RkgProtocol` and `MheTripleGen` extend `TreeLinks`, which extends `Tree`.
`MheClient` extends `MheTripleGen`, whose variables are those of the second
network, and instantiates `RkgProtocol` with variables of its own for the first;
both share `proc`, the process. `PsiMain` and `PirMain` extend the module of
their worker pool and instantiate `Collective`. `TripleShares` extends
`TripleExchange`. Each `...Invariant` module extends the module it is about and
adds the inductive invariant, `IInv` or `SharesInv`; the `MC...` module extends that, so that TLC
checks the very formula that the proofs use. Each `...Proofs` module extends the
invariant; `HeTripleGenProofs` extends `TripleSharesInvariant` too; `MheProofs`
instantiates `RkgProofs` for the first network, `PsiProofs` and `PirProofs`
instantiate `CollectiveProofs`.
`HeTripleGen` instantiates `TripleExchange` with the refinement mapping
`answered <- hasQueried`, `received <- hasResponded`, `finished <-` the parties
that have returned.

Definitions under a comment `Faulty:` are not part of any specification: each
is the form that a definition would have after a plausible mistake, used to see
that a property notices it.

### Conventions of the models

* A ciphertext or a share is symbolic: which inputs, masks and shares are in it,
  and how often. Sums and products of ciphertexts are taken to decrypt to sums
  and products; noise is not modelled.
* One iteration of a message loop is one step. Within it, code that only touches
  variables of the own `Run` cannot be observed; the sends to channels can, but
  they are put into the channels of goroutines, each of which sees only its own
  channel. In `HeTripleGen` a send waits while its channel is full, so each
  handler there has at most one send. The handlers of the tree protocols have
  several, and `NeverFull` shows that none of them ever waits. The order of a
  handler's sends and its own computation does not show either: a party of "mhe"
  sends the product to its children before it computes its own share
  (`offline_mhe.go:196-200`, `212-217`), but takes no message in between.
* A message is written and read as a whole unless its sender ends: a process
  that ends in the middle of a write leaves a torn message (`torn`), which the
  reader meets as an unexpected EOF after the whole messages before it.
* A connection keeps the order of messages and loses none while both processes
  run. It has no capacity: the reader of a connection stops only while the
  channel of the protocol is full, and with 32 places that is impossible for
  the up to 16 parties of `run-tpl-exp.sh` (30 messages per party).
* A process that ends closes its connections. The peer reads what was written,
  then EOF; or, if it had sent something that was never read, a reset.
* `DeadlinesFire` says whether a read may wait longer than 20 s. A deadline can
  then pass at any moment.
* The range over a Go map has no order: `SendQuery` takes any peer that is left.

## Runs

| run | instance | what it shows |
|---|---|---|
| `he_exits` | 3 parties, channels of 2, no deadline | all safety properties, `AllReturnOrLoss`, and that `HeTripleGen` implements `TripleExchange` |
| `he_deadlines` | 3 parties, channels of 1, deadlines | `IInv`, the invariant of the proofs, when sends block and reads time out; up to symmetry of the parties, and up to the second panic |
| `he_all_finish` | 2 parties | violated: see findings |
| `tcp_networks` | 3 parties, 2 networks, 2 attempts | `IInv`; connections of the two networks never mix; dials are refused only before `Listen`; `ResetOnlyByOldListener`: a live connection is lost only if the old listening socket has swallowed the dial of the second network; else `Connect` returns |
| `tcp_port_taken` | 2 parties, 2 networks | violated: see findings |
| `rkg_setup` | 5 parties, binary tree, deadlines | `IInv`; the key is exact, rounds do not mix, nothing is left after `Run`; panics never lead to a wrong key or an early return |
| `mhe_client` | 4 processes, no deadline | `IInv`; the triples are exact, own shares come first, no channel fills up; exits and docker stop disturb nobody unless a party exits with messages unsent; everybody returns, with the same exception |
| `mhe_deadlines` | 3 processes, deadlines in both networks | `SetupDone`: nobody starts with the triples while the first network has a message left; docker stop takes triples from nobody; a result, if there is one, is exact |
| `psi_main` | 8 parties, 3 workers | `IInv`; no data race, no unfinished operand, `main` returns and prints "correct" |
| `psi_three_parties` | 3 parties | violated: see findings |
| `pir_main` | 4 rows, 3 workers, index 2, 2 Galois elements | `IInv`; partial results are final when they are added, the row of the query is printed, `main` returns |
| `triple_shares` | 3 parties, T = 5, words of 4 bits | `SharesInv`, the invariant of the proofs; the delivered triples are shares of a product modulo T; their number is the one asked for |

### Bounds

* Three parties in the pairwise protocol are two peers for each party, the least
  number at which the messages of different peers mix in one channel and one
  peer may be done while another is not. The proofs cover every number.
* Channels of one or two messages block where the 32 places of the code do not:
  more is blocked in the model than in the code.
* Three parties in the connection setup give a party that only dials, one that
  only accepts and one that does both. Two attempts instead of five are enough
  to have refused dials, retries and exhausted dials.
* Five parties of a binary tree have a root, an inner node with two children and
  a leaf next to it; four have an inner node with one child; three have a root
  with two leaves. The larger trees are those of the runs without deadlines or
  without the second network, where the state space allows them.
* Channels of two messages in the tree protocols: a party never has more than
  two neighbours to hear from at once; `NeverFull` in `mhe_client` and `NeverBlocks`
  for both protocols show that two suffice.
* Eight inputs have three levels; with three workers a level of four cannot be
  handed out at once and a level of two leaves a worker without a task. One slot
  stands for all; `MaxZeros` bounds how many of its inputs are zero, and one zero
  is enough to tell a product that forgets an input.
* Two Galois elements instead of the 13 or so of the inner sum are enough for a
  share object to be used again.
* `Samples` in `MCTripleShares` bounds what each party samples: the shares are
  linear in the masks and bilinear in the inputs, and the values pass the
  modulus 5 in sums and differences. `Asked` goes from none to one more than
  there are; `main` always asks for as many as there are (`tpl/main.go:35`), so
  `DeliveredCount` is about `Run` and its parameter, not about the experiments.
* `MaxPanics` in `MCHeTripleGen` stops the search of `he_deadlines` beyond the
  second panic.
* No run checks for deadlock: all of these programs end.

### Fairness

The specifications named `...FairSpec` state weak fairness for every goroutine:
the Go scheduler runs each goroutine that can run, and TCP delivers what was
written. Each fair action stays enabled until it is taken or its process ends.
Failures (`ReadFails`, `WriteFails`, `FailSetup`, `FailTriples`) and docker stop
have no fairness: nothing in the code or the system forces them. In `he_exits`
and `mhe_client` deadlines do not pass, since a deadline that may pass at any
time refutes every progress property. The message loop of the tree protocols is
one sequential goroutine, so fairness is stated for its step as a whole; so are
the main goroutine and each worker of `psi` and `pir`. `Hand` belongs to the main
goroutine: a worker may never get a task.

## Findings

* `tcp_port_taken`: `Connect` returns when `ready` is zero (`network.go:121`),
  before the accept goroutine has called `listener.Close()` (`network.go:94`).
  The second `Connect` of "mhe" (`main.go:137`) listens on the same port and can
  panic with "cannot create listening socket".
* `he_all_finish`: the README (line 61) attributes failed experiments to slow
  containers and resets. In "he" a party exits right after its own `Run`
  (`main.go:78-91`); a response that is still in the channel of a sending
  goroutine is lost, and its peer waits for ever. `PanicOnlyAfterLoss` and
  `AllReturnOrLoss` say that, deadlines aside, this is the only cause of a
  failure once the connections stand. ("mhe" sleeps for a second before it
  exits, which makes the same loss unlikely.)
* `psi_three_parties`: `evalPhase` multiplies all inputs only if their number is
  a power of two (`psi/main.go:204`); with three parties the comparison at the
  end of `main` prints "incorrect" when the third has the only zero of a slot.

## Proofs

Every safety invariant that a run checks is also proved for every value of the
constants; so are the action properties `RefusedOnlyBeforeListen` and `DeliveredCount`
and the refinement `ImplementsExchange`. In each module the
argument has the same form: `IInv` holds initially, every action preserves it (one
lemma per action), and it implies the properties. TLC checks `IInv` on an instance of
each specification first.

| module | theorems, of the form `Spec => []P` unless it says otherwise | assumptions and hypotheses |
|---|---|---|
| `HeTripleGenProofs` | `Invariant`, `TypeCorrect`, `QueriesComeFirst`, `NoCompletionMissed`, `AggregatesExact`, `NoQueryIsLeft`, `PanicsComeFromLosses`; `Refinement`: the specification implies `ImplementsExchange` | any set of parties, any capacity, deadlines or not |
| `HeTripleGenProofs`, on `TripleShares` | `ValuesInvariance`, `ProductIsShared`; `CountIsDelivered`, an action property | finitely many parties; the assumptions of `TripleShares`: a modulus of at least 2, words that hold two residues and the length of a vector |
| `TcpNetworkProofs` | `Invariance`, `TypeCorrect`, `ConnectComplete`, `ResetsExplained`; `RefusalsExplained`, an action property | at least one party, one network, one attempt |
| `RkgProofs` | `Invariance`, `TypeCorrect`, `KeyIsExact`, `RoundsApart`, `ReturnsTogether`, `QuietAfterReturn`, `NeverBlocks` | at least one party, branching at least one; `NeverBlocks` if `Branching <= ChanCap` |
| `MheProofs` | `Invariance`, `TypeCorrect`, `TriplesAreExact`, `OwnShareIsFirst`, `SetupIsDone`, `StopIsHarmless`, `PanicsOnlyAfterLoss`, `NeverBlocks`, all for `ClientSpec`, the whole process | as `RkgProofs`; `PanicsOnlyAfterLoss` if deadlines do not fire |
| `PsiProofs` | `Invariance`, `MainTypeCorrect`, `NoneIsShared`, `OperandsAreFinished`, `AlwaysCorrect` | at least one party, one worker; `AlwaysCorrect` if the number of parties is a power of two |
| `PirProofs` | `Invariance`, `MainTypeCorrect`, `PartialsAreFinal`, `RowRetrieved` | at least one party, one worker, one Galois element; `RowRetrieved` if the index of the query is that of a row |

The hypotheses are those of the code. `Branching <= ChanCap`: the channels have 32
places, and the scripts build trees of far fewer children. A power of two:
`psi_three_parties` is what happens otherwise. An index that is a row: see "Not
modelled". That deadlines do not fire is the subject of the property: a deadline may
panic any process.

### The pairwise protocol

The safety properties are not inductive. `QueryBeforeResponse`, for instance,
speaks of what has been handled, and nothing in it excludes a response that is
in a channel ahead of the query. `IInv` therefore follows the two messages that
a party p ever sends to a party q, its query and its response. `QueryPlace` and
`AnswerPlace` say that each is at exactly one of five places (not sent, outbox,
wire, inbox, handled); `NoCopies` that it is there once; `Order` that the query
is never behind the response; `Contents` and `InboxContents` that nothing else
is under way. `LocalInv` ties them to the variables of one party: the aggregate
holds exactly the answers of the peers in `hasResponded`, a party that returned
is complete, a torn message has its sender ended. The step from `IInv` to `IInv'`
is proved pair by pair: `PairFrame` says that an action that leaves the six
places of a pair alone preserves `Pair`, and one lemma per action covers the
pairs it changes. Sequences are reasoned about with `Has`, `Once` and `Before`
alone, whose behaviour under `Append` and `Tail` the first lemmas establish.

`NoQueryIsLeft` follows from `QueryPlace`: a party that returned has handled
every query, so none is anywhere else. `PanicsComeFromLosses` is part of `IInv`:
the first panic needs a peer that has ended with messages of it unread or
unsent; a peer that exited was complete, so it had read everything
(`AllRead`), hence it left something unsent. For `Refinement`, `HandleQuery` maps
to `GiveAnswer`, `HandleResponse` to `Collect`, and everything else to a stutter;
`CompletionNotMissed` makes the IF of `Collect` agree with that of the code.

### The values of the triples

`SharesInv` says which sums `decAggr` (what `encAggr` decrypts to) and `c` are, modulo
`T`, the plaintext modulus: `AnswersSummed` that the
aggregate of p is the sum of the terms of the parties in `received[p]`, `SharesKept`
that `c` is p's own product without the masks that p has given away, and, once p has
finished, with the terms of all others. The vectors are machine words, so each
operation needs its lemma (`AddVec`, `SubVec`, `MulVec`): the result is reduced, and
congruent to that of the integers. `subVec` is where this could fail: the modulus that it adds
keeps the difference from wrapping around at 2^64 (`ReducedSum`).

`ProductIsShared` then adds up over the parties. The sum over a set is a fold that takes
its elements in the order of CHOOSE; `SumRemove` shows by induction on subsets that any
element may be taken first, `SumLinear` that sums are linear, and `SumExchange` that a
double sum can be taken in both orders. The last is why the masks cancel: what all have
given away is, column by column, what all have got (`SharesAddUp`). Induction is over
the well-founded order on the subsets of a finite set (`SubsetInduction`, where what is
proved is a set and not an operator). The lemmas hold for every function; the folds of
the community modules in the specification are shown to be those sums
(`SumFunctionIsSum`, and `MaskedProduct` for the subtraction of the masks).

`CountIsDelivered` computes where the unsigned counter of the delivery loop ends. It
needs that a vector is no longer than 2^64, and nothing else of the counter.

### Connection setup

`ReadyMeansMesh` speaks of the moment when a WaitGroup is zero, so the invariant has
to say what the counters count: `Counted` equates `ready` and `accepts` with what is
missing in `Conns`. That a counter is decremented once per connection holds only if
an accepted connection is new and of the network that is being connected. `InTurn`
says why: nobody enters a `Connect` call before all have returned from the one
before, so that while a party still has something to accept, only dials of that
network are in its backlog (`OwnDials`). Once it has nothing left to accept, its
listening socket may still be open, and may take dials of the next network: that is
the `Swallowed` connection, the only one ever reset between running parties.

### The two tree protocols

Neither protocol checks that messages come in the order of the rounds; it follows
from who sends what when, across the whole tree. Every message answers another one,
so a link never carries two. The invariant says so without listing the places of
messages: the progress of a party (for the key `Seeded`, `Summed`, `Informed`,
`Returned`; for the triples `Collected`, `Informed`, `Returned`) can be read off its
variables, and `Due` computes from the progress of the two ends of a link the message
that is under way on it, if any. `Carried` says that this message, and nothing else,
is on the link, at one of its three places. `LocalInv` gives the sums and the
counter of a party as functions of its progress and of the children it has heard
from; `OrderInv` says that children and parents are never ahead of each other, and
that round two begins nowhere before round one has ended everywhere.

`TreeProofs` holds what both need. `Descent` is defined by sets closed under
`Parent`, without recursion, so that "the root has everybody below it"
(`RootOfAll`), "the subtrees of two children are disjoint" (`SubtreesApart`) and
"adding the sum of a child adds its subtree" (`PartAdd`) can be proved; and the
goroutines move messages without changing what is due (`FlowKept`), whatever the
messages are. `KeyIsExact` is then `Whole(Root) = Everybody`, and `RoundsApart`
and `OwnShareIsFirst` say that `Due` offers nothing else at that progress.

`NeverBlocks` holds because a party is never due messages from more neighbours than
its children: while its parent has something for it, its children have not.

`MheProofs` adds the second phase, with the invariant of the key generation,
`SetupInv!IInv`, as a conjunct. Its proofs are not repeated: `Keys` instantiates
`RkgProofs` on the variables of the first network, and `SameInvariant` says that the
two instances define the same formula. `PhaseInv` and `EndInv` tie the two networks
together: nobody has triples before everybody has returned from the key generation,
and a process exits with its triples and is stopped only after the end of party 0.
The last conjunct of `IInv` is about failures: unless deadlines fire or a message has
been lost in an exit, nobody has panicked and no message is torn (`Orderly`). It is
inductive because of the rest: a party that has ended had returned (for one that was
stopped, because the root returns last, `RootLast`), and nothing is ever under way to a
party that has returned, in either network (`NothingUnderWay`, `SetupOver`), so that no
read or write of its neighbours fails (`NoFailure`).

### PSI and PIR

The invariants follow a task from the moment it is handed out: it is finished, or
exactly one worker has it (`LevelInv`, `DataInv`; `TaskInv`, `RowInv`), and each
WaitGroup is the number of what it waits for. The barrier between the levels then
gives `OperandsAreFinished`, and the close of `tasks` with the wait for the workers
gives `PartialsAreFinal`. `CollectiveInv`, proved once in `CollectiveProofs` for every
sequence of phases, says that in the phase under way all objects below the loop index
are freshly computed, and that a combined share is exact once its phase is over: the
keys and the switched result are what they should be although share objects are used
again. It needs `PhasesOK`, that each phase uses only earlier ones and that phases of
one kind begin with the same party, which both programs' constants satisfy.

`AlwaysCorrect` adds the data: a finished place of level l holds the product of the
2^l inputs below it, and on a power of two these are all inputs. `Width` and `Half`
are recursive functions of the level; the proofs establish that such functions exist
and unfold them. `RowRetrieved` needs one lemma about the fold that adds up rows
(`SumOfRows`); it is stated for the values that occur, one row among zeros.

### What is only model-checked

* Liveness: `AllReturnOrLoss`, `ConnectReturns`, `MainReturns`. Fairness and ENABLED
  are out of the prover's reach.
* The three violations under "Findings", which are single behaviours.

## Not modelled

* The contents of ciphertexts and noise; parameters and samplers of the library.
* PIR with one or two parties: the index of the query is the constant 2
  (`pir/main.go:102`), which is then no row. With two the result is zero; with one
  the key switching divides by zero in `runTimedParty` (`pir/main.go:33`, called at
  `219`) and panics, where `Switch` of `PirMain` goes on.
* A single party of `tpl`, which the scripts never start: `Run` of "he" waits for
  ever, of "mhe" panics on a nil parent.
* The byte counters of `network.go`, which `Sum` reads without synchronisation.
* `negVec`, which no code calls; `parties.go`, which only builds records.
* docker stop in "he": party 0 is there a party like any other, and its end can
  take the triples of parties that are still in `Run`.
* A second `Connect` of "mhe" that fails: `MheClient` takes it to succeed when all
  parties have called it, `TcpNetwork` shows how it can fail.
* Building images, networks and output files of the scripts.

## Plan

Done: the pairwise protocol, connection setup, the tree protocols and the pools of
workers, the programs around them, the values in `TripleShares`; proofs of every
safety invariant and every action property of all of these that a run checks.

Next, proofs:

1. What `TripleShares` says of values holds of `HeTripleGen` with values as additional
   state: the actions of `TripleShares` are those of `TripleExchange` with more
   conjuncts, and `Refinement` maps the steps of `HeTripleGen` to those of
   `TripleExchange`; one theorem could state the two together.
2. The traffic of the tree protocols: how many messages each party sends and gets in a
   round, for every tree.
