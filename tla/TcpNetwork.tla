----------------------------- MODULE TcpNetwork -----------------------------
(***************************************************************************)
(* Establishing the connections of an experiment: TCPNetworkStruct.Connect *)
(* in apps/tpl/network.go, called by every party once per network: one     *)
(* network for "he", two one after the other for "mhe" (apps/tpl/main.go). *)
(*                                                                         *)
(* A party listens for all parties with a smaller ID and dials all parties *)
(* with a larger one.  Connect runs one accept goroutine and one goroutine *)
(* per dialled peer, and returns when the WaitGroup `ready' reaches zero.  *)
(* Both networks of a party listen on the same port.                       *)
(*                                                                         *)
(* The kernel is modelled by listener (the network whose goroutine holds   *)
(* the port), by backlog and by link: dialling succeeds when the port of   *)
(* the peer is open, before any Accept, and the connections that are still *)
(* in the backlog when the listening socket is closed are reset.           *)
(***************************************************************************)
EXTENDS Integers, Sequences, FiniteSets, SequencesExt

CONSTANTS N,          \* number of parties, with IDs 0 .. N-1
          Networks,   \* networks set up one after the other: 1 "he", 2 "mhe"
          Attempts    \* CONNECT_ATTEMPTS (5 in the code)

ASSUME NAssumption == N \in Nat \ {0}
ASSUME NetworksAssumption == Networks \in Nat \ {0}
ASSUME AttemptsAssumption == Attempts \in Nat \ {0}

Party   == 0 .. N - 1
Network == 1 .. Networks

DialFor(p) == {q \in Party : p < q}
\* Faulty: a party also waits for itself.
WaitForSelf(p) == {q \in Party : p >= q}

WaitFor(p) == {q \in Party : p > q}

\* The connection that the goroutine of party `from' dials to party `to'.
Dials == {d \in [from : Party, to : Party, net : Network] : d.to \in DialFor(d.from)}
NoDial == [from |-> 0, to |-> 0, net |-> 0]

VARIABLES
  at,        \* at[p]: the last Connect call that p has entered (0: none yet)
  up,        \* the parties whose process runs
  ready,     \* ready[p][k]: counter of the WaitGroup of network k
  conns,     \* conns[p][k]: connections in tnw.Conns of network k
  tries,     \* tries[d]: refused attempts of the dialling goroutine
  link,      \* link[d]: what has become of the connection in the kernel
  named,     \* connections on which the dialler has written its ID
  listened,  \* listened[q]: networks whose accept goroutine has called Listen
  listener,  \* listener[q]: the network that holds the port of q, or 0
  backlog,   \* backlog[q]: established connections waiting for Accept
  current,   \* current[q]: accepted connection whose ID is being read
  accepts,   \* accepts[q][k]: iterations left of the accept loop
  failedBind \* the parties that panicked because net.Listen failed

kernel == <<link, named, listener, backlog>>
vars == <<at, up, ready, conns, tries, link, named, listened, listener,
          backlog, current, accepts, failedBind>>

TypeOK ==
  /\ at \in [Party -> 0 .. Networks]
  /\ up \subseteq Party
  /\ ready \in [Party -> [Network -> 0 .. N - 1]]
  /\ conns \in [Party -> [Network -> SUBSET Dials]]
  /\ tries \in [Dials -> 0 .. Attempts]
  /\ link \in [Dials -> {"none", "queued", "accepted", "reset"}]
  /\ named \subseteq Dials
  /\ listened \in [Party -> SUBSET Network]
  /\ listener \in [Party -> 0 .. Networks]
  /\ backlog \in [Party -> Seq(Dials)]
  /\ current \in [Party -> Dials \cup {NoDial}]
  /\ accepts \in [Party -> [Network -> 0 .. N - 1]]
  /\ failedBind \subseteq Party

Init ==
  /\ at = [p \in Party |-> 0]
  /\ up = Party
  /\ ready = [p \in Party |-> [k \in Network |->
                Cardinality(WaitFor(p)) + Cardinality(DialFor(p))]]
  /\ conns = [p \in Party |-> [k \in Network |-> {}]]
  /\ tries = [d \in Dials |-> 0]
  /\ link = [d \in Dials |-> "none"]
  /\ named = {}
  /\ listened = [p \in Party |-> {}]
  /\ listener = [p \in Party |-> 0]
  /\ backlog = [p \in Party |-> <<>>]
  /\ current = [p \in Party |-> NoDial]
  /\ accepts = [p \in Party |-> [k \in Network |-> Cardinality(WaitFor(p))]]
  /\ failedBind = {}

-----------------------------------------------------------------------------
\* ready.Wait() of network k has let the main goroutine of p pass.
Returned(p, k) == at[p] >= k /\ ready[p][k] = 0

\* The process of p panics: the kernel closes its port and its connections.
Panic(p) ==
  /\ up' = up \ {p}
  /\ listener' = [listener EXCEPT ![p] = 0]
  /\ backlog' = [backlog EXCEPT ![p] = <<>>]
  /\ current' = [current EXCEPT ![p] = NoDial]
  /\ link' = [d \in Dials |-> IF d.to = p /\ link[d] \in {"queued", "accepted"}
                              THEN "reset" ELSE link[d]]

\* The main goroutine calls Connect for its next network.  In "mhe" the two
\* calls are separated by RkgProtocol.Run, which returns only when every
\* party has contributed to it, hence has returned from the first Connect.
Connect(p) ==
  /\ p \in up
  /\ at[p] < Networks
  /\ \A q \in Party : at[p] > 0 => Returned(q, at[p])
  /\ at' = [at EXCEPT ![p] = @ + 1]
  /\ UNCHANGED <<up, ready, conns, tries, kernel, listened, current, accepts,
                 failedBind>>

-----------------------------------------------------------------------------
(* The accept goroutine of network k at party q.                           *)

MustListen(q, k) == q \in up /\ at[q] >= k /\ k \notin listened[q]

Listen(q, k) ==
  /\ MustListen(q, k)
  /\ listener[q] = 0
  /\ listener' = [listener EXCEPT ![q] = k]
  /\ listened' = [listened EXCEPT ![q] = @ \cup {k}]
  /\ UNCHANGED <<at, up, ready, conns, tries, link, named, backlog, current,
                 accepts, failedBind>>

\* The port is still held by the goroutine of another network.
ListenFails(q, k) ==
  /\ MustListen(q, k)
  /\ listener[q] # 0
  /\ Panic(q)
  /\ failedBind' = failedBind \cup {q}
  /\ listened' = [listened EXCEPT ![q] = @ \cup {k}]
  /\ UNCHANGED <<at, ready, conns, tries, named, accepts>>

Accept(q) ==
  /\ q \in up
  /\ listener[q] # 0
  /\ accepts[q][listener[q]] > 0
  /\ current[q] = NoDial
  /\ backlog[q] # <<>>
  /\ current' = [current EXCEPT ![q] = Head(backlog[q])]
  /\ backlog' = [backlog EXCEPT ![q] = Tail(@)]
  /\ link' = [link EXCEPT ![Head(backlog[q])] = "accepted"]
  /\ UNCHANGED <<at, up, ready, conns, tries, named, listened, listener,
                 accepts, failedBind>>

\* Faulty: the connection is counted but not registered.
ReadIDUnregistered(q) ==
  /\ q \in up
  /\ current[q] \in named
  /\ LET k == listener[q]
     IN  /\ ready' = [ready EXCEPT ![q][k] = @ - 1]
         /\ accepts' = [accepts EXCEPT ![q][k] = @ - 1]
  /\ current' = [current EXCEPT ![q] = NoDial]
  /\ UNCHANGED <<at, up, conns, tries, kernel, listened, failedBind>>

\* Read the ID of the peer, register the connection, ready.Done().
ReadID(q) ==
  /\ q \in up
  /\ current[q] \in named
  /\ LET k == listener[q]
     IN  /\ conns' = [conns EXCEPT ![q][k] = @ \cup {current[q]}]
         /\ ready' = [ready EXCEPT ![q][k] = @ - 1]
         /\ accepts' = [accepts EXCEPT ![q][k] = @ - 1]
  /\ current' = [current EXCEPT ![q] = NoDial]
  /\ UNCHANGED <<at, up, tries, kernel, listened, failedBind>>

\* The dialler died before it wrote its ID: end of file, check(err) panics.
ReadIDFails(q) ==
  /\ q \in up
  /\ current[q] # NoDial
  /\ current[q] \notin named
  /\ current[q].from \notin up
  /\ Panic(q)
  /\ UNCHANGED <<at, ready, conns, tries, named, listened, accepts, failedBind>>

\* Faulty: the socket is closed before the last iteration.
CloseListenerEarly(q) ==
  /\ q \in up
  /\ listener[q] # 0
  /\ current[q] = NoDial
  /\ accepts[q][listener[q]] <= 1
  /\ listener' = [listener EXCEPT ![q] = 0]
  /\ backlog' = [backlog EXCEPT ![q] = <<>>]
  /\ link' = [d \in Dials |-> IF d \in ToSet(backlog[q]) THEN "reset" ELSE link[d]]
  /\ UNCHANGED <<at, up, ready, conns, tries, named, listened, current,
                 accepts, failedBind>>

\* After its last iteration the goroutine closes the listening socket.
CloseListener(q) ==
  /\ q \in up
  /\ listener[q] # 0
  /\ accepts[q][listener[q]] = 0
  /\ listener' = [listener EXCEPT ![q] = 0]
  /\ backlog' = [backlog EXCEPT ![q] = <<>>]
  /\ link' = [d \in Dials |-> IF d \in ToSet(backlog[q]) THEN "reset" ELSE link[d]]
  /\ UNCHANGED <<at, up, ready, conns, tries, named, listened, current,
                 accepts, failedBind>>

-----------------------------------------------------------------------------
(* The goroutine of party d.from that dials party d.to for network d.net.  *)

Dialling(d) ==
  /\ d.from \in up
  /\ at[d.from] >= d.net
  /\ link[d] = "none"

\* The loop ends, and its counter with it.
DialOk(d) ==
  /\ Dialling(d)
  /\ tries[d] < Attempts
  /\ listener[d.to] # 0
  /\ link' = [link EXCEPT ![d] = "queued"]
  /\ backlog' = [backlog EXCEPT ![d.to] = Append(@, d)]
  /\ tries' = [tries EXCEPT ![d] = 0]
  /\ UNCHANGED <<at, up, ready, conns, named, listened, listener,
                 current, accepts, failedBind>>

\* The container of the peer does not run yet, or nobody listens there: the
\* goroutine waits CONNECT_ATTEMPTS_DELAY and tries again.
DialRefused(d) ==
  /\ Dialling(d)
  /\ tries[d] < Attempts
  /\ listener[d.to] = 0
  /\ tries' = [tries EXCEPT ![d] = @ + 1]
  /\ UNCHANGED <<at, up, ready, conns, kernel, listened, current, accepts,
                 failedBind>>

\* All attempts are spent: conn is nil and writing the ID to it panics.
GiveUp(d) ==
  /\ Dialling(d)
  /\ tries[d] = Attempts
  /\ Panic(d.from)
  /\ UNCHANGED <<at, ready, conns, tries, named, listened, accepts, failedBind>>

MustName(d) ==
  /\ d.from \in up
  /\ link[d] # "none"
  /\ d \notin conns[d.from][d.net]

\* Register the connection, write the own ID, ready.Done().  A write on a
\* connection that has just been reset may still succeed.
WriteID(d) ==
  /\ MustName(d)
  /\ conns' = [conns EXCEPT ![d.from][d.net] = @ \cup {d}]
  /\ named' = named \cup {d}
  /\ ready' = [ready EXCEPT ![d.from][d.net] = @ - 1]
  /\ UNCHANGED <<at, up, tries, link, listened, listener, backlog, current,
                 accepts, failedBind>>

WriteIDFails(d) ==
  /\ MustName(d)
  /\ link[d] = "reset"
  /\ Panic(d.from)
  /\ UNCHANGED <<at, ready, conns, tries, named, listened, accepts, failedBind>>

-----------------------------------------------------------------------------
Next ==
  \/ \E p \in Party : \/ Connect(p)
                      \/ Accept(p)
                      \/ ReadID(p)
                      \/ ReadIDFails(p)
                      \/ CloseListener(p)
                      \/ \E k \in Network : Listen(p, k) \/ ListenFails(p, k)
  \/ \E d \in Dials : \/ DialOk(d)
                      \/ DialRefused(d)
                      \/ GiveUp(d)
                      \/ WriteID(d)
                      \/ WriteIDFails(d)

Spec == Init /\ [][Next]_vars

\* Every container is started and every goroutine that can run is run.
Fairness ==
  /\ \A p \in Party :
        /\ WF_vars(Connect(p)) /\ WF_vars(Accept(p)) /\ WF_vars(ReadID(p))
        /\ WF_vars(ReadIDFails(p)) /\ WF_vars(CloseListener(p))
        /\ \A k \in Network : WF_vars(Listen(p, k) \/ ListenFails(p, k))
  /\ \A d \in Dials :
        /\ WF_vars(DialOk(d) \/ DialRefused(d))
        /\ WF_vars(GiveUp(d))
        /\ WF_vars(WriteID(d) \/ WriteIDFails(d))

FairSpec == Spec /\ Fairness

-----------------------------------------------------------------------------
(* Properties.                                                             *)

\* `ready' counts Done calls, not peers.  When it lets Connect return, the
\* map Conns has one connection for every peer, and it is the connection the
\* two ends established for this very network.
ReadyMeansMesh ==
  \A p \in Party, k \in Network : Returned(p, k) =>
     conns[p][k] = {d \in Dials : d.net = k /\ p \in {d.from, d.to}}

\* Both ends of a connection of a Connect that has returned run, and yet it
\* has been reset: this happens only to a dialler of a later network, whose
\* dial was taken into the backlog of the listening socket of the network
\* before, so that the other end never gets to know it.
ResetOnlyByOldListener ==
  \A p \in up, k \in Network : Returned(p, k) =>
     \A d \in conns[p][k] :
        link[d] = "reset" /\ {d.from, d.to} \subseteq up =>
           k > 1 /\ p = d.from /\ d \notin conns[d.to][k]

\* Listen never finds the port taken ("cannot create listening socket").
ListenSucceeds == failedBind = {}

\* A dialler is refused only because its peer has not called Listen yet, or
\* has died: the accept goroutine keeps the port open as long as one of the
\* parties it waits for has not reached it.
RefusedOnlyBeforeListen ==
  [][\A d \in Dials : tries'[d] > tries[d] =>
        d.to \notin up \/ d.net \notin listened[d.to]]_vars

\* Every Connect call returns, unless some process panics or a connection was
\* swallowed by the listening socket of the network before.
ConnectReturns ==
  <>(\/ up # Party
     \/ \E d \in Dials : link[d] = "reset"
     \/ \A p \in Party, k \in Network : Returned(p, k))
=============================================================================
