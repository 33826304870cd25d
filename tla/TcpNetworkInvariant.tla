------------------------ MODULE TcpNetworkInvariant ------------------------
(***************************************************************************)
(* The inductive invariant behind the safety properties of TcpNetwork.     *)
(*                                                                         *)
(* The counters `ready' and `accepts' say how many connections are missing *)
(* in the map Conns.  A Connect call of a later network is entered only    *)
(* when they are zero everywhere, hence while a party still has iterations *)
(* of Accept to do, only dials of that network can reach its backlog.      *)
(***************************************************************************)
EXTENDS TcpNetwork

\* The connections of network k that party p has when its Connect returns,
\* and those among them that it accepts.
Mesh(p, k)     == {d \in Dials : d.net = k /\ p \in {d.from, d.to}}
Incoming(p, k) == {d \in Dials : d.net = k /\ p = d.to}

\* Both counters count what Conns lacks.
Counted ==
  \A p \in Party, k \in Network :
     /\ conns[p][k] \subseteq Mesh(p, k)
     /\ ready[p][k] = N - 1 - Cardinality(conns[p][k])
     /\ accepts[p][k] = Cardinality(WaitFor(p)) - Cardinality(conns[p][k] \cap Incoming(p, k))

\* Nobody is in a Connect call while another one has not returned from the
\* call before.
InTurn == \A p, q \in Party, k \in Network : at[p] > k => Returned(q, k)

\* The accept goroutine of network k holds the port from Listen until it has
\* accepted everybody.
Port ==
  \A q \in Party :
     /\ \A k \in listened[q] : k <= at[q]
     /\ listener[q] # 0 => listener[q] \in listened[q]
     /\ q \in up => \A k \in listened[q] : listener[q] = k \/ accepts[q][k] = 0

\* The backlog holds each queued connection once, and nothing else.
Waiting ==
  \A q \in Party :
     /\ \A i \in DOMAIN backlog[q] : /\ backlog[q][i].to = q
                                     /\ link[backlog[q][i]] = "queued"
                                     /\ backlog[q][i].net >= listener[q]
     /\ \A i, j \in DOMAIN backlog[q] : backlog[q][i] = backlog[q][j] => i = j
     /\ listener[q] = 0 => backlog[q] = <<>>

\* A goroutine that still has to accept somebody finds only dials of its own
\* network in the backlog.
OwnDials ==
  \A q \in Party : listener[q] # 0 /\ accepts[q][listener[q]] > 0 =>
     \A i \in DOMAIN backlog[q] : backlog[q][i].net = listener[q]

\* The connection whose ID is being read.
Reading ==
  \A q \in Party : current[q] # NoDial =>
     /\ current[q].to = q
     /\ current[q].net = listener[q]
     /\ accepts[q][listener[q]] > 0
     /\ link[current[q]] = "accepted"
     /\ current[q] \notin conns[q][listener[q]]

\* The dialler names a connection when it registers it; the other end knows
\* only connections that it has accepted.
Registered ==
  \A d \in Dials :
     /\ d \in named <=> d \in conns[d.from][d.net]
     /\ d \in named => link[d] # "none"
     /\ d \in conns[d.to][d.net] => link[d] \in {"accepted", "reset"}

\* Between parties that run, only the listening socket of an earlier network
\* resets connections.
Swallowed ==
  \A d \in Dials : link[d] = "reset" /\ {d.from, d.to} \subseteq up =>
     d.net > 1 /\ d \notin conns[d.to][d.net]

KernelInv == Port /\ Waiting /\ OwnDials /\ Reading /\ Registered /\ Swallowed

IInv == TypeOK /\ Counted /\ InTurn /\ KernelInv
=============================================================================
