-------------------------- MODULE TcpNetworkProofs --------------------------
(***************************************************************************)
(* Proofs that the safety properties of TcpNetwork hold for every number   *)
(* of parties, networks and attempts.                                      *)
(***************************************************************************)
EXTENDS TcpNetworkInvariant, FiniteSetTheorems, SequenceTheorems, TLAPS

-----------------------------------------------------------------------------
(* How many connections a party has to wait for.                           *)

\* A party dials or accepts one connection of a network for every other party.
LEMMA MeshCount ==
  ASSUME NEW p \in Party, NEW k \in Network
  PROVE  IsFiniteSet(Mesh(p, k)) /\ Cardinality(Mesh(p, k)) = N - 1
<1>. DEFINE S == Party \ {p}
            f == [q \in S |-> [from |-> IF p < q THEN p ELSE q,
                               to   |-> IF p < q THEN q ELSE p, net |-> k]]
<1>1. IsFiniteSet(Party) /\ Cardinality(Party) = N
  BY FS_Interval, NAssumption DEF Party
<1>2. IsFiniteSet(S) /\ Cardinality(S) = N - 1
  BY <1>1, FS_RemoveElement
<1>3. f \in Bijection(S, Mesh(p, k))
  <2>1. f \in [S -> Mesh(p, k)]
    BY NAssumption DEF Mesh, Dials, DialFor, Party
  <2>2. ASSUME NEW q \in S, NEW r \in S, f[q] = f[r] PROVE q = r
    BY <2>2
  <2>3. ASSUME NEW d \in Mesh(p, k) PROVE \E q \in S : f[q] = d
    <3>1. /\ d = [from |-> d.from, to |-> d.to, net |-> k]
          /\ d.from \in Party /\ d.to \in Party /\ d.from < d.to
          /\ p = d.from \/ p = d.to
      BY DEF Mesh, Dials, DialFor
    <3>2. CASE p = d.from
      <4>. d.to \in S /\ f[d.to] = d
        BY <3>1, <3>2 DEF Party
      <4>. QED OBVIOUS
    <3>3. CASE p = d.to
      <4>. d.from \in S /\ f[d.from] = d
        BY <3>1, <3>3 DEF Party
      <4>. QED OBVIOUS
    <3>. QED BY <3>1, <3>2, <3>3
  <2>. QED BY <2>1, <2>2, <2>3 DEF Bijection, Injection, Surjection, IsInjective
<1>. QED BY <1>2, <1>3, FS_Bijection DEF ExistsBijection

\* It accepts as many of them as there are parties it waits for.
LEMMA IncomingCount ==
  ASSUME NEW p \in Party, NEW k \in Network
  PROVE  /\ Incoming(p, k) \subseteq Mesh(p, k)
         /\ IsFiniteSet(Incoming(p, k))
         /\ Cardinality(Incoming(p, k)) = Cardinality(WaitFor(p))
         /\ Cardinality(WaitFor(p)) \in 0 .. N - 1
<1>. DEFINE f == [q \in WaitFor(p) |-> [from |-> q, to |-> p, net |-> k]]
<1>1. WaitFor(p) = 0 .. p - 1
  BY NAssumption DEF WaitFor, Party
<1>2. IsFiniteSet(WaitFor(p)) /\ Cardinality(WaitFor(p)) = p
  BY <1>1, FS_Interval, NAssumption DEF Party
<1>3. f \in Bijection(WaitFor(p), Incoming(p, k))
  <2>1. f \in [WaitFor(p) -> Incoming(p, k)]
    BY NAssumption DEF Incoming, Dials, DialFor, WaitFor, Party
  <2>2. ASSUME NEW q \in WaitFor(p), NEW r \in WaitFor(p), f[q] = f[r] PROVE q = r
    BY <2>2
  <2>3. ASSUME NEW d \in Incoming(p, k) PROVE \E q \in WaitFor(p) : f[q] = d
    <3>1. d = [from |-> d.from, to |-> p, net |-> k] /\ d.from \in WaitFor(p)
      BY DEF Incoming, Dials, DialFor, WaitFor, Party
    <3>. QED BY <3>1
  <2>. QED BY <2>1, <2>2, <2>3 DEF Bijection, Injection, Surjection, IsInjective
<1>4. IsFiniteSet(Incoming(p, k)) /\ Cardinality(Incoming(p, k)) = Cardinality(WaitFor(p))
  BY <1>2, <1>3, FS_Bijection DEF ExistsBijection
<1>5. Cardinality(WaitFor(p)) \in 0 .. N - 1
  BY <1>2, NAssumption DEF Party
<1>6. Incoming(p, k) \subseteq Mesh(p, k)
  BY DEF Incoming, Mesh
<1>. QED BY <1>4, <1>5, <1>6

\* The initial value of `ready'.
LEMMA PeersCount ==
  ASSUME NEW p \in Party
  PROVE  Cardinality(WaitFor(p)) + Cardinality(DialFor(p)) = N - 1
<1>1. WaitFor(p) = 0 .. p - 1 /\ DialFor(p) = p + 1 .. N - 1
  BY NAssumption DEF WaitFor, DialFor, Party
<1>2. p \in Int /\ N \in Int /\ 0 <= p /\ p <= N - 1
  BY NAssumption DEF Party
<1>3. Cardinality(0 .. p - 1) = p
  BY <1>2, FS_Interval
<1>4. Cardinality(p + 1 .. N - 1) = N - 1 - p
  <2>1. p + 1 \in Int /\ N - 1 \in Int
    BY <1>2
  <2>2. Cardinality(p + 1 .. N - 1) = IF p + 1 > N - 1 THEN 0 ELSE N - 1 - (p + 1) + 1
    BY <2>1, FS_Interval
  <2>. QED BY <1>2, <2>2
<1>. QED BY <1>1, <1>2, <1>3, <1>4

\* What the counters say of any part C of the mesh.
LEMMA CountMissing ==
  ASSUME NEW p \in Party, NEW k \in Network, NEW C \in SUBSET Mesh(p, k)
  PROVE  LET missing  == N - 1 - Cardinality(C)
             toAccept == Cardinality(WaitFor(p)) - Cardinality(C \cap Incoming(p, k))
         IN  /\ IsFiniteSet(C) /\ IsFiniteSet(C \cap Incoming(p, k))
             /\ missing \in 0 .. N - 1 /\ toAccept \in 0 .. N - 1
             /\ missing = 0 <=> C = Mesh(p, k)
             /\ toAccept = 0 <=> Incoming(p, k) \subseteq C
<1>. DEFINE I == C \cap Incoming(p, k)
<1>1. /\ IsFiniteSet(C) /\ Cardinality(C) \in Nat /\ Cardinality(C) <= N - 1
      /\ Cardinality(C) = N - 1 <=> C = Mesh(p, k)
  BY MeshCount, FS_Subset, FS_CardinalityType
<1>2. /\ IsFiniteSet(I) /\ Cardinality(I) \in Nat /\ Cardinality(I) <= Cardinality(WaitFor(p))
      /\ Cardinality(I) = Cardinality(WaitFor(p)) <=> I = Incoming(p, k)
      /\ Cardinality(WaitFor(p)) \in 0 .. N - 1
  <2>1. I \in SUBSET Incoming(p, k)
    OBVIOUS
  <2>. QED BY <2>1, IncomingCount, FS_Subset, FS_CardinalityType
<1>3. I = Incoming(p, k) <=> Incoming(p, k) \subseteq C
  OBVIOUS
<1>. QED BY <1>1, <1>2, <1>3, NAssumption

\* When a counter is zero, nothing is missing.
LEMMA NothingMissing ==
  ASSUME Counted, NEW p \in Party, NEW k \in Network
  PROVE  /\ ready[p][k] \in 0 .. N - 1 /\ accepts[p][k] \in 0 .. N - 1
         /\ ready[p][k] = 0 <=> conns[p][k] = Mesh(p, k)
         /\ accepts[p][k] = 0 <=> Incoming(p, k) \subseteq conns[p][k]
         /\ ready[p][k] = 0 => accepts[p][k] = 0
<1>1. /\ conns[p][k] \in SUBSET Mesh(p, k)
      /\ ready[p][k] = N - 1 - Cardinality(conns[p][k])
      /\ accepts[p][k] = Cardinality(WaitFor(p)) - Cardinality(conns[p][k] \cap Incoming(p, k))
  BY DEF Counted
<1>2. LET C == conns[p][k]
          missing  == N - 1 - Cardinality(C)
          toAccept == Cardinality(WaitFor(p)) - Cardinality(C \cap Incoming(p, k))
      IN  /\ missing \in 0 .. N - 1 /\ toAccept \in 0 .. N - 1
          /\ missing = 0 <=> C = Mesh(p, k)
          /\ toAccept = 0 <=> Incoming(p, k) \subseteq C
  BY <1>1, CountMissing
<1>3. conns[p][k] = Mesh(p, k) => Incoming(p, k) \subseteq conns[p][k]
  BY IncomingCount
<1>. QED BY <1>1, <1>2, <1>3

\* One more connection is registered and counted.
LEMMA OneMore ==
  ASSUME TypeOK, Counted, NEW p \in Party, NEW k \in Network,
         NEW d \in Mesh(p, k), d \notin conns[p][k],
         conns' = [conns EXCEPT ![p][k] = @ \cup {d}],
         ready' = [ready EXCEPT ![p][k] = @ - 1],
         accepts' = IF d.to = p THEN [accepts EXCEPT ![p][k] = @ - 1] ELSE accepts
  PROVE  Counted' /\ ready[p][k] > 0
<1>. DEFINE C == conns[p][k]
<1>1. C \in SUBSET Mesh(p, k) /\ C \cup {d} \in SUBSET Mesh(p, k)
  BY DEF Counted
<1>0. /\ IsFiniteSet(C) /\ IsFiniteSet(C \cap Incoming(p, k)) /\ IsFiniteSet(WaitFor(p))
  <2>1. IsFiniteSet(Party)
    BY FS_Interval, NAssumption DEF Party
  <2>. QED BY <1>1, <2>1, CountMissing, FS_Subset DEF WaitFor
<1>2. Cardinality(C \cup {d}) = Cardinality(C) + 1
  BY <1>0, FS_AddElement
<1>3. Cardinality((C \cup {d}) \cap Incoming(p, k)) =
        IF d.to = p THEN Cardinality(C \cap Incoming(p, k)) + 1
                    ELSE Cardinality(C \cap Incoming(p, k))
  <2>1. CASE d.to = p
    <3>1. d \in Incoming(p, k)
      BY <2>1 DEF Incoming, Mesh
    <3>2. (C \cup {d}) \cap Incoming(p, k) = (C \cap Incoming(p, k)) \cup {d}
      BY <3>1
    <3>. QED BY <1>0, <2>1, <3>2, FS_AddElement
  <2>2. CASE d.to # p
    <3>1. (C \cup {d}) \cap Incoming(p, k) = C \cap Incoming(p, k)
      BY <2>2 DEF Incoming
    <3>. QED BY <2>2, <3>1
  <2>. QED BY <2>1, <2>2
<1>4. /\ ready[p][k] = N - 1 - Cardinality(C)
      /\ accepts[p][k] = Cardinality(WaitFor(p)) - Cardinality(C \cap Incoming(p, k))
  BY DEF Counted
<1>5. /\ Cardinality(C) \in Nat /\ Cardinality(C \cap Incoming(p, k)) \in Nat
      /\ Cardinality(WaitFor(p)) \in Nat
  BY <1>0, FS_CardinalityType
<1>6. /\ conns'[p][k] = C \cup {d}
      /\ ready'[p][k] = ready[p][k] - 1
      /\ accepts'[p][k] = IF d.to = p THEN accepts[p][k] - 1 ELSE accepts[p][k]
  BY DEF TypeOK
<1>7. ASSUME NEW r \in Party, NEW l \in Network
      PROVE  /\ conns'[r][l] \subseteq Mesh(r, l)
             /\ ready'[r][l] = N - 1 - Cardinality(conns'[r][l])
             /\ accepts'[r][l] = Cardinality(WaitFor(r)) - Cardinality(conns'[r][l] \cap Incoming(r, l))
  <2>1. CASE r = p /\ l = k
    <3>1. conns'[r][l] = C \cup {d} /\ C \cup {d} \subseteq Mesh(r, l)
      BY <1>1, <1>6, <2>1
    <3>2. ready'[r][l] = N - 1 - (Cardinality(C) + 1)
      BY <1>4, <1>5, <1>6, <2>1, NAssumption
    <3>3. accepts'[r][l] = Cardinality(WaitFor(p)) - Cardinality((C \cup {d}) \cap Incoming(p, k))
      <4>. HIDE DEF C
      <4>1. CASE d.to = p
        BY <1>3, <1>4, <1>5, <1>6, <2>1, <4>1 DEF C
      <4>2. CASE d.to # p
        BY <1>3, <1>4, <1>5, <1>6, <2>1, <4>2 DEF C
      <4>. QED BY <4>1, <4>2
    <3>. QED BY <1>2, <2>1, <3>1, <3>2, <3>3
  <2>2. CASE ~(r = p /\ l = k)
    <3>1. conns'[r][l] = conns[r][l] /\ ready'[r][l] = ready[r][l] /\ accepts'[r][l] = accepts[r][l]
      BY <2>2 DEF TypeOK
    <3>. QED BY <3>1 DEF Counted
  <2>. QED BY <2>1, <2>2
<1>8. ready[p][k] > 0
  BY NothingMissing
<1>. QED BY <1>7, <1>8 DEF Counted
-----------------------------------------------------------------------------
(* The counters.                                                           *)

\* A connection whose ID can be read is one of the network that listens.
LEMMA CurrentDial ==
  ASSUME TypeOK, Reading, NEW q \in Party, current[q] # NoDial
  PROVE  /\ current[q] \in Dials
         /\ current[q].to = q /\ current[q].net = listener[q]
         /\ listener[q] \in Network
         /\ current[q] \in Incoming(q, listener[q])
         /\ current[q] \in Mesh(q, listener[q])
         /\ current[q] \notin conns[q][listener[q]]
<1>1. current[q] \in Dials
  BY DEF TypeOK
<1>2. current[q].to = q /\ current[q].net = listener[q] /\ current[q] \notin conns[q][listener[q]]
  BY DEF Reading
<1>3. listener[q] \in Network
  BY <1>1, <1>2 DEF Dials
<1>. QED BY <1>1, <1>2, <1>3 DEF Incoming, Mesh

LEMMA NoDialIsNone == NoDial \notin Dials
BY DEF NoDial, Dials, DialFor

\* Only the two ends that register a connection touch the counters.
LEMMA CountersChange ==
  ASSUME [Next]_vars
  PROVE  \/ UNCHANGED <<conns, ready, accepts>>
         \/ \E q \in Party : ReadID(q)
         \/ \E d \in Dials : WriteID(d)
BY DEF Next, vars, kernel, Connect, Accept, ReadIDFails, CloseListener, Listen,
       ListenFails, DialOk, DialRefused, GiveUp, WriteIDFails

\* The counters are right, and a counter that is zero stays zero.
LEMMA CountedNext ==
  ASSUME TypeOK, Counted, Reading, Registered, [Next]_vars
  PROVE  /\ Counted'
         /\ \A p \in Party, k \in Network : ready[p][k] = 0 => ready'[p][k] = 0
<1>1. CASE UNCHANGED <<conns, ready, accepts>>
  BY <1>1 DEF Counted
<1>2. ASSUME NEW q \in Party, ReadID(q)
      PROVE  /\ Counted'
             /\ \A p \in Party, k \in Network : ready[p][k] = 0 => ready'[p][k] = 0
  <2>. DEFINE d == current[q]
              l == listener[q]
  <2>1. d # NoDial
    BY <1>2, NoDialIsNone DEF ReadID, TypeOK
  <2>2. l \in Network /\ d \in Mesh(q, l) /\ d \notin conns[q][l] /\ d.to = q
    BY <2>1, CurrentDial
  <2>3. /\ conns' = [conns EXCEPT ![q][l] = @ \cup {d}]
        /\ ready' = [ready EXCEPT ![q][l] = @ - 1]
        /\ accepts' = [accepts EXCEPT ![q][l] = @ - 1]
    BY <1>2 DEF ReadID
  <2>. HIDE DEF d, l
  <2>4. Counted' /\ ready[q][l] > 0
    BY <2>2, <2>3, OneMore
  <2>. QED BY <2>2, <2>3, <2>4 DEF TypeOK
<1>3. ASSUME NEW d \in Dials, WriteID(d)
      PROVE  /\ Counted'
             /\ \A p \in Party, k \in Network : ready[p][k] = 0 => ready'[p][k] = 0
  <2>1. /\ d.from \in Party /\ d.net \in Network /\ d.to # d.from
        /\ d \in Mesh(d.from, d.net)
    BY DEF Dials, DialFor, Mesh, Party
  <2>2. d \notin conns[d.from][d.net]
    BY <1>3 DEF WriteID, MustName
  <2>3. /\ conns' = [conns EXCEPT ![d.from][d.net] = @ \cup {d}]
        /\ ready' = [ready EXCEPT ![d.from][d.net] = @ - 1]
        /\ accepts' = accepts
    BY <1>3 DEF WriteID
  <2>4. Counted' /\ ready[d.from][d.net] > 0
    BY <2>1, <2>2, <2>3, OneMore
  <2>. QED BY <2>1, <2>3, <2>4 DEF TypeOK
<1>. QED BY <1>1, <1>2, <1>3, CountersChange

\* A party enters a Connect call when everybody has returned from the last one.
LEMMA InTurnNext ==
  ASSUME TypeOK, Counted, Reading, Registered, InTurn, [Next]_vars
  PROVE  InTurn'
<1>1. \A q \in Party, k \in Network : ready[q][k] = 0 => ready'[q][k] = 0
  BY CountedNext
<1>2. CASE UNCHANGED at
  BY <1>1, <1>2 DEF InTurn, Returned
<1>3. ASSUME NEW r \in Party, Connect(r) PROVE InTurn'
  <2>1. /\ at' = [at EXCEPT ![r] = @ + 1]
        /\ at[r] > 0 => \A q \in Party : Returned(q, at[r])
    BY <1>3 DEF Connect
  <2>2. at \in [Party -> 0 .. Networks] /\ Networks \in Nat
    BY NetworksAssumption DEF TypeOK
  <2>3. ASSUME NEW p \in Party, NEW q \in Party, NEW k \in Network, at'[p] > k
        PROVE  at'[q] >= k /\ ready'[q][k] = 0
    <3>1. at[p] > k \/ (p = r /\ at[r] = k)
      BY <2>1, <2>2, <2>3 DEF Network
    <3>2. at[q] >= k /\ ready[q][k] = 0
      <4>1. k > 0
        BY DEF Network
      <4>2. CASE at[p] > k
        BY <4>2 DEF InTurn, Returned
      <4>3. CASE p = r /\ at[r] = k
        BY <2>1, <4>1, <4>3 DEF Returned
      <4>. QED BY <3>1, <4>2, <4>3
    <3>3. at'[q] >= at[q]
      BY <2>1, <2>2
    <3>. QED BY <1>1, <2>1, <2>2, <3>2, <3>3 DEF Network
  <2>. QED BY <2>3 DEF InTurn, Returned
<1>4. (\E r \in Party : Connect(r)) \/ UNCHANGED at
  BY DEF Next, vars, kernel, Accept, ReadID, ReadIDFails, CloseListener, Listen,
         ListenFails, DialOk, DialRefused, GiveUp, WriteID, WriteIDFails
<1>. QED BY <1>2, <1>3, <1>4
-----------------------------------------------------------------------------
(* The kernel.                                                             *)

\* A party still dials: nobody has got to a later network, and its peer has
\* not finished accepting for this one, but for all the networks before.
LEMMA DialInTime ==
  ASSUME IInv, NEW d \in Dials, Dialling(d)
  PROVE  /\ d.to \in Party /\ d.from \in Party /\ d.net \in Network /\ d.to # d.from
         /\ accepts[d.to][d.net] > 0
         /\ at[d.to] <= d.net
         /\ \A k \in Network : k < d.net => accepts[d.to][k] = 0
<1>1. /\ d.to \in Party /\ d.from \in Party /\ d.net \in Network /\ d.to # d.from
      /\ d \in Mesh(d.from, d.net) /\ d \in Incoming(d.to, d.net)
  BY DEF Dials, DialFor, Mesh, Incoming, Party
<1>2. at[d.from] >= d.net /\ link[d] = "none"
  BY DEF Dialling
<1>3. d \notin conns[d.to][d.net] /\ d \notin conns[d.from][d.net]
  BY <1>2 DEF IInv, KernelInv, Registered
<1>4. accepts[d.to][d.net] > 0
  BY <1>1, <1>3, NothingMissing DEF IInv
<1>5. ready[d.from][d.net] # 0
  BY <1>1, <1>3, NothingMissing DEF IInv
<1>6. /\ at[d.to] \in 0 .. Networks /\ at[d.from] \in 0 .. Networks
      /\ Networks \in Nat
  BY <1>1, NetworksAssumption DEF IInv, TypeOK
<1>7. at[d.to] <= d.net
  BY <1>1, <1>5, <1>6 DEF IInv, InTurn, Returned, Network
<1>8. ASSUME NEW k \in Network, k < d.net PROVE accepts[d.to][k] = 0
  <2>1. ready[d.to][k] = 0
    BY <1>1, <1>2, <1>6, <1>8 DEF IInv, InTurn, Returned, Network
  <2>. QED BY <1>1, <2>1, NothingMissing DEF IInv
<1>. QED BY <1>1, <1>4, <1>7, <1>8

LEMMA ConnectStep ==
  ASSUME IInv, NEW p \in Party, Connect(p)
  PROVE  TypeOK' /\ KernelInv'
<1>1. /\ at' = [at EXCEPT ![p] = @ + 1] /\ at[p] < Networks
      /\ UNCHANGED <<up, ready, conns, tries, link, named, listener, backlog,
                     listened, current, accepts, failedBind>>
  BY DEF Connect, kernel
<1>2. at \in [Party -> 0 .. Networks] /\ Networks \in Nat
  BY NetworksAssumption DEF IInv, TypeOK
<1>3. at' \in [Party -> 0 .. Networks] /\ \A q \in Party : at[q] <= at'[q]
  BY <1>1, <1>2
<1>4. TypeOK'
  BY <1>1, <1>3 DEF IInv, TypeOK
<1>5. Port'
  <2>1. ASSUME NEW q \in Party, NEW k \in listened[q] PROVE k <= at'[q]
    <3>1. k <= at[q] /\ k \in Network
      BY DEF IInv, KernelInv, Port, TypeOK
    <3>. QED BY <1>2, <1>3, <3>1 DEF Network
  <2>. QED BY <1>1, <2>1 DEF IInv, KernelInv, Port
<1>. QED BY <1>1, <1>4, <1>5 DEF IInv, KernelInv, Waiting, OwnDials, Reading, Registered, Swallowed

LEMMA ListenStep ==
  ASSUME IInv, NEW q \in Party, NEW k \in Network, Listen(q, k)
  PROVE  TypeOK' /\ KernelInv'
<1>1. /\ listener[q] = 0 /\ at[q] >= k
      /\ listener' = [listener EXCEPT ![q] = k]
      /\ listened' = [listened EXCEPT ![q] = @ \cup {k}]
      /\ UNCHANGED <<at, up, ready, conns, tries, link, named, backlog, current,
                     accepts, failedBind>>
  BY DEF Listen, MustListen
<1>2. backlog[q] = <<>> /\ current[q] = NoDial
  <2>1. backlog[q] = <<>>
    BY <1>1 DEF IInv, KernelInv, Waiting
  <2>2. ~(0 \in Network)
    BY DEF Network
  <2>. QED BY <1>1, <2>1, <2>2, CurrentDial DEF IInv, KernelInv
<1>3. TypeOK'
  BY <1>1 DEF IInv, TypeOK, Network
<1>4. Port'
  <2>1. \A j \in listened[q] : accepts[q][j] = 0 \/ q \notin up
    <3>. \A j \in listened[q] : j # 0
      BY DEF IInv, TypeOK, Network
    <3>. QED BY <1>1 DEF IInv, KernelInv, Port
  <2>. QED BY <1>1, <2>1 DEF IInv, KernelInv, Port, TypeOK
<1>5. Waiting'
  BY <1>1, <1>2 DEF IInv, KernelInv, Waiting, TypeOK
<1>6. OwnDials'
  <2>1. ASSUME NEW r \in Party, listener'[r] # 0, accepts'[r][listener'[r]] > 0,
               NEW i \in DOMAIN backlog'[r]
        PROVE  backlog'[r][i].net = listener'[r]
    <3>1. r # q
      BY <1>1, <1>2
    <3>2. listener'[r] = listener[r]
      BY <1>1, <3>1 DEF IInv, TypeOK
    <3>. QED BY <1>1, <2>1, <3>2 DEF IInv, KernelInv, OwnDials
  <2>. QED BY <2>1 DEF OwnDials
<1>7. Reading'
  BY <1>1, <1>2 DEF IInv, KernelInv, Reading, TypeOK
<1>. QED BY <1>1, <1>3, <1>4, <1>5, <1>6, <1>7 DEF IInv, KernelInv, Registered, Swallowed
LEMMA PanicStep ==
  ASSUME IInv, NEW p \in Party, Panic(p),
         UNCHANGED <<at, ready, conns, tries, named, accepts>>,
         failedBind' \subseteq Party,
         \/ UNCHANGED listened
         \/ \E k \in Network : k <= at[p] /\ listened' = [listened EXCEPT ![p] = @ \cup {k}]
  PROVE  TypeOK' /\ KernelInv'
<1>1. /\ up' = up \ {p}
      /\ listener' = [listener EXCEPT ![p] = 0]
      /\ backlog' = [backlog EXCEPT ![p] = <<>>]
      /\ current' = [current EXCEPT ![p] = NoDial]
      /\ link' = [d \in Dials |-> IF d.to = p /\ link[d] \in {"queued", "accepted"}
                                  THEN "reset" ELSE link[d]]
  BY DEF Panic
<1>2. TypeOK'
  <2>1. backlog' \in [Party -> Seq(Dials)]
    BY <1>1, EmptySeq DEF IInv, TypeOK
  <2>2. listened' \in [Party -> SUBSET Network]
    <3>1. listened \in [Party -> SUBSET Network]
      BY DEF IInv, TypeOK
    <3>2. ASSUME NEW k \in Network, listened' = [listened EXCEPT ![p] = @ \cup {k}]
          PROVE  listened' \in [Party -> SUBSET Network]
      BY <3>1, <3>2
    <3>. QED BY <3>1, <3>2
  <2>3. link' \in [Dials -> {"none", "queued", "accepted", "reset"}]
    BY <1>1 DEF IInv, TypeOK
  <2>4. /\ listener' \in [Party -> 0 .. Networks]
        /\ current' \in [Party -> Dials \cup {NoDial}]
    BY <1>1, NetworksAssumption DEF IInv, TypeOK
  <2>. QED BY <1>1, <2>1, <2>2, <2>3, <2>4 DEF IInv, TypeOK
<1>3. Port'
  <2>1. ASSUME NEW q \in Party, q # p
        PROVE  listened'[q] = listened[q] /\ listener'[q] = listener[q] /\ (q \in up' <=> q \in up)
    BY <1>1, <2>1 DEF IInv, TypeOK
  <2>2. listener'[p] = 0 /\ p \notin up' /\ \A k \in listened'[p] : k <= at[p]
    BY <1>1 DEF IInv, TypeOK, KernelInv, Port
  <2>. QED BY <2>1, <2>2 DEF IInv, KernelInv, Port
<1>4. ASSUME NEW q \in Party, q # p
      PROVE  /\ listener'[q] = listener[q] /\ backlog'[q] = backlog[q] /\ current'[q] = current[q]
             /\ \A i \in DOMAIN backlog[q] : link'[backlog[q][i]] = link[backlog[q][i]]
             /\ current[q] # NoDial => link'[current[q]] = link[current[q]]
  <2>1. listener'[q] = listener[q] /\ backlog'[q] = backlog[q] /\ current'[q] = current[q]
    BY <1>1, <1>4 DEF IInv, TypeOK
  <2>2. ASSUME NEW i \in DOMAIN backlog[q] PROVE link'[backlog[q][i]] = link[backlog[q][i]]
    <3>1. backlog[q][i] \in Dials
      BY LenProperties, ElementOfSeq DEF IInv, TypeOK
    <3>2. backlog[q][i].to = q
      BY DEF IInv, KernelInv, Waiting
    <3>. QED BY <1>1, <1>4, <3>1, <3>2
  <2>3. ASSUME current[q] # NoDial PROVE link'[current[q]] = link[current[q]]
    BY <1>1, <1>4, <2>3, CurrentDial DEF IInv, KernelInv
  <2>. QED BY <2>1, <2>2, <2>3
<1>5. listener'[p] = 0 /\ backlog'[p] = <<>> /\ current'[p] = NoDial
  BY <1>1 DEF IInv, TypeOK
<1>6. Waiting'
  BY <1>4, <1>5 DEF IInv, KernelInv, Waiting
<1>7. OwnDials'
  BY <1>4, <1>5 DEF IInv, KernelInv, OwnDials
<1>8. Reading'
  BY <1>4, <1>5 DEF IInv, KernelInv, Reading
<1>9. ASSUME NEW d \in Dials
      PROVE  /\ link[d] = "none" <=> link'[d] = "none"
             /\ link[d] \in {"accepted", "reset"} => link'[d] \in {"accepted", "reset"}
             /\ link'[d] = "reset" => link[d] = "reset" \/ d.to = p
  BY <1>1 DEF IInv, TypeOK
<1>10. Registered'
  BY <1>9 DEF IInv, KernelInv, Registered
<1>11. Swallowed'
  BY <1>1, <1>9 DEF IInv, KernelInv, Swallowed
<1>. QED BY <1>2, <1>3, <1>6, <1>7, <1>8, <1>10, <1>11 DEF KernelInv
\* What accepting the head of a backlog leaves there.
LEMMA BacklogTail ==
  ASSUME TypeOK, Waiting, NEW q \in Party, backlog[q] # <<>>
  PROVE  /\ Head(backlog[q]) \in Dials
         /\ \E i \in DOMAIN backlog[q] : Head(backlog[q]) = backlog[q][i]
         /\ Tail(backlog[q]) \in Seq(Dials)
         /\ \A i \in DOMAIN Tail(backlog[q]) :
               /\ i + 1 \in DOMAIN backlog[q]
               /\ Tail(backlog[q])[i] = backlog[q][i + 1]
               /\ Tail(backlog[q])[i] \in Dials
               /\ Tail(backlog[q])[i] # Head(backlog[q])
         /\ \A i, j \in DOMAIN Tail(backlog[q]) : i + 1 = j + 1 => i = j
<1>1. backlog[q] \in Seq(Dials)
  BY DEF TypeOK
<1>2. /\ Len(backlog[q]) \in Nat \ {0}
      /\ DOMAIN backlog[q] = 1 .. Len(backlog[q])
      /\ Head(backlog[q]) = backlog[q][1]
      /\ Tail(backlog[q]) \in Seq(Dials)
      /\ DOMAIN Tail(backlog[q]) = 1 .. Len(backlog[q]) - 1
      /\ \A i \in 1 .. Len(backlog[q]) - 1 : Tail(backlog[q])[i] = backlog[q][i + 1]
      /\ \A i \in 1 .. Len(backlog[q]) : backlog[q][i] \in Dials
  BY <1>1, HeadTailProperties, LenProperties, EmptySeq, ElementOfSeq
<1>3. ASSUME NEW i \in DOMAIN Tail(backlog[q])
      PROVE  /\ i + 1 \in DOMAIN backlog[q]
             /\ Tail(backlog[q])[i] = backlog[q][i + 1]
             /\ Tail(backlog[q])[i] \in Dials
             /\ Tail(backlog[q])[i] # Head(backlog[q])
  <2>1. i \in Int /\ i + 1 \in 1 .. Len(backlog[q]) /\ i + 1 # 1 /\ 1 \in 1 .. Len(backlog[q])
    BY <1>2
  <2>. QED BY <1>2, <2>1 DEF Waiting
<1>4. \A i, j \in DOMAIN Tail(backlog[q]) : i + 1 = j + 1 => i = j
  BY <1>2
<1>. QED BY <1>2, <1>3, <1>4

LEMMA AcceptStep ==
  ASSUME IInv, NEW q \in Party, Accept(q)
  PROVE  TypeOK' /\ KernelInv'
<1>. DEFINE h == Head(backlog[q])
            rest == Tail(backlog[q])
<1>1. /\ listener[q] # 0 /\ accepts[q][listener[q]] > 0 /\ backlog[q] # <<>>
      /\ current' = [current EXCEPT ![q] = h]
      /\ backlog' = [backlog EXCEPT ![q] = rest]
      /\ link' = [link EXCEPT ![h] = "accepted"]
      /\ UNCHANGED <<at, up, ready, conns, tries, named, listened, listener, accepts, failedBind>>
  BY DEF Accept
<1>2. /\ h \in Dials /\ rest \in Seq(Dials)
      /\ \E i \in DOMAIN backlog[q] : h = backlog[q][i]
      /\ \A i \in DOMAIN rest : /\ i + 1 \in DOMAIN backlog[q]
                                /\ rest[i] = backlog[q][i + 1] /\ rest[i] \in Dials /\ rest[i] # h
      /\ \A i, j \in DOMAIN rest : i + 1 = j + 1 => i = j
  BY <1>1, BacklogTail DEF IInv, KernelInv
<1>3. h.to = q /\ link[h] = "queued" /\ h.net = listener[q]
  BY <1>1, <1>2 DEF IInv, KernelInv, Waiting, OwnDials
<1>. HIDE DEF h, rest
<1>4. /\ backlog'[q] = rest /\ current'[q] = h
      /\ \A r \in Party : r # q => backlog'[r] = backlog[r] /\ current'[r] = current[r]
      /\ \A d \in Dials : link'[d] = IF d = h THEN "accepted" ELSE link[d]
  BY <1>1, <1>2 DEF IInv, TypeOK
<1>5. TypeOK'
  BY <1>1, <1>2 DEF IInv, TypeOK
<1>6. Port'
  BY <1>1 DEF IInv, KernelInv, Port
<1>7. Waiting'
  <2>1. ASSUME NEW r \in Party, r # q, NEW i \in DOMAIN backlog[r]
        PROVE  link'[backlog[r][i]] = link[backlog[r][i]]
    <3>1. backlog[r][i] \in Dials
      BY LenProperties, ElementOfSeq DEF IInv, TypeOK
    <3>2. backlog[r][i].to = r
      BY DEF IInv, KernelInv, Waiting
    <3>. QED BY <1>3, <1>4, <2>1, <3>1, <3>2
  <2>2. ASSUME NEW i \in DOMAIN rest
        PROVE  rest[i].to = q /\ link'[rest[i]] = "queued" /\ rest[i].net >= listener[q]
    BY <1>2, <1>4 DEF IInv, KernelInv, Waiting
  <2>3. \A i, j \in DOMAIN rest : rest[i] = rest[j] => i = j
    BY <1>2 DEF IInv, KernelInv, Waiting
  <2>. QED BY <1>1, <1>4, <2>1, <2>2, <2>3 DEF IInv, KernelInv, Waiting
<1>8. OwnDials'
  BY <1>1, <1>2, <1>4 DEF IInv, KernelInv, OwnDials
<1>9. Reading'
  <2>1. h \notin conns[q][listener[q]]
    BY <1>2, <1>3 DEF IInv, KernelInv, Registered
  <2>2. ASSUME NEW r \in Party, r # q, current[r] # NoDial PROVE link'[current[r]] = link[current[r]]
    BY <1>3, <1>4, <2>2, CurrentDial DEF IInv, KernelInv
  <2>. QED BY <1>1, <1>2, <1>3, <1>4, <2>1, <2>2 DEF IInv, KernelInv, Reading
<1>10. Registered'
  BY <1>1, <1>3, <1>4 DEF IInv, KernelInv, Registered
<1>11. Swallowed'
  BY <1>1, <1>4 DEF IInv, KernelInv, Swallowed
<1>. QED BY <1>5, <1>6, <1>7, <1>8, <1>9, <1>10, <1>11 DEF KernelInv
\* The types of the maps and of their counters, after one more connection.
LEMMA CounterTypes ==
  ASSUME TypeOK, Counted',
         conns' \in [Party -> [Network -> SUBSET Dials]],
         DOMAIN ready' = Party, \A p \in Party : ready'[p] = [k \in Network |-> ready'[p][k]],
         DOMAIN accepts' = Party, \A p \in Party : accepts'[p] = [k \in Network |-> accepts'[p][k]],
         ready' = [p \in Party |-> ready'[p]], accepts' = [p \in Party |-> accepts'[p]]
  PROVE  /\ ready' \in [Party -> [Network -> 0 .. N - 1]]
         /\ accepts' \in [Party -> [Network -> 0 .. N - 1]]
<1>1. ASSUME NEW p \in Party, NEW k \in Network
      PROVE  ready'[p][k] \in 0 .. N - 1 /\ accepts'[p][k] \in 0 .. N - 1
  <2>1. /\ conns'[p][k] \in SUBSET Mesh(p, k)
        /\ ready'[p][k] = N - 1 - Cardinality(conns'[p][k])
        /\ accepts'[p][k] = Cardinality(WaitFor(p)) - Cardinality(conns'[p][k] \cap Incoming(p, k))
    BY DEF Counted
  <2>2. /\ N - 1 - Cardinality(conns'[p][k]) \in 0 .. N - 1
        /\ Cardinality(WaitFor(p)) - Cardinality(conns'[p][k] \cap Incoming(p, k)) \in 0 .. N - 1
    BY <2>1, CountMissing
  <2>. QED BY <2>1, <2>2
<1>2. \A p \in Party : /\ ready'[p] \in [Network -> 0 .. N - 1]
                       /\ accepts'[p] \in [Network -> 0 .. N - 1]
  BY <1>1, Zenon
<1>. QED BY <1>2, Zenon

LEMMA ReadIDStep ==
  ASSUME IInv, NEW q \in Party, ReadID(q), Counted'
  PROVE  TypeOK' /\ KernelInv'
<1>. DEFINE d == current[q]
            l == listener[q]
<1>1. /\ conns' = [conns EXCEPT ![q][l] = @ \cup {d}]
      /\ ready' = [ready EXCEPT ![q][l] = @ - 1]
      /\ accepts' = [accepts EXCEPT ![q][l] = @ - 1]
      /\ current' = [current EXCEPT ![q] = NoDial]
      /\ UNCHANGED <<at, up, tries, link, named, listener, backlog, listened, failedBind>>
  BY DEF ReadID, kernel
<1>2. d # NoDial
  BY NoDialIsNone DEF ReadID, IInv, TypeOK
<1>3. /\ d \in Dials /\ l \in Network /\ d.to = q /\ d.net = l
      /\ d.from # q /\ d.from \in Party
  BY <1>2, CurrentDial DEF IInv, KernelInv, Dials, DialFor, Party
<1>4. link[d] = "accepted" /\ accepts[q][l] > 0
  BY <1>2 DEF IInv, KernelInv, Reading
<1>. HIDE DEF d
<1>5. /\ \A r \in Party, k \in Network :
            /\ conns'[r][k] = IF r = q /\ k = l THEN conns[r][k] \cup {d} ELSE conns[r][k]
            /\ accepts'[r][k] = IF r = q /\ k = l THEN accepts[r][k] - 1 ELSE accepts[r][k]
      /\ current'[q] = NoDial
      /\ \A r \in Party : r # q => current'[r] = current[r]
  BY <1>1, <1>3 DEF IInv, TypeOK
<1>6. TypeOK'
  <2>1. conns' \in [Party -> [Network -> SUBSET Dials]]
    BY <1>1, <1>3 DEF IInv, TypeOK
  <2>2. /\ DOMAIN ready' = Party /\ DOMAIN accepts' = Party
        /\ \A p \in Party : /\ ready'[p] = [k \in Network |-> ready'[p][k]]
                            /\ accepts'[p] = [k \in Network |-> accepts'[p][k]]
        /\ ready' = [p \in Party |-> ready'[p]] /\ accepts' = [p \in Party |-> accepts'[p]]
    BY <1>1 DEF IInv, TypeOK
  <2>3. /\ ready' \in [Party -> [Network -> 0 .. N - 1]]
        /\ accepts' \in [Party -> [Network -> 0 .. N - 1]]
    BY <2>1, <2>2, CounterTypes DEF IInv
  <2>. QED BY <1>1, <2>1, <2>3 DEF IInv, TypeOK
<1>7. Port'
  <2>1. ASSUME NEW r \in Party, r \in up, NEW k \in listened[r]
        PROVE  listener[r] = k \/ accepts'[r][k] = 0
    <3>1. listener[r] = k \/ accepts[r][k] = 0
      BY <2>1 DEF IInv, KernelInv, Port
    <3>2. k \in Network
      BY DEF IInv, TypeOK
    <3>3. CASE listener[r] # k
      <4>. ~(r = q /\ k = l)
        BY <3>3
      <4>. QED BY <1>5, <3>1, <3>2
    <3>. QED BY <3>3
  <2>. QED BY <1>1, <2>1 DEF IInv, KernelInv, Port
<1>8. Waiting'
  BY <1>1 DEF IInv, KernelInv, Waiting
<1>9. OwnDials'
  <2>1. ASSUME NEW r \in Party, listener[r] # 0, accepts'[r][listener[r]] > 0
        PROVE  accepts[r][listener[r]] > 0
    <3>1. listener[r] \in Network
      BY <2>1 DEF IInv, TypeOK, Network
    <3>2. accepts[r][listener[r]] \in Nat
      BY <3>1, NAssumption DEF IInv, TypeOK
    <3>. QED BY <1>4, <1>5, <2>1, <3>1, <3>2
  <2>. QED BY <1>1, <2>1 DEF IInv, KernelInv, OwnDials
<1>10. Reading'
  <2>1. ASSUME NEW r \in Party, current'[r] # NoDial
        PROVE  /\ current'[r] = current[r] /\ listener[r] \in Network
               /\ conns'[r][listener[r]] = conns[r][listener[r]]
               /\ accepts'[r][listener[r]] = accepts[r][listener[r]]
    <3>1. r # q /\ current[r] # NoDial
      BY <1>5, <2>1
    <3>2. listener[r] \in Network
      BY <3>1, CurrentDial DEF IInv, KernelInv
    <3>. QED BY <1>5, <3>1, <3>2
  <2>. QED BY <1>1, <2>1 DEF IInv, KernelInv, Reading
<1>11. ASSUME NEW e \in Dials
       PROVE  /\ e \in conns'[e.from][e.net] <=> e \in conns[e.from][e.net]
              /\ e \in conns'[e.to][e.net] => e = d \/ e \in conns[e.to][e.net]
  <2>1. e.from \in Party /\ e.to \in Party /\ e.net \in Network
    BY DEF Dials
  <2>2. conns'[e.from][e.net] \in {conns[e.from][e.net], conns[e.from][e.net] \cup {d}}
    BY <1>5, <2>1
  <2>3. ASSUME e = d PROVE conns'[e.from][e.net] = conns[e.from][e.net]
    <3>1. e.from # q
      BY <1>3, <2>3
    <3>. QED BY <1>5, <2>1, <3>1
  <2>4. conns'[e.to][e.net] \subseteq conns[e.to][e.net] \cup {d}
    BY <1>5, <2>1
  <2>. QED BY <2>2, <2>3, <2>4
<1>12. Registered'
  BY <1>1, <1>4, <1>11 DEF IInv, KernelInv, Registered
<1>13. Swallowed'
  BY <1>1, <1>4, <1>11 DEF IInv, KernelInv, Swallowed
<1>. QED BY <1>6, <1>7, <1>8, <1>9, <1>10, <1>12, <1>13 DEF KernelInv

LEMMA CloseListenerStep ==
  ASSUME IInv, NEW q \in Party, CloseListener(q)
  PROVE  TypeOK' /\ KernelInv'
<1>. DEFINE l == listener[q]
<1>1. /\ l # 0 /\ accepts[q][l] = 0
      /\ listener' = [listener EXCEPT ![q] = 0]
      /\ backlog' = [backlog EXCEPT ![q] = <<>>]
      /\ link' = [d \in Dials |-> IF d \in ToSet(backlog[q]) THEN "reset" ELSE link[d]]
      /\ UNCHANGED <<at, up, ready, conns, tries, named, listened, current, accepts, failedBind>>
  BY DEF CloseListener
<1>2. l \in Network /\ current[q] = NoDial
  BY <1>1 DEF IInv, KernelInv, Reading, TypeOK, Network
<1>3. ASSUME NEW d \in ToSet(backlog[q])
      PROVE  /\ d \in Dials /\ d.to = q /\ link[d] = "queued"
             /\ d.net > l /\ d \notin conns[d.to][d.net]
  <2>1. PICK i \in DOMAIN backlog[q] : d = backlog[q][i]
    BY DEF ToSet
  <2>2. d \in Dials
    BY <2>1, LenProperties, ElementOfSeq DEF IInv, TypeOK
  <2>3. d.to = q /\ link[d] = "queued" /\ d.net >= l
    BY <2>1 DEF IInv, KernelInv, Waiting
  <2>4. d \notin conns[d.to][d.net]
    BY <2>2, <2>3 DEF IInv, KernelInv, Registered
  <2>5. d.net # l
    <3>1. Incoming(q, l) \subseteq conns[q][l]
      BY <1>1, <1>2, NothingMissing DEF IInv
    <3>. QED BY <2>2, <2>3, <2>4, <3>1 DEF Incoming
  <2>. QED BY <1>2, <2>2, <2>3, <2>4, <2>5 DEF Dials, Network
<1>4. /\ listener'[q] = 0 /\ backlog'[q] = <<>>
      /\ \A r \in Party : r # q => listener'[r] = listener[r] /\ backlog'[r] = backlog[r]
      /\ \A d \in Dials : link'[d] = IF d \in ToSet(backlog[q]) THEN "reset" ELSE link[d]
  BY <1>1 DEF IInv, TypeOK
<1>5. TypeOK'
  <2>1. backlog' \in [Party -> Seq(Dials)]
    BY <1>1, EmptySeq DEF IInv, TypeOK
  <2>2. /\ listener' \in [Party -> 0 .. Networks]
        /\ link' \in [Dials -> {"none", "queued", "accepted", "reset"}]
    BY <1>1, NetworksAssumption DEF IInv, TypeOK
  <2>. QED BY <1>1, <2>1, <2>2 DEF IInv, TypeOK
<1>6. Port'
  BY <1>1, <1>4 DEF IInv, KernelInv, Port
<1>7. Waiting'
  <2>1. ASSUME NEW r \in Party, r # q, NEW i \in DOMAIN backlog[r]
        PROVE  link'[backlog[r][i]] = link[backlog[r][i]]
    <3>1. backlog[r][i] \in Dials
      BY LenProperties, ElementOfSeq DEF IInv, TypeOK
    <3>2. backlog[r][i].to = r
      BY DEF IInv, KernelInv, Waiting
    <3>. QED BY <1>3, <1>4, <2>1, <3>1, <3>2
  <2>. QED BY <1>4, <2>1 DEF IInv, KernelInv, Waiting
<1>8. OwnDials'
  BY <1>1, <1>4 DEF IInv, KernelInv, OwnDials
<1>9. Reading'
  <2>1. ASSUME NEW r \in Party, current[r] # NoDial
        PROVE  r # q /\ link'[current[r]] = link[current[r]]
    <3>1. current[r] \in Dials /\ link[current[r]] = "accepted"
      BY <2>1, CurrentDial DEF IInv, KernelInv, Reading
    <3>. QED BY <1>2, <1>3, <1>4, <2>1, <3>1
  <2>. QED BY <1>1, <1>4, <2>1 DEF IInv, KernelInv, Reading
<1>10. Registered'
  BY <1>1, <1>3, <1>4 DEF IInv, KernelInv, Registered
<1>11. Swallowed'
  BY <1>1, <1>2, <1>3, <1>4 DEF IInv, KernelInv, Swallowed, Dials, Network
<1>. QED BY <1>5, <1>6, <1>7, <1>8, <1>9, <1>10, <1>11 DEF KernelInv
LEMMA DialOkStep ==
  ASSUME IInv, NEW d \in Dials, DialOk(d)
  PROVE  TypeOK' /\ KernelInv'
<1>. DEFINE q == d.to
            l == listener[q]
<1>1. /\ l # 0 /\ Dialling(d) /\ link[d] = "none"
      /\ link' = [link EXCEPT ![d] = "queued"]
      /\ backlog' = [backlog EXCEPT ![q] = Append(@, d)]
      /\ tries' = [tries EXCEPT ![d] = 0]
      /\ UNCHANGED <<at, up, ready, conns, named, listened, listener, current, accepts, failedBind>>
  BY DEF DialOk, Dialling
<1>2. /\ q \in Party /\ accepts[q][d.net] > 0 /\ at[q] <= d.net
      /\ \A k \in Network : k < d.net => accepts[q][k] = 0
      /\ d.net \in Network
  BY <1>1, DialInTime
<1>3. l \in Network /\ d.net >= l /\ (accepts[q][l] > 0 => d.net = l)
  <2>1. l \in Network /\ l <= at[q] /\ at[q] \in Int
    BY <1>1, <1>2, NetworksAssumption DEF IInv, TypeOK, KernelInv, Port, Network
  <2>. QED BY <1>2, <2>1 DEF Network
<1>4. \A e \in Dials : link[e] # "none" => e # d /\ link'[e] = link[e]
  BY <1>1 DEF IInv, TypeOK
<1>5. /\ backlog[q] \in Seq(Dials)
      /\ \A r \in Party : r # q => backlog'[r] = backlog[r]
      /\ backlog'[q] = Append(backlog[q], d)
      /\ link'[d] = "queued"
  BY <1>1, <1>2 DEF IInv, TypeOK
<1>6. /\ Append(backlog[q], d) \in Seq(Dials)
      /\ Len(backlog[q]) \in Nat
      /\ DOMAIN backlog[q] = 1 .. Len(backlog[q])
      /\ DOMAIN Append(backlog[q], d) = 1 .. Len(backlog[q]) + 1
      /\ \A i \in 1 .. Len(backlog[q]) : Append(backlog[q], d)[i] = backlog[q][i]
      /\ Append(backlog[q], d)[Len(backlog[q]) + 1] = d
  BY <1>5, AppendProperties, LenProperties
<1>7. \A r \in Party : \A i \in DOMAIN backlog[r] :
         /\ backlog[r][i] \in Dials /\ backlog[r][i] # d
         /\ link'[backlog[r][i]] = link[backlog[r][i]]
  <2>1. \A r \in Party : \A i \in DOMAIN backlog[r] : backlog[r][i] \in Dials /\ link[backlog[r][i]] = "queued"
    BY LenProperties, ElementOfSeq DEF IInv, TypeOK, KernelInv, Waiting
  <2>. QED BY <1>4, <2>1
<1>. HIDE DEF q, l
<1>8. TypeOK'
  BY <1>1, <1>2, <1>6, AttemptsAssumption DEF IInv, TypeOK, q
<1>9. Port'
  BY <1>1 DEF IInv, KernelInv, Port
<1>10. Waiting'
  <2>1. ASSUME NEW i \in DOMAIN backlog'[q]
        PROVE  /\ backlog'[q][i].to = q /\ link'[backlog'[q][i]] = "queued"
               /\ backlog'[q][i].net >= listener[q]
    <3>1. CASE i = Len(backlog[q]) + 1
      BY <1>3, <1>5, <1>6, <3>1 DEF q, l
    <3>2. CASE i \in DOMAIN backlog[q]
      BY <1>2, <1>5, <1>6, <1>7, <3>2 DEF IInv, KernelInv, Waiting
    <3>. QED BY <1>5, <1>6, <2>1, <3>1, <3>2
  <2>2. ASSUME NEW i \in DOMAIN backlog'[q], NEW j \in DOMAIN backlog'[q], backlog'[q][i] = backlog'[q][j]
        PROVE  i = j
    <3>1. CASE i \in DOMAIN backlog[q] /\ j \in DOMAIN backlog[q]
      BY <1>2, <1>5, <1>6, <2>2, <3>1 DEF IInv, KernelInv, Waiting
    <3>2. CASE i \notin DOMAIN backlog[q] \/ j \notin DOMAIN backlog[q]
      BY <1>2, <1>5, <1>6, <1>7, <2>2, <3>2
    <3>. QED BY <3>1, <3>2
  <2>3. listener[q] # 0
    BY <1>1 DEF l
  <2>4. ASSUME NEW r \in Party, r # q
        PROVE  /\ \A i \in DOMAIN backlog'[r] : /\ backlog'[r][i].to = r
                                                /\ link'[backlog'[r][i]] = "queued"
                                                /\ backlog'[r][i].net >= listener'[r]
               /\ \A i, j \in DOMAIN backlog'[r] : backlog'[r][i] = backlog'[r][j] => i = j
               /\ listener'[r] = 0 => backlog'[r] = <<>>
    BY <1>1, <1>5, <1>7, <2>4 DEF IInv, KernelInv, Waiting
  <2>. QED BY <1>1, <2>1, <2>2, <2>3, <2>4 DEF Waiting
<1>11. OwnDials'
  <2>1. ASSUME accepts[q][l] > 0, NEW i \in DOMAIN backlog'[q]
        PROVE  backlog'[q][i].net = l
    <3>1. CASE i = Len(backlog[q]) + 1
      BY <1>3, <1>5, <1>6, <2>1, <3>1
    <3>2. CASE i \in DOMAIN backlog[q]
      BY <1>1, <1>2, <1>5, <1>6, <2>1, <3>2 DEF IInv, KernelInv, OwnDials, l
    <3>. QED BY <1>5, <1>6, <2>1, <3>1, <3>2
  <2>2. ASSUME NEW r \in Party, listener'[r] # 0, accepts'[r][listener'[r]] > 0,
               NEW i \in DOMAIN backlog'[r]
        PROVE  backlog'[r][i].net = listener'[r]
    <3>1. CASE r = q
      BY <1>1, <2>1, <2>2, <3>1 DEF l
    <3>2. CASE r # q
      BY <1>1, <1>5, <2>2, <3>2 DEF IInv, KernelInv, OwnDials
    <3>. QED BY <3>1, <3>2
  <2>. QED BY <2>2 DEF OwnDials
<1>12. Reading'
  <2>1. ASSUME NEW r \in Party, current[r] # NoDial PROVE link'[current[r]] = link[current[r]]
    <3>1. current[r] \in Dials /\ link[current[r]] = "accepted"
      BY <2>1, CurrentDial DEF IInv, KernelInv, Reading
    <3>. QED BY <1>4, <3>1
  <2>. QED BY <1>1, <2>1 DEF IInv, KernelInv, Reading
<1>13. Registered'
  BY <1>1, <1>4, <1>5 DEF IInv, KernelInv, Registered
<1>14. Swallowed'
  <2>1. \A e \in Dials : link'[e] = "reset" => link[e] = "reset"
    BY <1>1 DEF IInv, TypeOK
  <2>. QED BY <1>1, <2>1 DEF IInv, KernelInv, Swallowed
<1>. QED BY <1>8, <1>9, <1>10, <1>11, <1>12, <1>13, <1>14 DEF KernelInv

LEMMA DialRefusedStep ==
  ASSUME IInv, NEW d \in Dials, DialRefused(d)
  PROVE  TypeOK' /\ KernelInv'
<1>1. /\ tries' = [tries EXCEPT ![d] = @ + 1] /\ tries[d] < Attempts
      /\ UNCHANGED <<at, up, ready, conns, link, named, listener, backlog, listened,
                     current, accepts, failedBind>>
  BY DEF DialRefused, kernel
<1>2. TypeOK'
  BY <1>1, AttemptsAssumption DEF IInv, TypeOK
<1>. QED BY <1>1, <1>2 DEF IInv, KernelInv, Port, Waiting, OwnDials, Reading, Registered, Swallowed

LEMMA WriteIDStep ==
  ASSUME IInv, NEW d \in Dials, WriteID(d), Counted'
  PROVE  TypeOK' /\ KernelInv'
<1>. DEFINE p == d.from
            k == d.net
<1>1. /\ conns' = [conns EXCEPT ![p][k] = @ \cup {d}]
      /\ named' = named \cup {d}
      /\ ready' = [ready EXCEPT ![p][k] = @ - 1]
      /\ link[d] # "none"
      /\ UNCHANGED <<at, up, tries, link, listened, listener, backlog, current, accepts, failedBind>>
  BY DEF WriteID, MustName
<1>2. p \in Party /\ k \in Network /\ d.to # p
  BY DEF Dials, DialFor, Party
<1>. HIDE DEF p, k
<1>3. ASSUME NEW r \in Party, NEW l \in Network
      PROVE  conns'[r][l] = IF r = p /\ l = k THEN conns[r][l] \cup {d} ELSE conns[r][l]
  BY <1>1, <1>2 DEF IInv, TypeOK
<1>4. TypeOK'
  <2>1. conns' \in [Party -> [Network -> SUBSET Dials]]
    BY <1>1, <1>2 DEF IInv, TypeOK
  <2>2. /\ DOMAIN ready' = Party /\ DOMAIN accepts' = Party
        /\ \A q \in Party : /\ ready'[q] = [l \in Network |-> ready'[q][l]]
                            /\ accepts'[q] = [l \in Network |-> accepts'[q][l]]
        /\ ready' = [q \in Party |-> ready'[q]] /\ accepts' = [q \in Party |-> accepts'[q]]
    <3>1. \A q \in Party : ready'[q] = [l \in Network |-> ready'[q][l]]
      BY <1>1, <1>2 DEF IInv, TypeOK
    <3>2. \A q \in Party : accepts'[q] = [l \in Network |-> accepts'[q][l]]
      BY <1>1 DEF IInv, TypeOK
    <3>. QED BY <1>1, <3>1, <3>2 DEF IInv, TypeOK
  <2>3. ready' \in [Party -> [Network -> 0 .. N - 1]]
    BY <2>1, <2>2, CounterTypes DEF IInv
  <2>. QED BY <1>1, <2>1, <2>3 DEF IInv, TypeOK
<1>5. Port' /\ Waiting' /\ OwnDials'
  BY <1>1 DEF IInv, KernelInv, Port, Waiting, OwnDials
<1>6. Reading'
  <2>1. ASSUME NEW q \in Party, current[q] # NoDial PROVE current[q] \notin conns'[q][listener[q]]
    <3>1. /\ current[q].to = q /\ listener[q] \in Network
          /\ current[q] \notin conns[q][listener[q]]
      BY <2>1, CurrentDial DEF IInv, KernelInv
    <3>2. CASE q = p
      <4>1. current[q] # d
        BY <1>2, <3>1, <3>2
      <4>. QED BY <1>3, <3>1, <4>1
    <3>3. CASE q # p
      BY <1>3, <3>1, <3>3
    <3>. QED BY <3>2, <3>3
  <2>. QED BY <1>1, <2>1 DEF IInv, KernelInv, Reading
<1>7. ASSUME NEW e \in Dials
      PROVE  /\ e \in conns'[e.from][e.net] <=> e \in conns[e.from][e.net] \/ e = d
             /\ e \in conns'[e.to][e.net] <=> e \in conns[e.to][e.net]
  <2>1. e.from \in Party /\ e.to \in Party /\ e.net \in Network
    BY DEF Dials
  <2>2. ASSUME e = d PROVE conns'[e.to][e.net] = conns[e.to][e.net]
    BY <1>2, <1>3, <2>1, <2>2
  <2>3. conns'[e.to][e.net] \in {conns[e.to][e.net], conns[e.to][e.net] \cup {d}}
    BY <1>3, <2>1
  <2>4. conns'[e.from][e.net] \in {conns[e.from][e.net], conns[e.from][e.net] \cup {d}}
    BY <1>3, <2>1
  <2>5. e = d => e \in conns'[e.from][e.net]
    BY <1>3, <2>1 DEF p, k
  <2>. QED BY <2>2, <2>3, <2>4, <2>5
<1>8. Registered'
  BY <1>1, <1>7 DEF IInv, KernelInv, Registered, p, k
<1>9. Swallowed'
  BY <1>1, <1>7 DEF IInv, KernelInv, Swallowed
<1>. QED BY <1>4, <1>5, <1>6, <1>8, <1>9 DEF KernelInv
-----------------------------------------------------------------------------
(* The inductive invariant and what follows from it.                       *)

LEMMA InvInit == Init => IInv
<1>. SUFFICES ASSUME Init PROVE IInv
  OBVIOUS
<1>1. \A p \in Party, k \in Network :
         /\ ready[p][k] = N - 1 /\ ready[p][k] \in 0 .. N - 1
         /\ accepts[p][k] = Cardinality(WaitFor(p)) /\ accepts[p][k] \in 0 .. N - 1
         /\ conns[p][k] = {}
  BY PeersCount, IncomingCount, NAssumption DEF Init
<1>2. TypeOK
  <2>1. /\ ready \in [Party -> [Network -> 0 .. N - 1]]
        /\ accepts \in [Party -> [Network -> 0 .. N - 1]]
    BY <1>1 DEF Init
  <2>2. backlog \in [Party -> Seq(Dials)]
    BY EmptySeq DEF Init
  <2>3. /\ at \in [Party -> 0 .. Networks] /\ listener \in [Party -> 0 .. Networks]
        /\ tries \in [Dials -> 0 .. Attempts]
    BY NetworksAssumption, AttemptsAssumption DEF Init
  <2>. QED BY <2>1, <2>2, <2>3 DEF Init, TypeOK
<1>3. Counted
  <2>1. ASSUME NEW p \in Party, NEW k \in Network
        PROVE  /\ conns[p][k] \subseteq Mesh(p, k)
               /\ ready[p][k] = N - 1 - Cardinality(conns[p][k])
               /\ accepts[p][k] = Cardinality(WaitFor(p)) - Cardinality(conns[p][k] \cap Incoming(p, k))
    <3>1. conns[p][k] = {} /\ conns[p][k] \cap Incoming(p, k) = {}
      BY <1>1
    <3>2. Cardinality(conns[p][k]) = 0 /\ Cardinality(conns[p][k] \cap Incoming(p, k)) = 0
      BY <3>1, FS_EmptySet
    <3>3. Cardinality(WaitFor(p)) \in Int
      BY IncomingCount
    <3>. QED BY <1>1, <3>1, <3>2, <3>3, NAssumption
  <2>. QED BY <2>1 DEF Counted
<1>4. InTurn
  BY DEF Init, InTurn, Network
<1>5. KernelInv
  BY DEF Init, KernelInv, Port, Waiting, OwnDials, Reading, Registered, Swallowed, Dials
<1>. QED BY <1>2, <1>3, <1>4, <1>5 DEF IInv

LEMMA InvNext == IInv /\ [Next]_vars => IInv'
<1>. SUFFICES ASSUME IInv, [Next]_vars PROVE IInv'
  OBVIOUS
<1>1. Counted' /\ InTurn'
  BY CountedNext, InTurnNext DEF IInv, KernelInv
<1>2. ASSUME NEW p \in Party, Connect(p) PROVE TypeOK' /\ KernelInv'
  BY <1>2, ConnectStep
<1>3. ASSUME NEW q \in Party, NEW k \in Network, Listen(q, k) PROVE TypeOK' /\ KernelInv'
  BY <1>3, ListenStep
<1>4. ASSUME NEW q \in Party, NEW k \in Network, ListenFails(q, k) PROVE TypeOK' /\ KernelInv'
  <2>1. failedBind' \subseteq Party
    BY <1>4 DEF ListenFails, IInv, TypeOK
  <2>. QED BY <1>4, <2>1, PanicStep DEF ListenFails, MustListen
<1>5. ASSUME NEW q \in Party, Accept(q) PROVE TypeOK' /\ KernelInv'
  BY <1>5, AcceptStep
<1>6. ASSUME NEW q \in Party, ReadID(q) PROVE TypeOK' /\ KernelInv'
  BY <1>1, <1>6, ReadIDStep
<1>7. ASSUME NEW q \in Party, ReadIDFails(q) PROVE TypeOK' /\ KernelInv'
  BY <1>7, PanicStep DEF ReadIDFails, IInv, TypeOK
<1>8. ASSUME NEW q \in Party, CloseListener(q) PROVE TypeOK' /\ KernelInv'
  BY <1>8, CloseListenerStep
<1>9. ASSUME NEW d \in Dials, DialOk(d) PROVE TypeOK' /\ KernelInv'
  BY <1>9, DialOkStep
<1>10. ASSUME NEW d \in Dials, DialRefused(d) PROVE TypeOK' /\ KernelInv'
  BY <1>10, DialRefusedStep
<1>11. ASSUME NEW d \in Dials, GiveUp(d) PROVE TypeOK' /\ KernelInv'
  BY <1>11, PanicStep DEF GiveUp, Dialling, Dials, IInv, TypeOK
<1>12. ASSUME NEW d \in Dials, WriteID(d) PROVE TypeOK' /\ KernelInv'
  BY <1>1, <1>12, WriteIDStep
<1>13. ASSUME NEW d \in Dials, WriteIDFails(d) PROVE TypeOK' /\ KernelInv'
  BY <1>13, PanicStep DEF WriteIDFails, Dials, IInv, TypeOK
<1>14. ASSUME UNCHANGED vars PROVE TypeOK' /\ KernelInv'
  BY <1>14 DEF vars, IInv, TypeOK, KernelInv, Port, Waiting, OwnDials, Reading, Registered, Swallowed
<1>15. TypeOK' /\ KernelInv'
  BY <1>2, <1>3, <1>4, <1>5, <1>6, <1>7, <1>8, <1>9, <1>10, <1>11, <1>12, <1>13, <1>14 DEF Next
<1>. QED BY <1>1, <1>15 DEF IInv

\* The inductive invariant holds in every reachable state.
THEOREM Invariance == Spec => []IInv
BY InvInit, InvNext, PTL DEF Spec

\* All variables keep their types; in particular no WaitGroup is ever driven
\* below zero, which would be a panic of its own.
THEOREM TypeCorrect == Spec => []TypeOK
<1>1. IInv => TypeOK
  BY DEF IInv
<1>. QED BY <1>1, Invariance, PTL

\* When a Connect call returns, the map Conns of the party has the connection
\* to every other party that the two ends made for this very network.
THEOREM ConnectComplete == Spec => []ReadyMeansMesh
<1>1. IInv => ReadyMeansMesh
  BY NothingMissing DEF IInv, ReadyMeansMesh, Returned, Mesh
<1>. QED BY <1>1, Invariance, PTL

\* Between parties that run, a registered connection has been reset only if it
\* was dialled for a later network and taken by the old listening socket; the
\* party that listens has not registered it.
THEOREM ResetsExplained == Spec => []ResetOnlyByOldListener
<1>1. IInv => ResetOnlyByOldListener
  <2>. SUFFICES ASSUME IInv, NEW p \in up, NEW k \in Network,
                       NEW d \in conns[p][k], link[d] = "reset", {d.from, d.to} \subseteq up
                PROVE  k > 1 /\ p = d.from /\ d \notin conns[d.to][k]
    BY DEF ResetOnlyByOldListener
  <2>1. p \in Party /\ d \in Mesh(p, k)
    BY DEF IInv, TypeOK, Counted
  <2>2. d \in Dials /\ d.net = k /\ p \in {d.from, d.to}
    BY <2>1 DEF Mesh
  <2>3. d.net > 1 /\ d \notin conns[d.to][d.net]
    BY <2>2 DEF IInv, KernelInv, Swallowed
  <2>. QED BY <2>2, <2>3
<1>. QED BY <1>1, Invariance, PTL

\* A dial is refused only as long as the peer has not called Listen for this
\* network, or after its death: the port never closes too early.
THEOREM RefusalsExplained == Spec => RefusedOnlyBeforeListen
<1>. DEFINE Refused == \A d \in Dials : tries'[d] > tries[d] =>
                          d.to \notin up \/ d.net \notin listened[d.to]
<1>1. IInv /\ [Next]_vars => [Refused]_vars
  <2>. SUFFICES ASSUME IInv, [Next]_vars, NEW d \in Dials, tries'[d] > tries[d]
                PROVE  d.to \notin up \/ d.net \notin listened[d.to]
    OBVIOUS
  <2>1. DialRefused(d)
    <3>1. tries \in [Dials -> Nat]
      BY AttemptsAssumption DEF IInv, TypeOK
    <3>2. UNCHANGED tries \/ (\E e \in Dials : DialOk(e) \/ DialRefused(e))
      BY DEF Next, vars, Connect, Accept, ReadID, ReadIDFails, CloseListener, Listen,
             ListenFails, GiveUp, WriteID, WriteIDFails
    <3>3. ASSUME NEW e \in Dials, DialOk(e) PROVE FALSE
      BY <3>1, <3>3 DEF DialOk
    <3>4. ASSUME NEW e \in Dials, DialRefused(e) PROVE e = d
      BY <3>1, <3>4 DEF DialRefused
    <3>. QED BY <3>1, <3>2, <3>3, <3>4
  <2>2. Dialling(d) /\ listener[d.to] = 0
    BY <2>1 DEF DialRefused
  <2>3. d.to \in Party /\ accepts[d.to][d.net] > 0 /\ d.net # 0
    BY <2>2, DialInTime DEF Network
  <2>. QED BY <2>2, <2>3 DEF IInv, KernelInv, Port
<1>. QED BY <1>1, Invariance, PTL DEF Spec, RefusedOnlyBeforeListen
=============================================================================
