---------------------------- MODULE RkgProtocol ----------------------------
(***************************************************************************)
(* The generation of the collective relinearization key along the tree,    *)
(* RkgProtocol.Run in apps/tpl/genrlk.go: the setup of the "mhe" triples.  *)
(*                                                                         *)
(*   round 0   the seed of the common reference goes down the tree,        *)
(*   round 1   the round-one shares are added up on the way to the root,   *)
(*   round 2   their sum goes down, and everybody computes a round-two     *)
(*             share from it,                                              *)
(*   round 3   the round-two shares are added up on the way to the root,   *)
(*             which computes the key from both sums.                      *)
(*                                                                         *)
(* A share is symbolic: how often the share of each party is in the sum,   *)
(* and, for round two, from which round-one sums the summands were made.   *)
(***************************************************************************)
EXTENDS TreeLinks, FiniteSets

VARIABLES
  crp,      \* the parties that have derived the common reference
  share1,   \* share1[p]: summands of rkg.share1
  share2,   \* share2[p]: summands of rkg.share2 and the sums they come from
  state,    \* state[p]: the counter of both collecting rounds
  run,      \* run[p]: has Run returned?
  rlk       \* the key of the root: the two sums it was computed from

protocol == <<crp, share1, share2, state, run, rlk>>
vars == <<links, protocol>>

Sums == [Party -> Nat]
Zero == [p \in Party |-> 0]
Only(p) == [q \in Party |-> IF q = p THEN 1 ELSE 0]
Add(f, g) == [p \in Party |-> f[p] + g[p]]

Shares2 == [sum : Sums, from : SUBSET Sums]
NoKey == [sum1 |-> Zero, share2 |-> [sum |-> Zero, from |-> {}]]

Seed        == [Round |-> 0]
Message1(s) == [Round |-> 1, Data |-> s]
Message2(s) == [Round |-> 2, Data |-> s]
\* Faulty: a round-two share is sent as the sum of round one.
Share2AsSum(s) == [Round |-> 2, Data |-> s]
Message3(s) == [Round |-> 3, Data |-> s]
Messages == {Seed} \cup [Round : {1, 2}, Data : Sums] \cup [Round : {3}, Data : Shares2]

-----------------------------------------------------------------------------
TypeOK ==
  /\ LinksTypeOK(Messages)
  /\ crp \subseteq Party
  /\ share1 \in [Party -> Sums]
  /\ share2 \in [Party -> Shares2]
  /\ state \in [Party -> Nat]
  /\ run \in [Party -> {"starting", "listening", "returned"}]
  /\ rlk \in [sum1 : Sums, share2 : Shares2]

\* The goroutines are bound; the parties other than the root listen.
Init ==
  /\ LinksInit
  /\ crp = {}
  /\ share1 = [p \in Party |-> Zero]
  /\ share2 = [p \in Party |-> [sum |-> Zero, from |-> {}]]
  /\ state = [p \in Party |-> 0]
  /\ run = [p \in Party |-> IF HasParent(p) THEN "listening" ELSE "starting"]
  /\ rlk = NoKey

IsLeaf(p) == Children(p) = {}

\* GenShareRoundOne writes the receiver's share, GenShareRoundTwo computes
\* from a sum of round-one shares; AggregateShares adds.
GenShareRoundOne(p) == Only(p)
GenShareRoundTwo(p, sum1) == [sum |-> Only(p), from |-> {sum1}]
AggregateShares2(f, g) == [sum |-> Add(f.sum, g.sum), from |-> f.from \cup g.from]

\* Faulty: a round is taken as complete with every message.
CompleteEarly(p) == state[p] + 1 >= 1

\* This message completes a collecting round.
Complete(p) == state[p] + 1 = Cardinality(Children(p))

\* The root sends the seed and computes its round-one share; then it listens.
Start(p) ==
  /\ Up(p)
  /\ run[p] = "starting"
  /\ crp' = crp \cup {p}
  /\ outbox' = [outbox EXCEPT ![p] = Queue(p, Children(p), Seed)]
  /\ share1' = [share1 EXCEPT ![p] = GenShareRoundOne(p)]
  /\ run' = [run EXCEPT ![p] = "listening"]
  /\ UNCHANGED <<wire, torn, reading, inbox, proc, share2, state, rlk>>

\* Run takes the next message, of the given round, from rkg.Chan.
Take(p, round) ==
  /\ Up(p)
  /\ run[p] = "listening"
  /\ inbox[p] # <<>>
  /\ Head(inbox[p]).Round = round
  /\ inbox' = [inbox EXCEPT ![p] = Tail(@)]
  /\ UNCHANGED <<wire, torn, reading, proc>>

\* Forward the seed, derive the common reference and the own share; a leaf
\* sends its share at once.
HandleSeed(p) ==
  /\ Take(p, 0)
  /\ HasParent(p)
  /\ LET share == GenShareRoundOne(p)
     IN  /\ share1' = [share1 EXCEPT ![p] = share]
         /\ outbox' = [outbox EXCEPT ![p] =
                         IF IsLeaf(p) THEN Queue(p, {Parent(p)}, Message1(share))
                                      ELSE Queue(p, Children(p), Seed)]
  /\ crp' = crp \cup {p}
  /\ UNCHANGED <<share2, state, run, rlk>>

\* Add the share of a child.  When all are there, the root sends the sum down
\* and computes its round-two share from it, another party sends it up.
HandleShare1(p) ==
  /\ Take(p, 1)
  /\ LET sum == Add(share1[p], Head(inbox[p]).Data)
     IN  /\ share1' = [share1 EXCEPT ![p] = sum]
         /\ \/ /\ ~Complete(p)
               /\ state' = [state EXCEPT ![p] = @ + 1]
               /\ UNCHANGED <<outbox, share2>>
            \/ /\ Complete(p)
               /\ state' = [state EXCEPT ![p] = 0]
               /\ \/ /\ HasParent(p)
                     /\ outbox' = [outbox EXCEPT ![p] = Queue(p, {Parent(p)}, Message1(sum))]
                     /\ UNCHANGED share2
                  \/ /\ ~HasParent(p)
                     /\ outbox' = [outbox EXCEPT ![p] = Queue(p, Children(p), Message2(sum))]
                     /\ share2' = [share2 EXCEPT ![p] = GenShareRoundTwo(p, sum)]
  /\ UNCHANGED <<crp, run, rlk>>

\* Forward the sum, take it over and compute the round-two share from it; a
\* leaf sends its share and returns.
HandleSum(p) ==
  /\ Take(p, 2)
  /\ HasParent(p)
  /\ LET m == Head(inbox[p])
         share == GenShareRoundTwo(p, m.Data)
     IN  /\ share1' = [share1 EXCEPT ![p] = m.Data]
         /\ share2' = [share2 EXCEPT ![p] = share]
         /\ \/ /\ IsLeaf(p)
               /\ outbox' = [outbox EXCEPT ![p] = Queue(p, {Parent(p)}, Message3(share))]
               /\ run' = [run EXCEPT ![p] = "returned"]
            \/ /\ ~IsLeaf(p)
               /\ outbox' = [outbox EXCEPT ![p] = Queue(p, Children(p), m)]
               /\ UNCHANGED run
  /\ UNCHANGED <<crp, state, rlk>>

\* Add the round-two share of a child.  When all are there, the root computes
\* the key, another party sends the sum up; both return.
HandleShare2(p) ==
  /\ Take(p, 3)
  /\ LET sum == AggregateShares2(share2[p], Head(inbox[p]).Data)
     IN  /\ share2' = [share2 EXCEPT ![p] = sum]
         /\ \/ /\ ~Complete(p)
               /\ state' = [state EXCEPT ![p] = @ + 1]
               /\ UNCHANGED <<outbox, run, rlk>>
            \/ /\ Complete(p)
               /\ run' = [run EXCEPT ![p] = "returned"]
               /\ \/ /\ HasParent(p)
                     /\ outbox' = [outbox EXCEPT ![p] = Queue(p, {Parent(p)}, Message3(sum))]
                     /\ state' = [state EXCEPT ![p] = 0]
                     /\ UNCHANGED rlk
                  \/ /\ ~HasParent(p)
                     /\ state' = [state EXCEPT ![p] = @ + 1]
                     /\ rlk' = [sum1 |-> share1[p], share2 |-> sum]
                     /\ UNCHANGED outbox
  /\ UNCHANGED <<crp, share1>>

Run(p) == \/ Start(p)
          \/ HandleSeed(p)
          \/ HandleShare1(p)
          \/ HandleSum(p)
          \/ HandleShare2(p)

Next ==
  \E p \in Party :
     Run(p) \/ (Flow(p) /\ UNCHANGED protocol) \/ (Failures(p) /\ UNCHANGED protocol)

Spec == Init /\ [][Next]_vars

-----------------------------------------------------------------------------
(* Properties.                                                             *)

Everybody == [p \in Party |-> 1]

\* The key that the root computes comes from every party's share of each
\* round exactly once, and all the round-two shares were computed from the
\* same, complete, sum of the round-one shares.
KeyExact ==
  rlk # NoKey =>
     rlk = [sum1 |-> Everybody, share2 |-> [sum |-> Everybody, from |-> {Everybody}]]

\* One counter serves both collecting rounds: it counts right only because no
\* party ever has shares of both rounds to handle, and none of round two
\* while it still waits for some of round one.
RoundsDoNotMix ==
  \A p \in Party : (\E i \in DOMAIN inbox[p] : inbox[p][i].Round = 3) =>
     /\ share2[p].from # {}
     /\ \A i \in DOMAIN inbox[p] : inbox[p][i].Round = 3
     /\ \A c \in Children(p) : \A i \in DOMAIN wire[c][p] : wire[c][p][i].Round = 3

\* A party returns from Run only when every party has contributed to round
\* one (so all have left their first Connect), and the root only when all the
\* others have returned: nobody waits for a message of a later round.
ReturnIsCollective ==
  /\ (\E p \in Party : run[p] = "returned") => crp = Party
  /\ run[Root] = "returned" => \A p \in Party : run[p] = "returned"

\* When Run has returned, nothing is left to be read for that party: the
\* receiving goroutines that stay alive meet no message of this protocol.
NothingAfterReturn ==
  \A p \in Party : run[p] = "returned" =>
     inbox[p] = <<>> /\ \A q \in Binds(p) : wire[q][p] = <<>> /\ outbox[q][p] = <<>>
=============================================================================
