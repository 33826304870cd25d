---------------------------- MODULE MheTripleGen ----------------------------
(***************************************************************************)
(* The generation of Beaver triples with multiparty encryption along the   *)
(* tree ("mhe"), MHETripleGenProtocol.Run in apps/tpl/offline_mhe.go.      *)
(*                                                                         *)
(*   round 0   the encryptions of the inputs are added up on the way to    *)
(*             the root, which multiplies the two sums,                    *)
(*   round 1   the product goes down, and everybody computes a decryption  *)
(*             share of it, from which all but the root subtract the share *)
(*             c of the result that they keep,                             *)
(*   round 2   the decryption shares are added up on the way to the root,  *)
(*             which decrypts what remains as its own c.                   *)
(*                                                                         *)
(* The inputs a and b of a party take the same way, so one symbolic sum    *)
(* stands for both: how often the inputs of each party are in it.          *)
(***************************************************************************)
EXTENDS TreeLinks, FiniteSets

VARIABLES
  enc,    \* enc[p]: summands of round.encA and round.encB
  share,  \* share[p]: summands of round.decryptionShare
  state,  \* state[p]: the counter of both collecting rounds
  run,    \* run[p]: where is Run?
  result  \* what the root decrypted as its share of the products

protocol == <<enc, share, state, run, result>>
vars == <<links, protocol>>

Sums == [Party -> Nat]
Zero == [p \in Party |-> 0]
Only(p) == [q \in Party |-> IF q = p THEN 1 ELSE 0]
Add(f, g) == [p \in Party |-> f[p] + g[p]]

\* A sum of decryption shares: whose keys are in it, whose c was subtracted,
\* and of which products they are shares (a product is named by the sum of
\* inputs that was squared into it).
Shares == [keys : Sums, minus : Sums, of : SUBSET Sums]
NoShare == [keys |-> Zero, minus |-> Zero, of |-> {}]

\* Faulty: rounds are numbered from one.
MessageNextRound(round, data) == [Round |-> round + 1, Data |-> data]

Message(round, data) == [Round |-> round, Data |-> data]
Messages == [Round : {0, 1}, Data : Sums] \cup [Round : {2}, Data : Shares]

-----------------------------------------------------------------------------
TypeOK ==
  /\ LinksTypeOK(Messages)
  /\ enc \in [Party -> Sums]
  /\ share \in [Party -> Shares]
  /\ state \in [Party -> Nat]
  /\ run \in [Party -> {"starting", "listening", "returned"}]
  /\ result \in [product : SUBSET Sums, share : Shares]

\* The goroutines are bound and Run has executed genInput.
Init ==
  /\ LinksInit
  /\ enc = [p \in Party |-> Only(p)]
  /\ share = [p \in Party |-> NoShare]
  /\ state = [p \in Party |-> 0]
  /\ run = [p \in Party |-> IF Children(p) = {} THEN "starting" ELSE "listening"]
  /\ result = [product |-> {}, share |-> NoShare]

\* Faulty: a party without children waits for them.
NeverLeaf(p) == FALSE

IsLeaf(p) == Children(p) = {}

\* Faulty: the root subtracts a share too.
ShareMinusAll(p, product) ==
  [keys |-> Only(p), minus |-> Only(p), of |-> {product}]

\* genDecryptionShare overwrites round.decryptionShare with its result.
GenDecryptionShare(p, product) ==
  [keys |-> Only(p), minus |-> IF HasParent(p) THEN Only(p) ELSE Zero, of |-> {product}]

AggregateDecryptionShare(f, g) ==
  [keys |-> Add(f.keys, g.keys), minus |-> Add(f.minus, g.minus), of |-> f.of \cup g.of]

\* Faulty: a round is taken as complete with every message.
CompleteEarly(p) == state[p] + 1 >= 1

Complete(p) == state[p] + 1 = Cardinality(Children(p))

\* A leaf sends its encrypted inputs before it listens.
SendInputs(p) ==
  /\ Up(p)
  /\ run[p] = "starting"
  /\ HasParent(p)
  /\ outbox' = [outbox EXCEPT ![p] = Queue(p, {Parent(p)}, Message(0, enc[p]))]
  /\ run' = [run EXCEPT ![p] = "listening"]
  /\ UNCHANGED <<wire, torn, reading, inbox, proc, enc, share, state, result>>

\* Run takes the next message, of the given round, from tgp.Chan.
Take(p, round) ==
  /\ Up(p)
  /\ run[p] = "listening"
  /\ inbox[p] # <<>>
  /\ Head(inbox[p]).Round = round
  /\ inbox' = [inbox EXCEPT ![p] = Tail(@)]
  /\ UNCHANGED <<wire, torn, reading, proc>>

\* Add the inputs of a child.  When all are there, send the sums up; the root
\* multiplies them, sends the product down and computes its own share.
HandleInputs(p) ==
  /\ Take(p, 0)
  /\ LET sum == Add(enc[p], Head(inbox[p]).Data)
     IN  /\ enc' = [enc EXCEPT ![p] = sum]
         /\ \/ /\ ~Complete(p)
               /\ state' = [state EXCEPT ![p] = @ + 1]
               /\ UNCHANGED <<outbox, share>>
            \/ /\ Complete(p)
               /\ state' = [state EXCEPT ![p] = 0]
               /\ \/ /\ HasParent(p)
                     /\ outbox' = [outbox EXCEPT ![p] = Queue(p, {Parent(p)}, Message(0, sum))]
                     /\ UNCHANGED share
                  \/ /\ ~HasParent(p)
                     /\ outbox' = [outbox EXCEPT ![p] = Queue(p, Children(p), Message(1, sum))]
                     /\ share' = [share EXCEPT ![p] = GenDecryptionShare(p, sum)]
  /\ UNCHANGED <<run, result>>

\* Forward the product and compute the decryption share; a leaf sends it and
\* returns.
HandleProduct(p) ==
  /\ Take(p, 1)
  /\ LET m == Head(inbox[p])
         own == GenDecryptionShare(p, m.Data)
     IN  /\ share' = [share EXCEPT ![p] = own]
         /\ \/ /\ IsLeaf(p)
               /\ HasParent(p)
               /\ outbox' = [outbox EXCEPT ![p] = Queue(p, {Parent(p)}, Message(2, own))]
               /\ run' = [run EXCEPT ![p] = "returned"]
            \/ /\ ~IsLeaf(p)
               /\ outbox' = [outbox EXCEPT ![p] = Queue(p, Children(p), m)]
               /\ UNCHANGED run
  /\ UNCHANGED <<enc, state, result>>

\* Add the decryption share of a child.  When all are there, send the sum up,
\* or decrypt (rootFinalize), and return.
HandleShare(p) ==
  /\ Take(p, 2)
  /\ LET sum == AggregateDecryptionShare(share[p], Head(inbox[p]).Data)
     IN  /\ share' = [share EXCEPT ![p] = sum]
         /\ \/ /\ ~Complete(p)
               /\ state' = [state EXCEPT ![p] = @ + 1]
               /\ UNCHANGED <<outbox, run, result>>
            \/ /\ Complete(p)
               /\ run' = [run EXCEPT ![p] = "returned"]
               /\ \/ /\ HasParent(p)
                     /\ outbox' = [outbox EXCEPT ![p] = Queue(p, {Parent(p)}, Message(2, sum))]
                     /\ state' = [state EXCEPT ![p] = 0]
                     /\ UNCHANGED result
                  \/ /\ ~HasParent(p)
                     /\ state' = [state EXCEPT ![p] = @ + 1]
                     /\ result' = [product |-> {enc[p]}, share |-> sum]
                     /\ UNCHANGED outbox
  /\ UNCHANGED enc

Run(p) == \/ SendInputs(p)
          \/ HandleInputs(p)
          \/ HandleProduct(p)
          \/ HandleShare(p)

Next ==
  \E p \in Party :
     Run(p) \/ (Flow(p) /\ UNCHANGED protocol) \/ (Failures(p) /\ UNCHANGED protocol)

Spec == Init /\ [][Next]_vars

-----------------------------------------------------------------------------
(* Properties.                                                             *)

Everybody == [p \in Party |-> 1]

\* The shares of the result add up to the product of the sums of the inputs:
\* the root multiplies the inputs of every party once, decrypts that product
\* with the key of every party once, and exactly the shares c that the other
\* parties keep are subtracted from what it decrypts.
TriplesExact ==
  run[Root] = "returned" =>
     result = [product |-> {Everybody},
               share |-> [keys |-> Everybody,
                          minus |-> [Everybody EXCEPT ![Root] = 0],
                          of |-> {Everybody}]]

\* genDecryptionShare replaces what round.decryptionShare holds: the share of
\* a child must never be added before, or it would be forgotten.
OwnShareFirst ==
  \A p \in Party : (\E i \in DOMAIN inbox[p] : inbox[p][i].Round = 2) =>
     /\ share[p].of # {}
     /\ \A i \in DOMAIN inbox[p] : inbox[p][i].Round = 2
=============================================================================
