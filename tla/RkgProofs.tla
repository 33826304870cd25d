------------------------------ MODULE RkgProofs ------------------------------
(***************************************************************************)
(* Proofs about RkgProtocol, for every number of parties, every branching  *)
(* of the tree, every capacity and both settings of the deadlines.         *)
(***************************************************************************)
EXTENDS RkgInvariant, TreeProofs

\* What the progress of the parties says, without the links.
Progress == TypeOK /\ (\A p \in Party : LocalInv(p)) /\ OrderInv

-----------------------------------------------------------------------------
(* Types.                                                                  *)

LEMMA SumsFacts ==
  /\ Zero \in Sums /\ Everybody \in Sums
  /\ \A p \in Party : Only(p) \in Sums
  /\ \A f, g \in Sums : Add(f, g) \in Sums
BY DEF Zero, Everybody, Only, Add, Sums

LEMMA HeadType ==
  ASSUME TypeOK, NEW p \in Party, inbox[p] # <<>>
  PROVE  /\ Head(inbox[p]) \in Messages
         /\ Tail(inbox[p]) \in Seq(Messages)
         /\ Head(inbox[p]).Round \in {1, 2} => Head(inbox[p]).Data \in Sums
         /\ Head(inbox[p]).Round = 3 => Head(inbox[p]).Data \in Shares2
<1>1. inbox[p] \in Seq(Messages)
  BY DEF TypeOK, LinksTypeOK
<1>2. Head(inbox[p]) \in Messages /\ Tail(inbox[p]) \in Seq(Messages)
  BY <1>1
<1>3. ASSUME NEW m \in Messages
      PROVE  /\ m.Round \in {1, 2} => m.Data \in Sums
             /\ m.Round = 3 => m.Data \in Shares2
  BY DEF Messages, Seed
<1>. QED BY <1>2, <1>3

LEMMA MessageTypes ==
  /\ Seed \in Messages
  /\ \A s \in Sums : Message1(s) \in Messages /\ Message2(s) \in Messages
  /\ \A s \in Shares2 : Message3(s) \in Messages
BY DEF Messages, Message1, Message2, Message3

LEMMA TakeType ==
  ASSUME TypeOK, NEW p \in Party, NEW round, Take(p, round),
         outbox' \in [Party -> [Party -> Seq(Messages)]]
  PROVE  LinksTypeOK(Messages)'
<1>1. inbox' \in [Party -> Seq(Messages)]
  BY HeadType DEF Take, TypeOK, LinksTypeOK
<1>. QED BY <1>1 DEF Take, TypeOK, LinksTypeOK

\* What a handler queues keeps the type of the channels.
LEMMA OutboxType ==
  ASSUME TypeOK, NEW p \in Party, NEW to, NEW m \in Messages,
         outbox' = [outbox EXCEPT ![p] = Queue(p, to, m)]
  PROVE  outbox' \in [Party -> [Party -> Seq(Messages)]]
<1>1. Queue(p, to, m) \in [Party -> Seq(Messages)]
  BY QueueType DEF TypeOK
<1>. QED BY <1>1 DEF TypeOK, LinksTypeOK

LEMMA RunType ==
  ASSUME TypeOK, NEW p \in Party, Run(p)
  PROVE  TypeOK'
<1>. DEFINE m == Head(inbox[p])
<1>0. share1[p] \in Sums /\ share2[p] \in Shares2 /\ state[p] \in Nat
  BY DEF TypeOK
<1>1. CASE Start(p)
  <2>1. outbox' \in [Party -> [Party -> Seq(Messages)]]
    BY <1>1, OutboxType, MessageTypes DEF Start
  <2>2. LinksTypeOK(Messages)'
    BY <1>1, <2>1 DEF Start, TypeOK, LinksTypeOK
  <2>. QED BY <1>1, <2>2, SumsFacts DEF Start, TypeOK, GenShareRoundOne
<1>2. CASE HandleSeed(p)
  <2>1. outbox' \in [Party -> [Party -> Seq(Messages)]]
    BY <1>2, OutboxType, MessageTypes, SumsFacts DEF HandleSeed, GenShareRoundOne
  <2>2. LinksTypeOK(Messages)'
    BY <1>2, <2>1, TakeType DEF HandleSeed
  <2>. QED BY <1>2, <2>2, SumsFacts DEF HandleSeed, TypeOK, GenShareRoundOne
<1>3. CASE HandleShare1(p)
  <2>1. m.Data \in Sums /\ Add(share1[p], m.Data) \in Sums
    BY <1>0, <1>3, HeadType, SumsFacts DEF HandleShare1, Take
  <2>2. outbox' \in [Party -> [Party -> Seq(Messages)]]
    <3>1. CASE outbox' = outbox
      BY <3>1 DEF TypeOK, LinksTypeOK
    <3>2. CASE outbox' # outbox
      BY <1>3, <2>1, <3>2, OutboxType, MessageTypes DEF HandleShare1
    <3>. QED BY <3>1, <3>2
  <2>3. LinksTypeOK(Messages)'
    BY <1>3, <2>2, TakeType DEF HandleShare1
  <2>4. share1' \in [Party -> Sums]
    BY <1>3, <2>1 DEF HandleShare1, TypeOK
  <2>5. share2' \in [Party -> Shares2]
    <3>1. GenShareRoundTwo(p, Add(share1[p], m.Data)) \in Shares2
      BY <2>1, SumsFacts DEF GenShareRoundTwo, Shares2
    <3>. QED BY <1>3, <3>1 DEF HandleShare1, TypeOK
  <2>6. state' \in [Party -> Nat]
    BY <1>0, <1>3 DEF HandleShare1, TypeOK
  <2>. QED BY <1>3, <2>3, <2>4, <2>5, <2>6 DEF HandleShare1, TypeOK
<1>4. CASE HandleSum(p)
  <2>1. m \in Messages /\ m.Data \in Sums /\ GenShareRoundTwo(p, m.Data) \in Shares2
    BY <1>4, HeadType, SumsFacts DEF HandleSum, Take, GenShareRoundTwo, Shares2
  <2>2. outbox' \in [Party -> [Party -> Seq(Messages)]]
    BY <1>4, <2>1, OutboxType, MessageTypes DEF HandleSum
  <2>3. LinksTypeOK(Messages)'
    BY <1>4, <2>2, TakeType DEF HandleSum
  <2>. QED BY <1>4, <2>1, <2>3 DEF HandleSum, TypeOK
<1>5. CASE HandleShare2(p)
  <2>1. m.Data \in Shares2 /\ AggregateShares2(share2[p], m.Data) \in Shares2
    BY <1>0, <1>5, HeadType, SumsFacts DEF HandleShare2, Take, AggregateShares2, Shares2
  <2>2. outbox' \in [Party -> [Party -> Seq(Messages)]]
    <3>1. CASE outbox' = outbox
      BY <3>1 DEF TypeOK, LinksTypeOK
    <3>2. CASE outbox' # outbox
      BY <1>5, <2>1, <3>2, OutboxType, MessageTypes DEF HandleShare2
    <3>. QED BY <3>1, <3>2
  <2>3. LinksTypeOK(Messages)'
    BY <1>5, <2>2, TakeType DEF HandleShare2
  <2>4. share2' \in [Party -> Shares2] /\ share1' = share1 /\ crp' = crp
    BY <1>5, <2>1 DEF HandleShare2, TypeOK
  <2>5. state' \in [Party -> Nat]
    BY <1>0, <1>5 DEF HandleShare2, TypeOK
  <2>6. rlk' \in [sum1 : Sums, share2 : Shares2]
    BY <1>0, <1>5, <2>1 DEF HandleShare2, TypeOK
  <2>7. run' \in [Party -> {"starting", "listening", "returned"}]
    BY <1>5 DEF HandleShare2, TypeOK
  <2>. QED BY <2>3, <2>4, <2>5, <2>6, <2>7 DEF TypeOK
<1>. QED BY <1>1, <1>2, <1>3, <1>4, <1>5 DEF Run

-----------------------------------------------------------------------------
(* What is due.                                                            *)

LEMMA DueCases ==
  ASSUME NEW p \in Party, NEW q \in Party
  PROVE  /\ p \in Children(q) => Due[p][q] = UpDue(p, q) /\ q \notin Children(p) /\ p # q
         /\ q \in Children(p) => Due[p][q] = DownDue(p, q) /\ p \notin Children(q) /\ p # q
         /\ p \notin Children(q) /\ q \notin Children(p) => Due[p][q] = {}
<1>1. p \in Children(q) <=> HasParent(p) /\ Parent(p) = q
  BY ChildIff
<1>2. q \in Children(p) <=> HasParent(q) /\ Parent(q) = p
  BY ChildIff
<1>3. ~(p \in Children(q) /\ q \in Children(p)) /\ p \notin Children(p)
  <2>1. HasParent(p) => Parent(p) < p
    BY ParentFacts
  <2>2. HasParent(q) => Parent(q) < q
    BY ParentFacts
  <2>3. p \in Int /\ q \in Int
    BY NAssumption DEF Party
  <2>. QED BY <1>1, <1>2, <2>1, <2>2, <2>3, ChildIff
<1>. QED BY <1>1, <1>2, <1>3 DEF Due

\* Which message it can be, by its round.
LEMMA UpMessage ==
  ASSUME NEW p, NEW q, NEW m \in UpDue(p, q)
  PROVE  \/ /\ m = Message1(Whole(p)) /\ m.Round = 1 /\ m.Data = Whole(p)
            /\ Summed(p) /\ share1[q][p] # 1
         \/ /\ m = Message3(ShareOf(p, Children(p))) /\ m.Round = 3
            /\ m.Data = ShareOf(p, Children(p)) /\ m.Data.sum = Whole(p)
            /\ Returned(p) /\ share2[q].sum[p] # 1
<1>1. CASE Summed(p) /\ share1[q][p] # 1
  BY <1>1 DEF UpDue, Message1
<1>2. CASE ~(Summed(p) /\ share1[q][p] # 1)
  <2>1. m = Message3(ShareOf(p, Children(p))) /\ Returned(p) /\ share2[q].sum[p] # 1
    BY <1>2 DEF UpDue
  <2>2. m.Round = 3 /\ m.Data = ShareOf(p, Children(p)) /\ m.Data.sum = Whole(p)
    BY <2>1 DEF Message3, ShareOf, Whole
  <2>. QED BY <2>1, <2>2
<1>. QED BY <1>1, <1>2

LEMMA DownMessage ==
  ASSUME NEW p, NEW q, NEW m \in DownDue(p, q)
  PROVE  \/ m = Seed /\ m.Round = 0 /\ Seeded(p) /\ ~Seeded(q)
         \/ /\ m = Message2(Everybody) /\ m.Round = 2 /\ m.Data = Everybody
            /\ Informed(p) /\ ~Informed(q)
<1>1. CASE Seeded(p) /\ ~Seeded(q)
  BY <1>1 DEF DownDue, Seed
<1>2. CASE ~(Seeded(p) /\ ~Seeded(q))
  BY <1>2 DEF DownDue, Message2
<1>. QED BY <1>1, <1>2

LEMMA DueSeparate == Separate(Due)
<1>. SUFFICES ASSUME NEW p \in Party, NEW r \in Party, NEW q \in Party,
                     NEW m, m \in Due[p][q], m \in Due[r][q]
              PROVE  p = r
  BY DEF Separate
<1>1. \A x \in {p, r} : \/ x \in Children(q) /\ m \in UpDue(x, q)
                        \/ q \in Children(x) /\ m \in DownDue(x, q)
  BY DueCases
<1>2. CASE p \in Children(q) /\ r \in Children(q)
  <2>1. m \in UpDue(p, q) /\ m \in UpDue(r, q)
    BY <1>2, DueCases
  <2>2. Whole(p) = Whole(r)
    BY <2>1, UpMessage
  <2>. QED BY <1>2, <2>2, WholesDiffer
<1>3. CASE q \in Children(p) /\ q \in Children(r)
  BY <1>3, ChildIff
<1>4. ASSUME NEW x, NEW y, m \in UpDue(x, q), m \in DownDue(y, q) PROVE FALSE
  BY <1>4, UpMessage, DownMessage
<1>. QED BY <1>1, <1>2, <1>3, <1>4

\* The next message of a party comes from a neighbour, and shows what the
\* neighbour has done.
LEMMA NextMessage ==
  ASSUME Carried(outbox, wire, inbox, Due), TypeOK, NEW p \in Party, inbox[p] # <<>>
  PROVE  \E r \in Party :
            /\ r # p /\ Head(inbox[p]) \in Due[r][p]
            /\ Head(inbox[p]).Round \in {0, 2} => p \in Children(r)
            /\ Head(inbox[p]).Round \in {1, 3} => r \in Children(p)
            /\ Head(inbox[p]).Round = 0 => Seeded(r) /\ ~Seeded(p)
            /\ Head(inbox[p]).Round = 1 =>
                  Summed(r) /\ share1[p][r] # 1 /\ Head(inbox[p]).Data = Whole(r)
            /\ Head(inbox[p]).Round = 2 =>
                  /\ Informed(r) /\ ~Informed(p)
                  /\ Head(inbox[p]) = Message2(Everybody) /\ Head(inbox[p]).Data = Everybody
            /\ Head(inbox[p]).Round = 3 =>
                  /\ Returned(r) /\ share2[p].sum[r] # 1
                  /\ Head(inbox[p]).Data = ShareOf(r, Children(r))
<1>. DEFINE m == Head(inbox[p])
<1>1. PICK r \in Party : m \in Due[r][p]
  <2>1. 1 \in DOMAIN inbox[p] /\ m = inbox[p][1]
    BY DEF TypeOK, LinksTypeOK
  <2>. QED BY <2>1 DEF Carried
<1>. HIDE DEF m
<1>2. CASE r \in Children(p)
  <2>1. m \in UpDue(r, p) /\ r # p
    BY <1>1, <1>2, DueCases
  <2>. QED BY <1>1, <1>2, <2>1, UpMessage DEF m
<1>3. CASE p \in Children(r)
  <2>1. m \in DownDue(r, p) /\ r # p
    BY <1>1, <1>3, DueCases
  <2>. QED BY <1>1, <1>3, <2>1, DownMessage DEF m
<1>. QED BY <1>1, <1>2, <1>3, DueCases

-----------------------------------------------------------------------------
(* A step of Run leaves the variables of all other parties alone.          *)

Frame(p) ==
  \A q \in Party \ {p} :
     /\ q \in crp' <=> q \in crp
     /\ share1'[q] = share1[q] /\ share2'[q] = share2[q]
     /\ state'[q] = state[q] /\ run'[q] = run[q]

LEMMA RunFrame ==
  ASSUME TypeOK, NEW p \in Party, Run(p)
  PROVE  Frame(p)
BY DEF Run, Start, HandleSeed, HandleShare1, HandleSum, HandleShare2, Frame, TypeOK

LEMMA OthersKept ==
  ASSUME NEW p \in Party, Frame(p), NEW q \in Party, q # p
  PROVE  /\ Seeded(q)' <=> Seeded(q)
         /\ Summed(q)' <=> Summed(q)
         /\ Informed(q)' <=> Informed(q)
         /\ Returned(q)' <=> Returned(q)
         /\ LocalInv(q)' <=> LocalInv(q)
BY DEF Frame, Seeded, Summed, Informed, Returned, LocalInv, Added1, Added2

\* Nothing changes on the links between other parties.
LEMMA OtherLinks ==
  ASSUME NEW p \in Party, Frame(p), NEW a \in Party \ {p}, NEW b \in Party \ {p}
  PROVE  Due'[a][b] = Due[a][b]
<1>1. UpDue(a, b)' = UpDue(a, b) /\ DownDue(a, b)' = DownDue(a, b)
  BY OthersKept DEF UpDue, DownDue, Frame
<1>. QED BY <1>1 DEF Due

LEMMA DueSeparateNext == Separate(Due')
<1>1. Separate(Due)'
  BY DueSeparate, PTL
<1>. QED BY <1>1 DEF Separate

-----------------------------------------------------------------------------
(* The links of a party that takes a message of r and sends what follows.  *)

\* The message of r is no longer due, what is due to p from others stays so,
\* and p has put a message into every channel on which something is due now.
OthersDue(p, r) == \A a \in Party \ {p, r} : Due'[a][p] = Due[a][p]
NowSent(p) ==
  /\ \A a \in Party \ {p} : outbox'[a] = outbox[a]
  /\ \A b \in Party :
        \/ Due'[p][b] = Due[p][b] /\ outbox'[p][b] = outbox[p][b]
        \/ Due[p][b] = {} /\ \E m : Due'[p][b] = {m} /\ outbox'[p][b] = Append(outbox[p][b], m)

LEMMA HandlerLinks ==
  ASSUME TypeOK, Carried(outbox, wire, inbox, Due),
         NEW p \in Party, NEW round, Take(p, round), Frame(p),
         NEW r \in Party, r # p, Head(inbox[p]) \in Due[r][p],
         Due'[r][p] = {}, OthersDue(p, r), NowSent(p)
  PROVE  Carried(outbox', wire', inbox', Due')
<1>. DEFINE mid == [a \in Party |-> [b \in Party |-> IF a = r /\ b = p THEN {} ELSE Due[a][b]]]
<1>1. \A a, b \in Party : mid[a][b] = IF a = r /\ b = p THEN {} ELSE Due[a][b]
  OBVIOUS
<1>. HIDE DEF mid
<1>3. Carried(outbox, wire, inbox', mid)
  <2>1. NoLongerDue(r, p, Due, mid)
    BY <1>1 DEF NoLongerDue
  <2>2. Takes(p) /\ LinksTypeOK(Messages)
    BY DEF Take, Takes, TypeOK
  <2>. QED BY <2>1, <2>2, CarriedDrop, DueSeparate
<1>4. Carried(outbox, wire', inbox', mid)
  BY <1>3 DEF Take
<1>5. ASSUME NEW a \in Party \ {p}, NEW b \in Party PROVE Due'[a][b] = mid[a][b]
  <2>1. CASE b = p
    BY <1>1, <2>1 DEF OthersDue
  <2>2. CASE b # p
    BY <1>1, <2>2, OtherLinks
  <2>. QED BY <2>1, <2>2
<1>6. NowDue(p, mid, Due')
  BY <1>1, <1>5 DEF NowDue, NowSent
<1>. QED BY <1>4, <1>6, CarriedQueue, DueSeparateNext

LEMMA DueCasesNext ==
  ASSUME NEW p \in Party, NEW q \in Party
  PROVE  /\ p \in Children(q) => Due'[p][q] = UpDue(p, q)' /\ q \notin Children(p) /\ p # q
         /\ q \in Children(p) => Due'[p][q] = DownDue(p, q)' /\ p \notin Children(q) /\ p # q
         /\ p \notin Children(q) /\ q \notin Children(p) => Due'[p][q] = {}
<1>1. p \in Children(q) <=> HasParent(p) /\ Parent(p) = q
  BY ChildIff
<1>2. q \in Children(p) <=> HasParent(q) /\ Parent(q) = p
  BY ChildIff
<1>. QED BY <1>1, <1>2, DueCases DEF Due

-----------------------------------------------------------------------------
(* Consequences of the invariant.                                          *)

LEMMA ProgressFacts ==
  ASSUME Progress, NEW p \in Party
  PROVE  /\ Returned(p) => Informed(p)
         /\ Informed(p) => \A q \in Party : Summed(q)
         /\ Summed(p) => Seeded(p)
         /\ Added1(p) \in SUBSET Children(p) /\ Added2(p) \in SUBSET Children(p)
         /\ IsFiniteSet(Added1(p)) /\ IsFiniteSet(Added2(p))
         /\ Summed(p) <=> Seeded(p) /\ Added1(p) = Children(p)
BY ChildrenFinite, FS_Subset DEF Progress, LocalInv, OrderInv, Summed, Added1, Added2

\* A counter that counts the children in C counts right.
LEMMA CountOneMore ==
  ASSUME NEW p \in Party, NEW C \in SUBSET Children(p), NEW c \in Children(p), c \notin C
  PROVE  /\ Cardinality(C \cup {c}) = Cardinality(C) + 1
         /\ Cardinality(C) + 1 = Cardinality(Children(p)) <=> C \cup {c} = Children(p)
<1>1. IsFiniteSet(C) /\ IsFiniteSet(Children(p)) /\ IsFiniteSet(C \cup {c})
  BY ChildrenFinite, FS_Subset
<1>2. Cardinality(C \cup {c}) = Cardinality(C) + 1
  BY <1>1, FS_AddElement
<1>3. Cardinality(C \cup {c}) = Cardinality(Children(p)) => C \cup {c} = Children(p)
  BY <1>1, FS_Subset
<1>. QED BY <1>2, <1>3

\* What a party starts a round with.
LEMMA OwnShares ==
  ASSUME NEW p \in Party
  PROVE  /\ Part(p, {}) = Only(p)
         /\ \A c \in Children(p) : Only(p)[c] = 0
         /\ GenShareRoundTwo(p, Everybody) = ShareOf(p, {})
<1>1. Part(p, {}) = Only(p)
  BY PartEnds DEF Only
<1>2. ASSUME NEW c \in Children(p) PROVE c \in Party /\ c # p
  BY DueCases, ChildIff
<1>. QED BY <1>1, <1>2 DEF Only, GenShareRoundTwo, ShareOf

-----------------------------------------------------------------------------
(* The shares of round one.                                                *)

LEMMA AddShare1 ==
  ASSUME Progress, NEW p \in Party, NEW r \in Children(p), Summed(r), share1[p][r] # 1
  PROVE  /\ Seeded(p) /\ ~Summed(p) /\ ~Informed(p) /\ ~Returned(p) /\ r \notin Added1(p)
         /\ Add(share1[p], Whole(r)) = Part(p, Added1(p) \cup {r})
         /\ state[p] = Cardinality(Added1(p))
         /\ Complete(p) <=> Added1(p) \cup {r} = Children(p)
<1>1. r \in Party
  BY ChildIff
<1>2. Seeded(p) /\ ~Summed(p) /\ ~Informed(p) /\ ~Returned(p) /\ r \notin Added1(p)
  BY <1>1, ProgressFacts DEF Progress, OrderInv, Summed, Added1
<1>3. share1[p] = Part(p, Added1(p)) /\ state[p] = Cardinality(Added1(p))
  BY <1>2 DEF Progress, LocalInv
<1>4. Added1(p) \in SUBSET Children(p)
  BY DEF Added1
<1>5. Add(share1[p], Whole(r)) = Part(p, Added1(p) \cup {r})
  BY <1>2, <1>3, <1>4, PartAdd DEF Add
<1>6. Complete(p) <=> Added1(p) \cup {r} = Children(p)
  <2>1. Cardinality(Added1(p)) + 1 = Cardinality(Children(p)) <=> Added1(p) \cup {r} = Children(p)
    BY <1>2, <1>4, CountOneMore
  <2>. QED BY <1>3, <2>1 DEF Complete
<1>. QED BY <1>2, <1>3, <1>5, <1>6

-----------------------------------------------------------------------------
(* A step of Run in general.                                               *)

\* A party never goes back, and it goes ahead only when its neighbours let it.
Ahead(p) ==
  /\ Seeded(p) => Seeded(p)'
  /\ Summed(p) => Summed(p)'
  /\ Informed(p) => Informed(p)'
  /\ Returned(p) => Returned(p)'
  /\ \A c \in Children(p) : (share1'[p][c] = 1 => Summed(c)) /\ (share2'[p].sum[c] = 1 => Returned(c))
  /\ HasParent(p) => (Seeded(p)' => Seeded(Parent(p))) /\ (Informed(p)' => Informed(Parent(p)))
  /\ Informed(p)' => Summed(p)' /\ \A q \in Party \ {p} : Summed(q)

LEMMA ProgressNext ==
  ASSUME Progress, TypeOK', NEW p \in Party, Frame(p), Ahead(p), LocalInv(p)'
  PROVE  Progress'
<1>1. ASSUME NEW q \in Party PROVE LocalInv(q)'
  <2>1. CASE q = p
    BY <2>1
  <2>2. CASE q # p
    BY <2>2, OthersKept DEF Progress
  <2>. QED BY <2>1, <2>2
<1>2. ASSUME NEW q \in Party, NEW c \in Children(q)
      PROVE  /\ Seeded(c)' => Seeded(q)'
             /\ share1'[q][c] = 1 => Summed(c)'
             /\ Informed(c)' => Informed(q)'
             /\ share2'[q].sum[c] = 1 => Returned(c)'
  <2>0. c \in Party /\ c # q /\ HasParent(c) /\ Parent(c) = q
    BY ChildIff, DueCases
  <2>1. /\ Seeded(c) => Seeded(q)
        /\ share1[q][c] = 1 => Summed(c)
        /\ Informed(c) => Informed(q)
        /\ share2[q].sum[c] = 1 => Returned(c)
    BY DEF Progress, OrderInv
  <2>2. CASE q = p
    BY <2>0, <2>1, <2>2, OthersKept DEF Ahead
  <2>3. CASE c = p
    <3>1. share1'[q] = share1[q] /\ share2'[q] = share2[q]
      BY <2>0, <2>3 DEF Frame
    <3>. QED BY <2>0, <2>1, <2>3, <3>1, OthersKept DEF Ahead
  <2>4. CASE q # p /\ c # p
    <3>1. share1'[q] = share1[q] /\ share2'[q] = share2[q]
      BY <2>4 DEF Frame
    <3>. QED BY <2>0, <2>1, <2>4, <3>1, OthersKept
  <2>. QED BY <2>2, <2>3, <2>4
<1>3. ASSUME NEW q \in Party, Informed(q)', NEW b \in Party PROVE Summed(b)'
  <2>1. CASE q = p
    BY <1>3, <2>1, OthersKept DEF Ahead
  <2>2. CASE q # p
    <3>1. Summed(b)
      BY <1>3, <2>2, OthersKept DEF Progress, OrderInv
    <3>. QED BY <3>1, OthersKept DEF Ahead
  <2>. QED BY <2>1, <2>2
<1>4. OrderInv'
  BY <1>2, <1>3 DEF OrderInv
<1>. QED BY <1>1, <1>4 DEF Progress

\* One message is queued for the members of to.
LEMMA QueueSends ==
  ASSUME TypeOK, NEW p \in Party, NEW to, NEW m,
         outbox' = [outbox EXCEPT ![p] = Queue(p, to, m)],
         \A b \in to : Due[p][b] = {} /\ Due'[p][b] = {m},
         \A b \in Party \ to : Due'[p][b] = Due[p][b]
  PROVE  NowSent(p)
<1>1. \A a \in Party \ {p} : outbox'[a] = outbox[a]
  BY DEF TypeOK, LinksTypeOK
<1>2. \A b \in Party : outbox'[p][b] = IF b \in to THEN Append(outbox[p][b], m)
                                                   ELSE outbox[p][b]
  BY DEF Queue, TypeOK, LinksTypeOK
<1>3. ASSUME NEW b \in Party
      PROVE  \/ Due'[p][b] = Due[p][b] /\ outbox'[p][b] = outbox[p][b]
             \/ Due[p][b] = {} /\ \E x : Due'[p][b] = {x} /\ outbox'[p][b] = Append(outbox[p][b], x)
  <2>1. CASE b \in to
    <3>1. Due[p][b] = {} /\ Due'[p][b] = {m} /\ outbox'[p][b] = Append(outbox[p][b], m)
      BY <1>2, <2>1
    <3>. QED BY <3>1
  <2>2. CASE b \notin to
    BY <1>2, <2>2
  <2>. QED BY <2>1, <2>2
<1>. QED BY <1>1, <1>3 DEF NowSent

LEMMA QueueSendsUp ==
  ASSUME TypeOK, NEW p \in Party, NEW r, NEW m,
         outbox' = [outbox EXCEPT ![p] = Queue(p, {r}, m)],
         Due[p][r] = {}, Due'[p][r] = {m},
         \A b \in Party \ {r} : Due'[p][b] = Due[p][b]
  PROVE  NowSent(p)
<1>. DEFINE to == {r}
<1>1. \A b \in to : Due[p][b] = {} /\ Due'[p][b] = {m}
  OBVIOUS
<1>2. outbox' = [outbox EXCEPT ![p] = Queue(p, to, m)] /\ \A b \in Party \ to : Due'[p][b] = Due[p][b]
  OBVIOUS
<1>. HIDE DEF to
<1>. QED BY <1>1, <1>2, QueueSends

\* Nothing is due on a link that neither end has got to.
LEMMA Idle ==
  ASSUME NEW p \in Party, NEW q \in Party, p \in Children(q),
         ~Summed(p) \/ share1[q][p] = 1, ~Returned(p) \/ share2[q].sum[p] = 1
  PROVE  Due[p][q] = {}
BY DueCases DEF UpDue

LEMMA IdleNext ==
  ASSUME NEW p \in Party, NEW q \in Party, p \in Children(q),
         ~Summed(p)' \/ share1'[q][p] = 1, ~Returned(p)' \/ share2'[q].sum[p] = 1
  PROVE  Due'[p][q] = {}
BY DueCasesNext DEF UpDue

-----------------------------------------------------------------------------
(* The seed.                                                               *)

\* What a party has after the seed, whether it has made it or received it.
LEMMA SeedProgress ==
  ASSUME Progress, TypeOK', NEW p \in Party, Frame(p), ~Seeded(p),
         crp' = crp \cup {p}, share1' = [share1 EXCEPT ![p] = Only(p)],
         UNCHANGED <<share2, state, rlk>>, run'[p] = "listening",
         HasParent(p) => Seeded(Parent(p))
  PROVE  /\ Progress'
         /\ Seeded(p)' /\ ~Informed(p)' /\ ~Returned(p)'
         /\ Summed(p)' <=> IsLeaf(p)
         /\ ~Summed(p) /\ ~Informed(p) /\ ~Returned(p)
<1>1. ~Summed(p) /\ ~Informed(p) /\ ~Returned(p)
  BY ProgressFacts DEF Summed
<1>2. share1'[p] = Part(p, {}) /\ Seeded(p)' /\ ~Informed(p)' /\ ~Returned(p)'
  BY <1>1, OwnShares DEF Progress, TypeOK, Seeded, Informed, Returned
<1>3. ASSUME NEW c \in Children(p) PROVE share1'[p][c] = 0
  BY <1>2, OwnShares
<1>4. Added1(p)' = {}
  BY <1>3 DEF Added1
<1>5. Summed(p)' <=> IsLeaf(p)
  BY <1>2, <1>3 DEF Summed, IsLeaf
<1>6. state'[p] = 0
  <2>1. share1[p] = Zero /\ state[p] = Cardinality(Added1(p))
    BY <1>1 DEF Progress, LocalInv
  <2>2. Added1(p) = {}
    BY <2>1, ChildIff DEF Added1, Zero
  <2>. QED BY <2>1, <2>2, FS_EmptySet
<1>7. share2'[p] = [sum |-> Zero, from |-> {}]
  BY <1>1 DEF Progress, LocalInv
<1>8. LocalInv(p)'
  BY <1>2, <1>4, <1>6, <1>7, FS_EmptySet DEF LocalInv, Returned
<1>9. Ahead(p)
  <2>1. ASSUME NEW c \in Children(p) PROVE share2'[p].sum[c] # 1
    BY <1>7, ChildIff DEF Zero
  <2>. QED BY <1>1, <1>2, <1>3, <2>1 DEF Ahead
<1>. QED BY <1>1, <1>2, <1>5, <1>8, <1>9, ProgressNext

LEMMA SeedStep ==
  ASSUME Progress, KeyInv, Carried(outbox, wire, inbox, Due), TypeOK', NEW p \in Party,
         HandleSeed(p), Frame(p)
  PROVE  Progress' /\ KeyInv' /\ Carried(outbox', wire', inbox', Due')
<1>0. TypeOK /\ Take(p, 0) /\ inbox[p] # <<>> /\ Head(inbox[p]).Round = 0
  BY DEF HandleSeed, Take, Progress
<1>1. PICK r \in Party : /\ r # p /\ Head(inbox[p]) \in Due[r][p]
                         /\ p \in Children(r) /\ Seeded(r) /\ ~Seeded(p)
  BY <1>0, NextMessage
<1>2. HasParent(p) /\ Parent(p) = r
  BY <1>1, ChildIff
<1>3. /\ Progress'
      /\ Seeded(p)' /\ ~Informed(p)' /\ ~Returned(p)'
      /\ Summed(p)' <=> IsLeaf(p)
      /\ ~Summed(p) /\ ~Informed(p) /\ ~Returned(p)
  <2>1. crp' = crp \cup {p} /\ share1' = [share1 EXCEPT ![p] = Only(p)] /\ UNCHANGED <<share2, state, rlk>>
    BY DEF HandleSeed, GenShareRoundOne
  <2>2. run'[p] = "listening"
    BY DEF HandleSeed, Take
  <2>. QED BY <1>1, <1>2, <2>1, <2>2, SeedProgress
<1>4. KeyInv'
  <2>1. Returned(Root)' <=> Returned(Root)
    BY <1>3, OthersKept, ParentFacts
  <2>2. rlk' = rlk
    BY DEF HandleSeed
  <2>. QED BY <2>1, <2>2 DEF KeyInv
<1>5. ASSUME NEW q \in Party PROVE ~Informed(q)
  BY <1>3, ProgressFacts
<1>6. Due'[r][p] = {}
  <2>1. ~Informed(r)'
    BY <1>1, <1>5, OthersKept
  <2>. QED BY <1>1, <1>3, <2>1, DueCasesNext DEF DownDue
<1>7. ASSUME NEW c \in Children(p)
      PROVE  c \in Party /\ c # p /\ c # r /\ ~Seeded(c) /\ ~Summed(c) /\ ~Returned(c)
  BY <1>1, <1>5, DueCases, ChildIff, ProgressFacts DEF Progress, OrderInv
<1>8. OthersDue(p, r)
  <2>1. ASSUME NEW a \in Party \ {p, r} PROVE Due'[a][p] = Due[a][p]
    <3>1. CASE a \in Children(p)
      <4>1. Due[a][p] = {}
        BY <1>7, <3>1, Idle
      <4>2. Due'[a][p] = {}
        BY <1>7, <3>1, IdleNext, OthersKept
      <4>. QED BY <4>1, <4>2
    <3>2. CASE a \notin Children(p)
      BY <1>2, <2>1, <3>2, DueCases, DueCasesNext, ChildIff
    <3>. QED BY <3>1, <3>2
  <2>. QED BY <2>1 DEF OthersDue
<1>9. NowSent(p)
  <2>1. ASSUME NEW b \in Party, b \notin Children(p), b # r
        PROVE  Due'[p][b] = {} /\ Due[p][b] = {}
    BY <1>2, <2>1, DueCases, DueCasesNext, ChildIff
  <2>2. Due[p][r] = {}
    BY <1>1, <1>3, Idle
  <2>3. ASSUME NEW b \in Children(p) PROVE Due[p][b] = {} /\ Due'[p][b] = {Seed}
    <3>1. ~Seeded(b)'
      BY <1>7, OthersKept
    <3>. QED BY <1>1, <1>3, <1>7, <3>1, DueCases, DueCasesNext DEF DownDue
  <2>4. CASE IsLeaf(p)
    <3>1. outbox' = [outbox EXCEPT ![p] = Queue(p, {r}, Message1(Only(p)))]
      BY <1>2, <2>4 DEF HandleSeed, GenShareRoundOne
    <3>2. Due'[p][r] = {Message1(Only(p))}
      <4>1. share1'[r][p] # 1
        BY <1>1, <1>3 DEF Progress, OrderInv, Frame
      <4>2. Whole(p) = Only(p)
        BY <2>4, OwnShares DEF IsLeaf, Whole
      <4>3. UpDue(p, r)' = {Message1(Whole(p))}
        BY <1>3, <2>4, <4>1 DEF UpDue
      <4>. QED BY <1>1, <4>2, <4>3, DueCasesNext
    <3>3. \A b \in Party \ {r} : Due'[p][b] = Due[p][b]
      BY <2>1, <2>4 DEF IsLeaf
    <3>. QED BY <1>0, <2>2, <3>1, <3>2, <3>3, QueueSendsUp
  <2>5. CASE ~IsLeaf(p)
    <3>1. outbox' = [outbox EXCEPT ![p] = Queue(p, Children(p), Seed)]
      BY <2>5 DEF HandleSeed
    <3>2. Due'[p][r] = {}
      BY <1>1, <1>3, <2>5, IdleNext
    <3>3. \A b \in Party \ Children(p) : Due'[p][b] = Due[p][b]
      BY <2>1, <2>2, <3>2
    <3>. QED BY <1>0, <2>3, <3>1, <3>3, QueueSends
  <2>. QED BY <2>4, <2>5
<1>. QED BY <1>0, <1>1, <1>3, <1>4, <1>6, <1>8, <1>9, HandlerLinks

LEMMA StartStep ==
  ASSUME Progress, KeyInv, Carried(outbox, wire, inbox, Due), TypeOK', NEW p \in Party,
         Start(p), Frame(p)
  PROVE  Progress' /\ KeyInv' /\ Carried(outbox', wire', inbox', Due')
<1>0. TypeOK /\ run[p] = "starting"
  BY DEF Start, Progress
<1>1. p = Root /\ ~Seeded(p) /\ ~HasParent(p)
  BY <1>0, ParentFacts DEF Progress, LocalInv
<1>3. /\ Progress'
      /\ Seeded(p)' /\ ~Informed(p)' /\ ~Returned(p)'
      /\ ~Summed(p) /\ ~Informed(p) /\ ~Returned(p)
  <2>1. crp' = crp \cup {p} /\ share1' = [share1 EXCEPT ![p] = Only(p)] /\ UNCHANGED <<share2, state, rlk>>
    BY DEF Start, GenShareRoundOne
  <2>2. run'[p] = "listening"
    BY <1>0 DEF Start, TypeOK
  <2>. QED BY <1>1, <2>1, <2>2, SeedProgress
<1>4. KeyInv'
  BY <1>1, <1>3 DEF KeyInv, Start
<1>5. ASSUME NEW c \in Children(p)
      PROVE  c \in Party /\ c # p /\ ~Seeded(c) /\ ~Summed(c) /\ ~Returned(c)
  BY <1>1, <1>3, DueCases, ChildIff, ProgressFacts DEF Progress, OrderInv
<1>6. ASSUME NEW a \in Party \ {p}, NEW b \in Party PROVE Due'[a][b] = Due[a][b]
  <2>1. CASE b # p
    BY <2>1, OtherLinks
  <2>2. CASE b = p /\ a \in Children(p)
    BY <1>5, <2>2, Idle, IdleNext, OthersKept
  <2>3. CASE b = p /\ a \notin Children(p)
    <3>1. p \notin Children(a)
      BY <1>1, ChildIff
    <3>. QED BY <2>3, <3>1, DueCases, DueCasesNext
  <2>. QED BY <2>1, <2>2, <2>3
<1>7. NowSent(p)
  <2>1. ASSUME NEW b \in Children(p) PROVE Due[p][b] = {} /\ Due'[p][b] = {Seed}
    <3>1. ~Seeded(b)'
      BY <1>5, OthersKept
    <3>. QED BY <1>1, <1>3, <1>5, <3>1, DueCases, DueCasesNext DEF DownDue
  <2>2. ASSUME NEW b \in Party \ Children(p) PROVE Due'[p][b] = Due[p][b]
    <3>1. p \notin Children(b)
      BY <1>1, ChildIff
    <3>. QED BY <3>1, DueCases, DueCasesNext
  <2>3. outbox' = [outbox EXCEPT ![p] = Queue(p, Children(p), Seed)]
    BY DEF Start
  <2>. QED BY <1>0, <2>1, <2>2, <2>3, QueueSends
<1>8. NowDue(p, Due, Due')
  BY <1>6, <1>7 DEF NowDue, NowSent
<1>9. Carried(outbox, wire', inbox', Due)
  BY DEF Start
<1>. QED BY <1>3, <1>4, <1>8, <1>9, CarriedQueue, DueSeparateNext

-----------------------------------------------------------------------------
(* A share of round one.                                                   *)

LEMMA ParentFirst ==
  ASSUME Progress, NEW p \in Party, HasParent(p)
  PROVE  /\ Seeded(p) => Seeded(Parent(p))
         /\ Informed(p) => Informed(Parent(p))
<1>1. Parent(p) \in Party /\ p \in Children(Parent(p))
  BY ChildIff, ParentFacts
<1>. QED BY <1>1 DEF Progress, OrderInv

LEMMA Share1Progress ==
  ASSUME Progress, TypeOK', NEW p \in Party, Frame(p), HandleShare1(p),
         NEW r \in Children(p), Summed(r), share1[p][r] # 1, Head(inbox[p]).Data = Whole(r)
  PROVE  /\ Progress'
         /\ Added1(p)' = Added1(p) \cup {r}
         /\ Summed(p)' <=> Complete(p)
         /\ Informed(p)' <=> Complete(p) /\ p = Root
         /\ Seeded(p)' /\ ~Returned(p)'
         /\ p # Root => share2'[p] = share2[p]
         /\ Complete(p) => Add(share1[p], Head(inbox[p]).Data) = Whole(p)
<1>. DEFINE A == Added1(p) \cup {r}
<1>1. /\ Seeded(p) /\ ~Summed(p) /\ ~Informed(p) /\ ~Returned(p) /\ r \notin Added1(p)
      /\ Add(share1[p], Head(inbox[p]).Data) = Part(p, A)
      /\ state[p] = Cardinality(Added1(p))
      /\ Complete(p) <=> A = Children(p)
  BY AddShare1
<1>2. A \in SUBSET Children(p) /\ Cardinality(A) = Cardinality(Added1(p)) + 1
  BY <1>1, CountOneMore DEF Added1
<1>3. share1'[p] = Part(p, A)
  BY <1>1 DEF HandleShare1, Progress, TypeOK
<1>. HIDE DEF A
<1>4. Added1(p)' = A
  <2>1. \A c \in Children(p) : share1'[p][c] = 1 <=> c \in A
    BY <1>2, <1>3, PartFacts
  <2>. QED BY <1>2, <2>1 DEF Added1
<1>5. Seeded(p)' /\ ~Returned(p)' /\ run'[p] # "starting"
  BY <1>1 DEF HandleShare1, Take, Seeded, Returned
<1>6. Summed(p)' <=> Complete(p)
  BY <1>1, <1>2, <1>4, <1>5 DEF Summed, Added1
<1>7. share2[p] = [sum |-> Zero, from |-> {}]
  BY <1>1 DEF Progress, LocalInv
<1>8. HasParent(p) <=> p # Root
  BY ParentFacts
<1>8a. \A c \in Children(p) : share1'[p][c] = 1 => Summed(c)
  <2>1. \A c \in Children(p) : share1'[p][c] = 1 => c \in A
    BY <1>2, <1>3, PartFacts
  <2>2. \A c \in Added1(p) : c \in Children(p) /\ Summed(c)
    BY DEF Progress, OrderInv, Added1
  <2>. QED BY <2>1, <2>2 DEF A
<1>9. CASE ~Complete(p)
  <2>1. state'[p] = Cardinality(A) /\ share2' = share2
    BY <1>1, <1>2, <1>9 DEF HandleShare1, Progress, TypeOK
  <2>2. ~Informed(p)'
    BY <1>1, <2>1 DEF Informed
  <2>3. LocalInv(p)'
    BY <1>3, <1>4, <1>5, <1>6, <1>7, <1>9, <2>1, <2>2 DEF LocalInv
  <2>4. Ahead(p)
    <3>1. \A c \in Children(p) : share2'[p].sum[c] = 1 => Returned(c)
      BY <2>1 DEF Progress, OrderInv
    <3>. QED BY <1>1, <1>5, <1>8a, <2>2, <3>1, ParentFirst DEF Ahead
  <2>. QED BY <1>4, <1>5, <1>6, <1>9, <2>1, <2>2, <2>3, <2>4, ProgressNext DEF A
<1>10. CASE Complete(p) /\ p # Root
  <2>1. state'[p] = 0 /\ share2' = share2
    BY <1>8, <1>10 DEF HandleShare1, Progress, TypeOK
  <2>2. ~Informed(p)'
    BY <1>1, <2>1 DEF Informed
  <2>3. LocalInv(p)'
    BY <1>3, <1>4, <1>5, <1>6, <1>7, <1>10, <2>1, <2>2 DEF LocalInv
  <2>4. Ahead(p)
    <3>1. \A c \in Children(p) : share2'[p].sum[c] = 1 => Returned(c)
      BY <2>1 DEF Progress, OrderInv
    <3>. QED BY <1>1, <1>5, <1>8a, <2>2, <3>1, ParentFirst DEF Ahead
  <2>5. Add(share1[p], Head(inbox[p]).Data) = Whole(p)
    BY <1>1, <1>10 DEF Whole
  <2>. QED BY <1>4, <1>5, <1>6, <1>10, <2>1, <2>2, <2>3, <2>4, <2>5, ProgressNext DEF A
<1>11. CASE Complete(p) /\ p = Root
  <2>1. Add(share1[p], Head(inbox[p]).Data) = Whole(p) /\ Whole(p) = Everybody
    BY <1>1, <1>11, PartEnds DEF Whole, Everybody
  <2>2. state'[p] = 0 /\ share2'[p] = ShareOf(p, {})
    <3>1. share2'[p] = GenShareRoundTwo(p, Add(share1[p], Head(inbox[p]).Data)) /\ state'[p] = 0
      BY <1>8, <1>11 DEF HandleShare1, Progress, TypeOK
    <3>. QED BY <2>1, <3>1, OwnShares
  <2>3. Informed(p)'
    BY <2>2 DEF Informed, ShareOf
  <2>4. \A c \in Children(p) : share2'[p].sum[c] # 1
    BY <2>2, OwnShares DEF ShareOf
  <2>5. Added2(p)' = {}
    BY <2>4 DEF Added2
  <2>6. share1'[p] = Everybody
    BY <1>1, <1>3, <1>11, <2>1
  <2>7. LocalInv(p)'
    BY <1>5, <1>6, <1>11, <2>2, <2>3, <2>4, <2>5, <2>6, FS_EmptySet DEF LocalInv
  <2>8. \A q \in Party : Summed(q)'
    <3>. DEFINE S == {q \in Party : q = p \/ Summed(q)}
    <3>1. ASSUME NEW q \in S PROVE Children(q) \subseteq S
      <4>1. \A c \in Children(q) : c \in Party /\ Summed(c)
        BY <1>1, <1>8a, <1>11, ChildIff, <1>4 DEF Progress, OrderInv, Summed, Added1
      <4>. QED BY <4>1
    <3>2. S = Party
      BY <1>11, <3>1, DownFromRoot
    <3>. QED BY <1>6, <1>11, <3>2, OthersKept
  <2>9. Ahead(p)
    BY <1>1, <1>5, <1>6, <1>8, <1>8a, <1>11, <2>3, <2>4, <2>8, OthersKept DEF Ahead
  <2>. QED BY <1>4, <1>5, <1>6, <1>11, <2>1, <2>3, <2>7, <2>9, ProgressNext DEF A
<1>. QED BY <1>9, <1>10, <1>11

LEMMA Share1Step ==
  ASSUME Progress, KeyInv, Carried(outbox, wire, inbox, Due), TypeOK', NEW p \in Party,
         HandleShare1(p), Frame(p)
  PROVE  Progress' /\ KeyInv' /\ Carried(outbox', wire', inbox', Due')
<1>0. TypeOK /\ Take(p, 1) /\ inbox[p] # <<>> /\ Head(inbox[p]).Round = 1
  BY DEF HandleShare1, Take, Progress
<1>1. PICK r \in Party : /\ r # p /\ Head(inbox[p]) \in Due[r][p]
                         /\ r \in Children(p) /\ Summed(r) /\ share1[p][r] # 1
                         /\ Head(inbox[p]).Data = Whole(r)
  BY <1>0, NextMessage
<1>2. /\ Progress'
      /\ Added1(p)' = Added1(p) \cup {r}
      /\ Summed(p)' <=> Complete(p)
      /\ Informed(p)' <=> Complete(p) /\ p = Root
      /\ Seeded(p)' /\ ~Returned(p)'
      /\ p # Root => share2'[p] = share2[p]
      /\ Complete(p) => Add(share1[p], Head(inbox[p]).Data) = Whole(p)
  BY <1>1, Share1Progress
<1>3. /\ Seeded(p) /\ ~Summed(p) /\ ~Informed(p) /\ ~Returned(p)
      /\ Complete(p) <=> Added1(p) \cup {r} = Children(p)
  BY <1>1, AddShare1
<1>4. KeyInv'
  <2>1. Returned(Root)' <=> Returned(Root)
    BY <1>2, <1>3, OthersKept, ParentFacts
  <2>2. rlk' = rlk
    BY DEF HandleShare1
  <2>. QED BY <2>1, <2>2 DEF KeyInv
<1>5. ASSUME NEW q \in Party PROVE ~Informed(q) /\ ~Returned(q)
  BY <1>3, ProgressFacts
<1>6. ASSUME NEW c \in Children(p)
      PROVE  /\ c \in Party /\ c # p /\ ~Returned(c)' /\ ~Informed(c)' /\ (Summed(c)' <=> Summed(c))
             /\ share1'[p][c] = 1 <=> c = r \/ share1[p][c] = 1
  <2>1. c \in Party /\ c # p
    BY ChildIff, DueCases
  <2>2. share1'[p][c] = 1 <=> c = r \/ share1[p][c] = 1
    BY <1>2 DEF Added1
  <2>. QED BY <1>5, <2>1, <2>2, OthersKept
<1>7. Due'[r][p] = {}
  BY <1>1, <1>6, IdleNext
<1>8. OthersDue(p, r)
  <2>1. ASSUME NEW a \in Party \ {p, r} PROVE Due'[a][p] = Due[a][p]
    <3>1. CASE a \in Children(p)
      <4>1. UpDue(a, p)' = UpDue(a, p)
        BY <1>5, <1>6, <2>1, <3>1 DEF UpDue
      <4>. QED BY <3>1, <4>1, DueCases, DueCasesNext
    <3>2. CASE p \in Children(a)
      <4>1. p # Root
        BY <3>2, ChildIff, ParentFacts
      <4>2. DownDue(a, p)' = DownDue(a, p)
        BY <1>2, <1>3, <2>1, <4>1, OthersKept DEF DownDue
      <4>. QED BY <3>2, <4>2, DueCases, DueCasesNext
    <3>3. CASE a \notin Children(p) /\ p \notin Children(a)
      BY <3>3, DueCases, DueCasesNext
    <3>. QED BY <3>1, <3>2, <3>3
  <2>. QED BY <2>1 DEF OthersDue
<1>9. NowSent(p)
  <2>1. ASSUME NEW b \in Party, b \notin Children(p), p \notin Children(b)
        PROVE  Due'[p][b] = Due[p][b]
    BY <2>1, DueCases, DueCasesNext
  <2>2. ASSUME NEW b \in Party, p \in Children(b) PROVE Due[p][b] = {} /\ p # Root /\ HasParent(p) /\ b = Parent(p)
    BY <1>3, <2>2, Idle, ChildIff, ParentFacts
  <2>3. ASSUME NEW b \in Children(p), ~(Complete(p) /\ p = Root) PROVE Due'[p][b] = Due[p][b]
    <3>1. DownDue(p, b)' = DownDue(p, b)
      BY <1>2, <1>3, <1>6, <2>3, OthersKept DEF DownDue
    <3>. QED BY <1>6, <3>1, DueCases, DueCasesNext
  <2>4. CASE ~Complete(p)
    <3>1. outbox' = outbox
      BY <2>4 DEF HandleShare1
    <3>2. ASSUME NEW b \in Party PROVE Due'[p][b] = Due[p][b]
      BY <1>2, <2>1, <2>2, <2>3, <2>4, IdleNext
    <3>. QED BY <3>1, <3>2 DEF NowSent
  <2>5. CASE Complete(p) /\ p # Root
    <3>. DEFINE u == Parent(p)
    <3>1. u \in Party /\ p \in Children(u) /\ HasParent(p)
      BY <2>5, ChildIff, ParentFacts
    <3>2. outbox' = [outbox EXCEPT ![p] = Queue(p, {u}, Message1(Whole(p)))]
      BY <1>2, <2>5, <3>1 DEF HandleShare1
    <3>3. Due'[p][u] = {Message1(Whole(p))}
      <4>1. share1'[u][p] # 1
        BY <1>3, <3>1, DueCases DEF Progress, OrderInv, Frame
      <4>2. UpDue(p, u)' = {Message1(Whole(p))}
        BY <1>2, <2>5, <4>1 DEF UpDue
      <4>. QED BY <3>1, <4>2, DueCasesNext
    <3>4. \A b \in Party \ {u} : Due'[p][b] = Due[p][b]
      BY <2>1, <2>2, <2>3, <2>5
    <3>5. Due[p][u] = {}
      BY <2>2, <3>1
    <3>. HIDE DEF u
    <3>. QED BY <1>0, <3>2, <3>3, <3>4, <3>5, QueueSendsUp
  <2>6. CASE Complete(p) /\ p = Root
    <3>1. Whole(p) = Everybody /\ ~HasParent(p)
      BY <2>6, PartEnds, ParentFacts DEF Everybody
    <3>2. outbox' = [outbox EXCEPT ![p] = Queue(p, Children(p), Message2(Everybody))]
      BY <1>2, <2>6, <3>1 DEF HandleShare1
    <3>3. ASSUME NEW b \in Children(p) PROVE Due[p][b] = {} /\ Due'[p][b] = {Message2(Everybody)}
      <4>1. Summed(b) /\ Seeded(b) /\ Seeded(b)'
        BY <1>1, <1>3, <1>6, <2>6, OthersKept DEF Added1, Progress, OrderInv, Summed
      <4>2. DownDue(p, b) = {}
        BY <1>3, <4>1 DEF DownDue
      <4>3. DownDue(p, b)' = {Message2(Everybody)}
        BY <1>2, <1>6, <2>6, <4>1 DEF DownDue
      <4>. QED BY <1>6, <4>2, <4>3, DueCases, DueCasesNext
    <3>4. \A b \in Party \ Children(p) : Due'[p][b] = Due[p][b]
      BY <2>1, <2>2, <2>6
    <3>. QED BY <1>0, <3>2, <3>3, <3>4, QueueSends
  <2>. QED BY <2>4, <2>5, <2>6
<1>. QED BY <1>0, <1>1, <1>2, <1>4, <1>7, <1>8, <1>9, HandlerLinks

-----------------------------------------------------------------------------
(* The sum of round one.                                                   *)

LEMMA SumProgress ==
  ASSUME Progress, TypeOK', NEW p \in Party, Frame(p), HandleSum(p), ~Informed(p),
         Informed(Parent(p)), Head(inbox[p]).Data = Everybody
  PROVE  /\ Progress'
         /\ \A q \in Party : Summed(q) /\ Seeded(q)
         /\ ~Returned(p) /\ Summed(p)' /\ Seeded(p)' /\ Informed(p)'
         /\ share1'[p] = Everybody /\ share2'[p] = ShareOf(p, {})
         /\ Returned(p)' <=> IsLeaf(p)
<1>0. TypeOK /\ Take(p, 2) /\ HasParent(p) /\ Parent(p) \in Party
  BY ParentFacts DEF HandleSum, Progress
<1>1. \A q \in Party : Summed(q) /\ Seeded(q)
  BY <1>0, ProgressFacts
<1>2. ~Returned(p)
  BY ProgressFacts
<1>3. share1'[p] = Everybody /\ share2'[p] = ShareOf(p, {})
  <2>1. share1'[p] = Everybody /\ share2'[p] = GenShareRoundTwo(p, Everybody)
    BY <1>0 DEF HandleSum, TypeOK
  <2>. QED BY <2>1, OwnShares
<1>4. Seeded(p)' /\ Summed(p)' /\ Informed(p)'
  <2>1. Seeded(p)'
    BY <1>1 DEF HandleSum, Seeded
  <2>2. \A c \in Children(p) : share1'[p][c] = 1
    BY <1>3, ChildIff DEF Everybody
  <2>. QED BY <1>3, <2>1, <2>2 DEF Summed, Informed, ShareOf
<1>5. \A c \in Children(p) : share2'[p].sum[c] # 1
  BY <1>3, OwnShares DEF ShareOf
<1>6. Added2(p)' = {}
  BY <1>5 DEF Added2
<1>7. run'[p] # "starting" /\ (Returned(p)' <=> IsLeaf(p))
  BY <1>0 DEF HandleSum, Take, Returned, TypeOK
<1>8. state'[p] = 0
  BY <1>1 DEF HandleSum, Progress, LocalInv
<1>9. LocalInv(p)'
  BY <1>3, <1>4, <1>5, <1>6, <1>7, <1>8, FS_EmptySet DEF LocalInv, IsLeaf
<1>10. Ahead(p)
  BY <1>0, <1>1, <1>2, <1>4, <1>5, ChildIff DEF Ahead
<1>. QED BY <1>1, <1>2, <1>3, <1>4, <1>7, <1>9, <1>10, ProgressNext

LEMMA SumStep ==
  ASSUME Progress, KeyInv, Carried(outbox, wire, inbox, Due), TypeOK', NEW p \in Party,
         HandleSum(p), Frame(p)
  PROVE  Progress' /\ KeyInv' /\ Carried(outbox', wire', inbox', Due')
<1>0. TypeOK /\ Take(p, 2) /\ inbox[p] # <<>> /\ Head(inbox[p]).Round = 2
  BY DEF HandleSum, Take, Progress
<1>1. PICK r \in Party : /\ r # p /\ Head(inbox[p]) \in Due[r][p]
                         /\ p \in Children(r) /\ Informed(r) /\ ~Informed(p)
                         /\ Head(inbox[p]) = Message2(Everybody) /\ Head(inbox[p]).Data = Everybody
  BY <1>0, NextMessage
<1>2. HasParent(p) /\ Parent(p) = r /\ p # Root
  BY <1>1, ChildIff, ParentFacts
<1>3. /\ Progress'
      /\ \A q \in Party : Summed(q) /\ Seeded(q)
      /\ ~Returned(p) /\ Summed(p)' /\ Seeded(p)' /\ Informed(p)'
      /\ share1'[p] = Everybody /\ share2'[p] = ShareOf(p, {})
      /\ Returned(p)' <=> IsLeaf(p)
  BY <1>1, <1>2, SumProgress
<1>4. KeyInv'
  <2>1. Returned(Root)' <=> Returned(Root)
    BY <1>2, OthersKept, ParentFacts
  <2>2. rlk' = rlk
    BY DEF HandleSum
  <2>. QED BY <2>1, <2>2 DEF KeyInv
<1>5. \A q \in Party : Seeded(q)'
  BY <1>3, OthersKept
<1>6. Due'[r][p] = {}
  <2>1. DownDue(r, p)' = {}
    BY <1>3 DEF DownDue
  <2>. QED BY <1>1, <2>1, DueCasesNext
<1>7. ASSUME NEW c \in Children(p)
      PROVE  /\ c \in Party /\ c # p /\ ~Informed(c) /\ ~Returned(c)
             /\ share1[p][c] = 1 /\ share1'[p][c] = 1
  <2>1. c \in Party /\ c # p /\ ~Informed(c)
    BY <1>1, ChildIff, DueCases DEF Progress, OrderInv
  <2>2. ~Returned(c)
    BY <2>1, ProgressFacts
  <2>. QED BY <1>3, <2>1, <2>2 DEF Summed
<1>8. OthersDue(p, r)
  <2>1. ASSUME NEW a \in Party \ {p, r} PROVE Due'[a][p] = Due[a][p]
    <3>1. CASE a \in Children(p)
      <4>1. Due[a][p] = {}
        BY <1>7, <3>1, Idle
      <4>2. Due'[a][p] = {}
        BY <1>7, <3>1, IdleNext, OthersKept
      <4>. QED BY <4>1, <4>2
    <3>2. CASE a \notin Children(p)
      BY <1>2, <2>1, <3>2, DueCases, DueCasesNext, ChildIff
    <3>. QED BY <3>1, <3>2
  <2>. QED BY <2>1 DEF OthersDue
<1>9. NowSent(p)
  <2>1. ASSUME NEW b \in Party, b \notin Children(p), b # r
        PROVE  Due'[p][b] = Due[p][b]
    BY <1>2, <2>1, DueCases, DueCasesNext, ChildIff
  <2>0. share1[r][p] = 1 /\ share1'[r] = share1[r] /\ share2'[r] = share2[r] /\ share2[r].sum[p] # 1
    BY <1>1, <1>3 DEF Frame, Summed, Progress, OrderInv
  <2>2. Due[p][r] = {}
    BY <1>1, <1>3, <2>0, Idle
  <2>3. ASSUME NEW b \in Children(p) PROVE Due[p][b] = {} /\ Due'[p][b] = {Message2(Everybody)}
    <3>1. DownDue(p, b) = {}
      BY <1>1, <1>3, <1>7 DEF DownDue
    <3>2. DownDue(p, b)' = {Message2(Everybody)}
      BY <1>3, <1>5, <1>7, OthersKept DEF DownDue
    <3>. QED BY <1>7, <3>1, <3>2, DueCases, DueCasesNext
  <2>4. CASE IsLeaf(p)
    <3>. DEFINE m == Message3(ShareOf(p, Children(p)))
    <3>1. outbox' = [outbox EXCEPT ![p] = Queue(p, {r}, m)]
      <4>1. outbox' = [outbox EXCEPT ![p] = Queue(p, {r}, Message3(GenShareRoundTwo(p, Everybody)))]
        BY <1>1, <1>2, <2>4 DEF HandleSum
      <4>. QED BY <2>4, <4>1, OwnShares DEF IsLeaf
    <3>2. Due'[p][r] = {m}
      <4>1. UpDue(p, r)' = {m}
        BY <1>3, <2>0, <2>4 DEF UpDue
      <4>. QED BY <1>1, <4>1, DueCasesNext
    <3>3. \A b \in Party \ {r} : Due'[p][b] = Due[p][b]
      BY <2>1, <2>4 DEF IsLeaf
    <3>. HIDE DEF m
    <3>. QED BY <1>0, <2>2, <3>1, <3>2, <3>3, QueueSendsUp
  <2>5. CASE ~IsLeaf(p)
    <3>1. outbox' = [outbox EXCEPT ![p] = Queue(p, Children(p), Message2(Everybody))]
      BY <1>1, <2>5 DEF HandleSum
    <3>2. Due'[p][r] = {}
      BY <1>1, <1>3, <2>0, <2>5, IdleNext
    <3>3. \A b \in Party \ Children(p) : Due'[p][b] = Due[p][b]
      BY <2>1, <2>2, <3>2
    <3>. QED BY <1>0, <2>3, <3>1, <3>3, QueueSends
  <2>. QED BY <2>4, <2>5
<1>. QED BY <1>0, <1>1, <1>3, <1>4, <1>6, <1>8, <1>9, HandlerLinks

-----------------------------------------------------------------------------
(* A share of round two.                                                   *)

LEMMA AddShare2 ==
  ASSUME Progress, NEW p \in Party, NEW r \in Children(p), Returned(r), share2[p].sum[r] # 1
  PROVE  /\ Informed(p) /\ Summed(p) /\ Seeded(p) /\ ~Returned(p) /\ r \notin Added2(p)
         /\ share1[p] = Everybody
         /\ AggregateShares2(share2[p], ShareOf(r, Children(r))) = ShareOf(p, Added2(p) \cup {r})
         /\ state[p] = Cardinality(Added2(p))
         /\ Complete(p) <=> Added2(p) \cup {r} = Children(p)
<1>1. r \in Party
  BY ChildIff
<1>2. Informed(p) /\ Summed(p) /\ Seeded(p) /\ r \notin Added2(p)
  BY <1>1, ProgressFacts DEF Progress, OrderInv, Added2
<1>3. ~Returned(p)
  BY DEF Progress, LocalInv
<1>4. share1[p] = Everybody /\ share2[p] = ShareOf(p, Added2(p)) /\ state[p] = Cardinality(Added2(p))
  BY <1>2, <1>3 DEF Progress, LocalInv
<1>5. Added2(p) \in SUBSET Children(p)
  BY DEF Added2
<1>6. AggregateShares2(share2[p], ShareOf(r, Children(r))) = ShareOf(p, Added2(p) \cup {r})
  <2>1. Add(Part(p, Added2(p)), Whole(r)) = Part(p, Added2(p) \cup {r})
    BY <1>2, <1>5, PartAdd DEF Add
  <2>2. AggregateShares2(share2[p], ShareOf(r, Children(r)))
          = [sum |-> Add(Part(p, Added2(p)), Whole(r)), from |-> {Everybody} \cup {Everybody}]
    BY <1>4 DEF AggregateShares2, ShareOf, Whole
  <2>. QED BY <2>1, <2>2 DEF ShareOf
<1>7. Complete(p) <=> Added2(p) \cup {r} = Children(p)
  <2>1. Cardinality(Added2(p)) + 1 = Cardinality(Children(p)) <=> Added2(p) \cup {r} = Children(p)
    BY <1>2, <1>5, CountOneMore
  <2>. QED BY <1>4, <2>1 DEF Complete
<1>. QED BY <1>2, <1>3, <1>4, <1>6, <1>7

LEMMA Share2Progress ==
  ASSUME Progress, TypeOK', NEW p \in Party, Frame(p), HandleShare2(p),
         NEW r \in Children(p), Returned(r), share2[p].sum[r] # 1,
         Head(inbox[p]).Data = ShareOf(r, Children(r))
  PROVE  /\ Progress'
         /\ \A c \in Children(p) : share2'[p].sum[c] = 1 <=> c = r \/ share2[p].sum[c] = 1
         /\ Returned(p)' <=> Complete(p)
         /\ Complete(p) => AggregateShares2(share2[p], Head(inbox[p]).Data) = ShareOf(p, Children(p))
         /\ Seeded(p)' /\ Summed(p)' /\ Informed(p)'
<1>. DEFINE A == Added2(p) \cup {r}
<1>1. /\ Informed(p) /\ Summed(p) /\ Seeded(p) /\ ~Returned(p) /\ r \notin Added2(p)
      /\ share1[p] = Everybody
      /\ AggregateShares2(share2[p], Head(inbox[p]).Data) = ShareOf(p, A)
      /\ state[p] = Cardinality(Added2(p))
      /\ Complete(p) <=> A = Children(p)
  BY AddShare2
<1>2. A \in SUBSET Children(p) /\ Cardinality(A) = Cardinality(Added2(p)) + 1
  BY <1>1, CountOneMore DEF Added2
<1>3. share2'[p] = ShareOf(p, A)
  BY <1>1 DEF HandleShare2, Progress, TypeOK
<1>4. \A c \in Children(p) : share2'[p].sum[c] = 1 <=> c \in A
  BY <1>2, <1>3, PartFacts DEF ShareOf
<1>5. \A c \in Children(p) : c \in A <=> c = r \/ share2[p].sum[c] = 1
  BY DEF Added2
<1>. HIDE DEF A
<1>6. Added2(p)' = A
  BY <1>2, <1>4 DEF Added2
<1>7. Seeded(p)' /\ Summed(p)' /\ Informed(p)'
  BY <1>1, <1>3 DEF HandleShare2, Seeded, Summed, Informed, ShareOf
<1>8. run'[p] # "starting" /\ (Returned(p)' <=> Complete(p))
  <2>1. run[p] = "listening" /\ run \in [Party -> {"starting", "listening", "returned"}]
    BY DEF HandleShare2, Take, Progress, TypeOK
  <2>. QED BY <2>1 DEF HandleShare2, Returned
<1>9. Returned(p)' <=> \A c \in Children(p) : share2'[p].sum[c] = 1
  BY <1>1, <1>2, <1>4, <1>8
<1>10. ~Complete(p) => state'[p] = Cardinality(A)
  BY <1>1, <1>2 DEF HandleShare2, Progress, TypeOK
<1>11. share1'[p] = Everybody
  BY <1>1 DEF HandleShare2
<1>12. LocalInv(p)'
  BY <1>3, <1>6, <1>7, <1>8, <1>9, <1>10, <1>11 DEF LocalInv
<1>13. Ahead(p)
  <2>1. \A q \in Party : Summed(q)
    BY <1>1, ProgressFacts
  <2>2. \A c \in Children(p) : share2'[p].sum[c] = 1 => Returned(c)
    BY <1>4, <1>5 DEF Progress, OrderInv
  <2>3. \A c \in Children(p) : Summed(c)
    BY <2>1, ChildIff
  <2>. QED BY <1>1, <1>7, <2>1, <2>2, <2>3, ParentFirst DEF Ahead
<1>14. Progress'
  BY <1>12, <1>13, ProgressNext
<1>. QED BY <1>1, <1>4, <1>5, <1>7, <1>8, <1>14

LEMMA Share2Step ==
  ASSUME Progress, KeyInv, Carried(outbox, wire, inbox, Due), TypeOK', NEW p \in Party,
         HandleShare2(p), Frame(p)
  PROVE  Progress' /\ KeyInv' /\ Carried(outbox', wire', inbox', Due')
<1>0. TypeOK /\ Take(p, 3) /\ inbox[p] # <<>> /\ Head(inbox[p]).Round = 3
  BY DEF HandleShare2, Take, Progress
<1>1. PICK r \in Party : /\ r # p /\ Head(inbox[p]) \in Due[r][p]
                         /\ r \in Children(p) /\ Returned(r) /\ share2[p].sum[r] # 1
                         /\ Head(inbox[p]).Data = ShareOf(r, Children(r))
  BY <1>0, NextMessage
<1>2. /\ Progress'
      /\ \A c \in Children(p) : share2'[p].sum[c] = 1 <=> c = r \/ share2[p].sum[c] = 1
      /\ Returned(p)' <=> Complete(p)
      /\ Complete(p) => AggregateShares2(share2[p], Head(inbox[p]).Data) = ShareOf(p, Children(p))
      /\ Seeded(p)' /\ Summed(p)' /\ Informed(p)'
  BY <1>1, Share2Progress
<1>3. Informed(p) /\ Summed(p) /\ Seeded(p) /\ ~Returned(p) /\ share1[p] = Everybody
  BY <1>1, AddShare2
<1>4. KeyInv'
  <2>1. CASE p # Root \/ ~Complete(p)
    <3>1. Returned(Root)' <=> Returned(Root)
      BY <1>2, <1>3, <2>1, OthersKept, ParentFacts
    <3>2. rlk' = rlk
      BY <2>1, ParentFacts DEF HandleShare2
    <3>. QED BY <3>1, <3>2 DEF KeyInv
  <2>2. CASE p = Root /\ Complete(p)
    <3>1. rlk' = [sum1 |-> Everybody, share2 |-> ShareOf(Root, Children(Root))]
      BY <1>2, <1>3, <2>2, ParentFacts DEF HandleShare2
    <3>. QED BY <1>2, <2>2, <3>1 DEF KeyInv
  <2>. QED BY <2>1, <2>2
<1>5. share1'[p] = share1[p]
  BY DEF HandleShare2
<1>6. ASSUME NEW c \in Children(p)
      PROVE  c \in Party /\ c # p /\ share1[p][c] = 1 /\ share1'[p][c] = 1
  BY <1>2, <1>3, ChildIff, DueCases DEF Summed
<1>7. Due'[r][p] = {}
  BY <1>1, <1>2, <1>6, IdleNext
<1>8. OthersDue(p, r)
  <2>1. ASSUME NEW a \in Party \ {p, r} PROVE Due'[a][p] = Due[a][p]
    <3>1. CASE a \in Children(p)
      <4>1. UpDue(a, p)' = UpDue(a, p)
        BY <1>2, <1>6, <2>1, <3>1, OthersKept DEF UpDue
      <4>. QED BY <3>1, <4>1, DueCases, DueCasesNext
    <3>2. CASE p \in Children(a)
      <4>1. DownDue(a, p)' = DownDue(a, p)
        BY <1>2, <1>3, <2>1, OthersKept DEF DownDue
      <4>. QED BY <3>2, <4>1, DueCases, DueCasesNext
    <3>3. CASE a \notin Children(p) /\ p \notin Children(a)
      BY <3>3, DueCases, DueCasesNext
    <3>. QED BY <3>1, <3>2, <3>3
  <2>. QED BY <2>1 DEF OthersDue
<1>9. NowSent(p)
  <2>1. ASSUME NEW b \in Party, p \notin Children(b) PROVE Due'[p][b] = Due[p][b]
    <3>1. CASE b \in Children(p)
      <4>1. DownDue(p, b)' = DownDue(p, b)
        BY <1>2, <1>3, <1>6, <3>1, OthersKept DEF DownDue
      <4>. QED BY <3>1, <4>1, DueCases, DueCasesNext
    <3>2. CASE b \notin Children(p)
      BY <2>1, <3>2, DueCases, DueCasesNext
    <3>. QED BY <3>1, <3>2
  <2>2. ASSUME NEW b \in Party, p \in Children(b)
        PROVE  /\ Due[p][b] = {} /\ p # Root /\ HasParent(p) /\ b = Parent(p) /\ b # p
               /\ share1[b][p] = 1 /\ share1'[b][p] = 1 /\ share2'[b].sum[p] # 1
    <3>1. p # Root /\ HasParent(p) /\ b = Parent(p) /\ b # p
      BY <2>2, ChildIff, ParentFacts, DueCases
    <3>2. share1[b][p] = 1
      BY <1>3, <2>2, ProgressFacts DEF Summed
    <3>3. share2[b].sum[p] # 1
      BY <1>3, <2>2 DEF Progress, OrderInv
    <3>. QED BY <1>3, <2>2, <3>1, <3>2, <3>3, Idle DEF Frame
  <2>3. CASE ~Complete(p)
    <3>1. outbox' = outbox
      BY <2>3 DEF HandleShare2
    <3>2. ASSUME NEW b \in Party, p \in Children(b) PROVE Due'[p][b] = {}
      BY <1>2, <2>2, <2>3, <3>2, IdleNext
    <3>3. \A b \in Party : Due'[p][b] = Due[p][b]
      BY <2>1, <2>2, <3>2
    <3>. QED BY <3>1, <3>3 DEF NowSent
  <2>4. CASE Complete(p) /\ p = Root
    <3>1. outbox' = outbox
      BY <2>4, ParentFacts DEF HandleShare2
    <3>2. \A b \in Party : Due'[p][b] = Due[p][b]
      BY <2>1, <2>2, <2>4
    <3>. QED BY <3>1, <3>2 DEF NowSent
  <2>5. CASE Complete(p) /\ p # Root
    <3>. DEFINE u == Parent(p)
                m == Message3(ShareOf(p, Children(p)))
    <3>1. u \in Party /\ p \in Children(u) /\ HasParent(p)
      BY <2>5, ChildIff, ParentFacts
    <3>2. outbox' = [outbox EXCEPT ![p] = Queue(p, {u}, m)]
      BY <1>2, <2>5, <3>1 DEF HandleShare2
    <3>3. Due'[p][u] = {m}
      <4>1. UpDue(p, u)' = {m}
        BY <1>2, <2>2, <2>5, <3>1 DEF UpDue
      <4>. QED BY <3>1, <4>1, DueCasesNext
    <3>4. \A b \in Party \ {u} : Due'[p][b] = Due[p][b]
      BY <2>1, <2>2
    <3>5. Due[p][u] = {}
      BY <2>2, <3>1
    <3>. HIDE DEF u, m
    <3>. QED BY <1>0, <3>2, <3>3, <3>4, <3>5, QueueSendsUp
  <2>. QED BY <2>3, <2>4, <2>5
<1>. QED BY <1>0, <1>1, <1>2, <1>4, <1>7, <1>8, <1>9, HandlerLinks

-----------------------------------------------------------------------------
(* The invariant.                                                          *)

LEMMA RunKept ==
  ASSUME IInv, NEW p \in Party, Run(p)
  PROVE  IInv'
<1>1. Progress /\ KeyInv /\ Carried(outbox, wire, inbox, Due) /\ TypeOK
  BY DEF IInv, Progress
<1>2. TypeOK' /\ Frame(p)
  BY <1>1, RunType, RunFrame
<1>3. Progress' /\ KeyInv' /\ Carried(outbox', wire', inbox', Due')
  BY <1>1, <1>2, StartStep, SeedStep, Share1Step, SumStep, Share2Step DEF Run
<1>. QED BY <1>3 DEF IInv, Progress

\* The goroutines move messages; nothing becomes due or is dealt with.
LEMMA ProtocolKept ==
  ASSUME IInv, UNCHANGED protocol
  PROVE  /\ (\A p \in Party : LocalInv(p))' /\ OrderInv' /\ KeyInv'
         /\ Due' = Due
<1>1. /\ crp' = crp /\ share1' = share1 /\ share2' = share2 /\ state' = state
      /\ run' = run /\ rlk' = rlk
  BY DEF protocol
<1>2. (\A p \in Party : LocalInv(p))'
  BY <1>1 DEF IInv, LocalInv, Returned, Informed, Summed, Seeded, Added1, Added2
<1>3. OrderInv' /\ KeyInv'
  BY <1>1 DEF IInv, OrderInv, KeyInv, Returned, Informed, Summed, Seeded
<1>4. Due' = Due
  BY <1>1 DEF Due, UpDue, DownDue, Returned, Informed, Summed, Seeded
<1>. QED BY <1>2, <1>3, <1>4

LEMMA LinksMoved ==
  ASSUME IInv, UNCHANGED protocol, LinksTypeOK(Messages)', Carried(outbox', wire', inbox', Due)
  PROVE  IInv'
<1>1. TypeOK'
  BY DEF IInv, TypeOK, protocol
<1>. QED BY <1>1, ProtocolKept DEF IInv

LEMMA FlowStep ==
  ASSUME IInv, NEW p \in Party, Flow(p), UNCHANGED protocol
  PROVE  IInv'
<1>1. LinksTypeOK(Messages) /\ Carried(outbox, wire, inbox, Due)
  BY DEF IInv, TypeOK
<1>2. LinksTypeOK(Messages)' /\ Carried(outbox', wire', inbox', Due)
  BY <1>1, FlowKept, DueSeparate
<1>. QED BY <1>2, LinksMoved

LEMMA EndStep ==
  ASSUME IInv, NEW p \in Party, NEW how \in {"exited", "panicked", "stopped"},
         End(p, how), UNCHANGED protocol
  PROVE  IInv'
<1>1. LinksTypeOK(Messages) /\ Carried(outbox, wire, inbox, Due)
  BY DEF IInv, TypeOK
<1>2. LinksTypeOK(Messages)' /\ UNCHANGED <<outbox, wire, reading, inbox>>
  BY <1>1, EndKept
<1>. QED BY <1>1, <1>2, LinksMoved

\* Steps of the process outside of this network.
LEMMA RestStep ==
  ASSUME IInv, UNCHANGED <<outbox, wire, torn, reading, inbox, protocol>>,
         proc' \in [Party -> {"up", "exited", "panicked", "stopped"}]
  PROVE  IInv'
<1>1. LinksTypeOK(Messages)' /\ Carried(outbox', wire', inbox', Due)
  BY DEF IInv, TypeOK, LinksTypeOK
<1>. QED BY <1>1, LinksMoved

LEMMA StepKept == IInv /\ [Next]_vars => IInv'
<1>1. CASE Next
  BY <1>1, RunKept, FlowStep, FailuresEnd, EndStep DEF Next
<1>2. ASSUME IInv, UNCHANGED vars PROVE IInv'
  <2>1. UNCHANGED <<outbox, wire, torn, reading, inbox, protocol>> /\ proc' = proc
    BY <1>2 DEF vars, links
  <2>2. proc' \in [Party -> {"up", "exited", "panicked", "stopped"}]
    BY <1>2, <2>1 DEF IInv, TypeOK, LinksTypeOK
  <2>. QED BY <1>2, <2>1, <2>2, RestStep
<1>. QED BY <1>1, <1>2

LEMMA InitHolds == Init => IInv
<1>. SUFFICES ASSUME Init PROVE IInv
  OBVIOUS
<1>1. ASSUME NEW p \in Party
      PROVE  /\ ~Seeded(p) /\ ~Summed(p) /\ ~Informed(p) /\ ~Returned(p)
             /\ share1[p] = Zero /\ share2[p] = [sum |-> Zero, from |-> {}] /\ state[p] = 0
             /\ run[p] = "starting" <=> p = Root
  BY ParentFacts DEF Init, Seeded, Summed, Informed, Returned
<1>2. TypeOK
  <2>1. LinksTypeOK(Messages)
    BY LinksTypeInit DEF Init
  <2>2. [sum |-> Zero, from |-> {}] \in Shares2
    BY SumsFacts DEF Shares2
  <2>. QED BY <2>1, <2>2, SumsFacts DEF Init, TypeOK, NoKey
<1>3. ASSUME NEW p \in Party PROVE LocalInv(p)
  <2>1. Added1(p) = {}
    BY <1>1, ChildIff DEF Added1, Zero
  <2>. QED BY <1>1, <2>1, FS_EmptySet DEF LocalInv
<1>4. OrderInv
  BY <1>1, ChildIff DEF OrderInv, Zero
<1>5. KeyInv
  BY <1>1, ParentFacts, NAssumption DEF KeyInv, Init, Party
<1>6. Carried(outbox, wire, inbox, Due)
  <2>1. \A p, q \in Party : Due[p][q] = {}
    BY <1>1 DEF Due, UpDue, DownDue
  <2>. QED BY <2>1 DEF Init, LinksInit, Carried, Carries
<1>. QED BY <1>2, <1>3, <1>4, <1>5, <1>6 DEF IInv

\* The inductive invariant holds in every state.
THEOREM Invariance == Spec => []IInv
BY InitHolds, StepKept, PTL DEF Spec

-----------------------------------------------------------------------------
(* What it implies.                                                        *)

\* The variables keep their types: TypeOK.
THEOREM TypeCorrect == Spec => []TypeOK
<1>1. IInv => TypeOK
  BY DEF IInv
<1>. QED BY <1>1, Invariance, PTL

LEMMA KeyOfInvariant == IInv => KeyExact
<1>1. ShareOf(Root, Children(Root)) = [sum |-> Everybody, from |-> {Everybody}]
  BY PartEnds DEF ShareOf, Whole, Everybody
<1>. QED BY <1>1 DEF IInv, KeyInv, KeyExact

LEMMA KeyAfterReturn ==
  ASSUME IInv, Returned(Root)
  PROVE  rlk # NoKey
<1>1. Everybody # Zero
  BY NAssumption DEF Everybody, Zero, Party
<1>. QED BY <1>1 DEF IInv, KeyInv, NoKey

\* The key is made of every party's share of each round exactly once, and of
\* round-two shares that all come from the complete sum of round one.
THEOREM KeyIsExact == Spec => []KeyExact
BY Invariance, KeyOfInvariant, PTL

LEMMA ReturnOfInvariant ==
  ASSUME IInv
  PROVE  ReturnIsCollective
<1>0. Progress
  BY DEF IInv, Progress
<1>1. ASSUME NEW p \in Party, Returned(p) PROVE crp = Party
  <2>1. \A q \in Party : Seeded(q)
    BY <1>0, <1>1, ProgressFacts
  <2>2. crp \subseteq Party
    BY DEF IInv, TypeOK
  <2>. QED BY <2>1, <2>2 DEF Seeded
<1>2. ASSUME Returned(Root) PROVE \A p \in Party : Returned(p)
  <2>. DEFINE S == {p \in Party : Returned(p)}
  <2>1. Root \in Party
    BY NAssumption DEF Root, Party
  <2>2. ASSUME NEW p \in S, NEW c \in Children(p) PROVE c \in S
    BY <1>0, ChildIff DEF Progress, LocalInv, OrderInv
  <2>3. S = Party
    BY <1>2, <2>1, <2>2, DownFromRoot
  <2>. QED BY <2>3
<1>. QED BY <1>1, <1>2 DEF ReturnIsCollective, Returned

\* Nobody returns from Run before everybody has joined, and the root only when
\* all the others have returned.
THEOREM ReturnsTogether == Spec => []ReturnIsCollective
BY Invariance, ReturnOfInvariant, PTL

\* What is on its way to a party.
LEMMA WiresAreDue ==
  ASSUME Carried(outbox, wire, inbox, Due), NEW p \in Party, NEW q \in Party
  PROVE  /\ Due[q][p] = {} => wire[q][p] = <<>> /\ outbox[q][p] = <<>>
         /\ \A i \in DOMAIN wire[q][p] : wire[q][p][i] \in Due[q][p]
<1>1. Carries(outbox[q][p], wire[q][p], inbox[p], Due[q][p])
  BY DEF Carried
<1>2. CASE wire[q][p] = <<>>
  BY <1>1, <1>2 DEF Carries
<1>3. ASSUME NEW m, Due[q][p] = {m}, wire[q][p] = <<m>>
      PROVE  \A i \in DOMAIN wire[q][p] : wire[q][p][i] \in Due[q][p]
  BY <1>3
<1>. QED BY <1>1, <1>2, <1>3 DEF Carries

LEMMA NothingUnderWay ==
  ASSUME IInv, NEW p \in Party, Returned(p)
  PROVE  /\ inbox[p] = <<>>
         /\ \A q \in Party : wire[q][p] = <<>> /\ outbox[q][p] = <<>>
<1>0. Progress /\ Carried(outbox, wire, inbox, Due) /\ TypeOK
  BY DEF IInv, Progress
<1>1. ASSUME NEW q \in Party PROVE Due[q][p] = {}
  <2>1. CASE q \in Children(p)
    <3>1. Informed(p) /\ Summed(p) /\ share2[p].sum[q] = 1
      BY <1>0, <2>1, ProgressFacts DEF Progress, LocalInv
    <3>2. share1[p][q] = 1
      BY <2>1, <3>1 DEF Summed
    <3>. QED BY <2>1, <3>1, <3>2, Idle
  <2>2. CASE p \in Children(q)
    <3>1. DownDue(q, p) = {}
      BY <1>0, ProgressFacts DEF DownDue
    <3>. QED BY <2>2, <3>1, DueCases
  <2>3. CASE q \notin Children(p) /\ p \notin Children(q)
    BY <2>3, DueCases
  <2>. QED BY <2>1, <2>2, <2>3
<1>2. inbox[p] = <<>>
  <2>1. DOMAIN inbox[p] = {}
    BY <1>0, <1>1 DEF Carried
  <2>2. inbox[p] \in Seq(Messages)
    BY <1>0 DEF TypeOK, LinksTypeOK
  <2>3. Len(inbox[p]) \in Nat /\ DOMAIN inbox[p] = 1 .. Len(inbox[p])
    BY <2>2
  <2>4. Len(inbox[p]) = 0
    <3>1. 1 \notin 1 .. Len(inbox[p])
      BY <2>1, <2>3
    <3>. QED BY <2>3, <3>1
  <2>. QED BY <2>2, <2>4
<1>. QED BY <1>0, <1>1, <1>2, WiresAreDue

LEMMA QuietOfInvariant ==
  ASSUME IInv
  PROVE  NothingAfterReturn
<1>1. ASSUME NEW p \in Party, NEW q \in Binds(p) PROVE q \in Party
  BY ChildIff, ParentFacts DEF Binds
<1>. QED BY <1>1, NothingUnderWay DEF NothingAfterReturn, Returned

\* A party that has returned from Run has no message left to read.
THEOREM QuietAfterReturn == Spec => []NothingAfterReturn
BY Invariance, QuietOfInvariant, PTL

LEMMA RoundsOfInvariant ==
  ASSUME IInv
  PROVE  RoundsDoNotMix
<1>0. Progress /\ Carried(outbox, wire, inbox, Due) /\ TypeOK
  BY DEF IInv, Progress
<1>. SUFFICES ASSUME NEW p \in Party, NEW i \in DOMAIN inbox[p], inbox[p][i].Round = 3
              PROVE  /\ share2[p].from # {}
                     /\ \A j \in DOMAIN inbox[p] : inbox[p][j].Round = 3
                     /\ \A c \in Children(p) : \A j \in DOMAIN wire[c][p] : wire[c][p][j].Round = 3
  BY DEF RoundsDoNotMix
<1>1. PICK r \in Party : inbox[p][i] \in Due[r][p]
  BY <1>0 DEF Carried
<1>2. r \in Children(p) /\ Returned(r)
  <2>1. CASE r \in Children(p)
    BY <1>1, <2>1, DueCases, UpMessage
  <2>2. CASE p \in Children(r)
    BY <1>1, <2>2, DueCases, DownMessage
  <2>. QED BY <1>1, <2>1, <2>2, DueCases
<1>3. Informed(p)
  BY <1>0, <1>2, ProgressFacts DEF Progress, OrderInv
<1>4. Summed(p) /\ Seeded(p)
  BY <1>0, <1>3, ProgressFacts
<1>5. ASSUME NEW q \in Party, NEW m \in Due[q][p] PROVE m.Round = 3
  <2>1. CASE q \in Children(p)
    <3>1. share1[p][q] = 1
      BY <1>4, <2>1 DEF Summed
    <3>. QED BY <2>1, <3>1, DueCases, UpMessage
  <2>2. CASE p \in Children(q)
    BY <1>3, <1>4, <2>2, DueCases, DownMessage
  <2>. QED BY <2>1, <2>2, DueCases
<1>6. \A j \in DOMAIN inbox[p] : inbox[p][j].Round = 3
  BY <1>0, <1>5 DEF Carried
<1>7. ASSUME NEW c \in Children(p), NEW j \in DOMAIN wire[c][p] PROVE wire[c][p][j].Round = 3
  <2>1. c \in Party
    BY ChildIff
  <2>2. wire[c][p][j] \in Due[c][p]
    BY <1>0, <2>1, WiresAreDue
  <2>. QED BY <1>5, <2>1, <2>2
<1>. QED BY <1>3, <1>6, <1>7 DEF Informed

\* A party with a share of round two in its channel has nothing of round one
\* left to collect, so that one counter serves both rounds.
THEOREM RoundsApart == Spec => []RoundsDoNotMix
BY Invariance, RoundsOfInvariant, PTL

LEMMA RoomOfInvariant ==
  ASSUME Branching <= ChanCap, IInv
  PROVE  NeverFull
<1>0. Progress /\ Carried(outbox, wire, inbox, Due) /\ LinksTypeOK(Messages)
  BY DEF IInv, Progress, TypeOK
<1>1. ASSUME NEW q \in Party
      PROVE  LET F == {p \in Party : Due[p][q] # {}} IN IsFiniteSet(F) /\ Cardinality(F) <= ChanCap
  <2>. DEFINE F == {p \in Party : Due[p][q] # {}}
  <2>1. CASE F \subseteq Children(q)
    <3>1. IsFiniteSet(F) /\ Cardinality(F) <= Cardinality(Children(q)) /\ Cardinality(Children(q)) <= Branching
      BY <2>1, ChildrenFinite, FS_Subset
    <3>2. Cardinality(F) \in Nat /\ Cardinality(Children(q)) \in Nat
      BY <3>1, ChildrenFinite, FS_CardinalityType
    <3>. HIDE DEF F
    <3>3. Cardinality(F) <= ChanCap
      BY <3>1, <3>2, BranchingAssumption, ChanCapAssumption
    <3>. QED BY <3>1, <3>3 DEF F
  <2>2. ASSUME NEW a \in F, a \notin Children(q) PROVE F = {a}
    <3>1. q \in Children(a) /\ DownDue(a, q) # {}
      BY <2>2, DueCases
    <3>2. ASSUME NEW c \in Children(q) PROVE Due[c][q] = {}
      <4>0. c \in Party
        BY ChildIff
      <4>1. CASE ~Seeded(q)
        <5>1. ~Seeded(c) /\ ~Summed(c) /\ ~Returned(c)
          BY <1>0, <4>0, <4>1, ProgressFacts DEF Progress, OrderInv
        <5>. QED BY <4>0, <5>1, Idle
      <4>2. CASE Informed(a) /\ ~Informed(q)
        <5>1. Summed(q) /\ ~Informed(c) /\ ~Returned(c)
          BY <1>0, <4>0, <4>2, ProgressFacts DEF Progress, OrderInv
        <5>. QED BY <4>0, <5>1, Idle DEF Summed
      <4>. QED BY <3>1, <4>1, <4>2 DEF DownDue
    <3>3. ASSUME NEW b \in F PROVE b = a
      BY <3>1, <3>2, <3>3, DueCases, ChildIff
    <3>. QED BY <3>3
  <2>3. ASSUME NEW a, F = {a} PROVE IsFiniteSet(F) /\ Cardinality(F) <= ChanCap
    <3>1. IsFiniteSet({a}) /\ Cardinality({a}) = 1
      BY FS_Singleton
    <3>2. 1 <= ChanCap
      BY ChanCapAssumption
    <3>. HIDE DEF F
    <3>. QED BY <2>3, <3>1, <3>2
  <2>. QED BY <2>1, <2>2, <2>3
<1>. QED BY <1>0, <1>1, NeverFullOf

\* With channels for as many messages as a node has children, no send of a
\* goroutine ever waits.
THEOREM NeverBlocks == Branching <= ChanCap => (Spec => []NeverFull)
<1>1. Branching <= ChanCap /\ IInv => NeverFull
  BY RoomOfInvariant
<1>2. CASE Branching <= ChanCap
  <2>1. IInv => NeverFull
    BY <1>1, <1>2
  <2>. QED BY <2>1, Invariance, PTL
<1>. QED BY <1>2
=============================================================================
