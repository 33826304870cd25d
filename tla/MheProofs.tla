----------------------------- MODULE MheProofs -----------------------------
(***************************************************************************)
(* Proofs about MheClient, and about MheTripleGen in it, for every number  *)
(* of parties, every branching of the tree, every capacity and, where the  *)
(* theorem does not say otherwise, both settings of the deadlines.         *)
(***************************************************************************)
EXTENDS MheInvariant, TreeProofs

\* What the progress of the parties says, without the links.
Progress == TypeOK /\ (\A p \in Party : LocalInv(p)) /\ OrderInv

-----------------------------------------------------------------------------
(* Types.                                                                  *)

LEMMA SumsFacts ==
  /\ Zero \in Sums /\ Everybody \in Sums
  /\ \A p \in Party : Only(p) \in Sums
  /\ \A f, g \in Sums : Add(f, g) \in Sums
BY DEF Zero, Everybody, Only, Add, Sums

LEMMA SharesFacts ==
  /\ NoShare \in Shares
  /\ \A p \in Party : \A s \in Sums : GenDecryptionShare(p, s) \in Shares
  /\ \A f, g \in Shares : AggregateDecryptionShare(f, g) \in Shares
<1>1. ASSUME NEW f \in Shares, NEW g \in Shares PROVE AggregateDecryptionShare(f, g) \in Shares
  <2>1. Add(f.keys, g.keys) \in Sums /\ Add(f.minus, g.minus) \in Sums
    BY SumsFacts DEF Shares
  <2>. QED BY <2>1 DEF AggregateDecryptionShare, Shares
<1>. QED BY <1>1, SumsFacts DEF NoShare, GenDecryptionShare, Shares

LEMMA HeadType ==
  ASSUME TypeOK, NEW p \in Party, inbox[p] # <<>>
  PROVE  /\ Head(inbox[p]) \in Messages
         /\ Tail(inbox[p]) \in Seq(Messages)
         /\ Head(inbox[p]).Round \in {0, 1} => Head(inbox[p]).Data \in Sums
         /\ Head(inbox[p]).Round = 2 => Head(inbox[p]).Data \in Shares
<1>1. inbox[p] \in Seq(Messages)
  BY DEF TypeOK, LinksTypeOK
<1>2. Head(inbox[p]) \in Messages /\ Tail(inbox[p]) \in Seq(Messages)
  BY <1>1
<1>3. ASSUME NEW m \in Messages
      PROVE  /\ m.Round \in {0, 1} => m.Data \in Sums
             /\ m.Round = 2 => m.Data \in Shares
  BY DEF Messages
<1>. QED BY <1>2, <1>3

LEMMA MessageTypes ==
  /\ \A s \in Sums : Message(0, s) \in Messages /\ Message(1, s) \in Messages
  /\ \A s \in Shares : Message(2, s) \in Messages
BY DEF Messages, Message

LEMMA TakeType ==
  ASSUME TypeOK, NEW p \in Party, NEW round, Take(p, round),
         outbox' \in [Party -> [Party -> Seq(Messages)]]
  PROVE  LinksTypeOK(Messages)'
<1>1. inbox' \in [Party -> Seq(Messages)]
  BY HeadType DEF Take, TypeOK, LinksTypeOK
<1>. QED BY <1>1 DEF Take, TypeOK, LinksTypeOK

\* What a handler queues keeps the type of the channels.
LEMMA OutboxType ==
  ASSUME TypeOK, NEW p \in Party, NEW to, NEW m \in Messages,
         outbox' = [outbox EXCEPT ![p] = Queue(p, to, m)]
  PROVE  outbox' \in [Party -> [Party -> Seq(Messages)]]
<1>1. Queue(p, to, m) \in [Party -> Seq(Messages)]
  BY QueueType DEF TypeOK
<1>. QED BY <1>1 DEF TypeOK, LinksTypeOK

LEMMA RunType ==
  ASSUME TypeOK, NEW p \in Party, Run(p)
  PROVE  TypeOK'
<1>. DEFINE m == Head(inbox[p])
<1>0. enc[p] \in Sums /\ share[p] \in Shares /\ state[p] \in Nat
  BY DEF TypeOK
<1>1. CASE SendInputs(p)
  <2>1. outbox' \in [Party -> [Party -> Seq(Messages)]]
    BY <1>0, <1>1, OutboxType, MessageTypes DEF SendInputs
  <2>2. LinksTypeOK(Messages)'
    BY <1>1, <2>1 DEF SendInputs, TypeOK, LinksTypeOK
  <2>. QED BY <1>1, <2>2 DEF SendInputs, TypeOK
<1>2. CASE HandleInputs(p)
  <2>1. m.Data \in Sums /\ Add(enc[p], m.Data) \in Sums
    BY <1>0, <1>2, HeadType, SumsFacts DEF HandleInputs, Take
  <2>2. outbox' \in [Party -> [Party -> Seq(Messages)]]
    <3>1. CASE outbox' = outbox
      BY <3>1 DEF TypeOK, LinksTypeOK
    <3>2. CASE outbox' # outbox
      BY <1>2, <2>1, <3>2, OutboxType, MessageTypes DEF HandleInputs
    <3>. QED BY <3>1, <3>2
  <2>3. LinksTypeOK(Messages)'
    BY <1>2, <2>2, TakeType DEF HandleInputs
  <2>4. enc' \in [Party -> Sums]
    BY <1>2, <2>1 DEF HandleInputs, TypeOK
  <2>5. share' \in [Party -> Shares]
    BY <1>2, <2>1, SharesFacts DEF HandleInputs, TypeOK
  <2>6. state' \in [Party -> Nat]
    BY <1>0, <1>2 DEF HandleInputs, TypeOK
  <2>. QED BY <1>2, <2>3, <2>4, <2>5, <2>6 DEF HandleInputs, TypeOK
<1>3. CASE HandleProduct(p)
  <2>1. m \in Messages /\ m.Data \in Sums /\ GenDecryptionShare(p, m.Data) \in Shares
    BY <1>3, HeadType, SharesFacts DEF HandleProduct, Take
  <2>2. outbox' \in [Party -> [Party -> Seq(Messages)]]
    BY <1>3, <2>1, OutboxType, MessageTypes DEF HandleProduct
  <2>3. LinksTypeOK(Messages)'
    BY <1>3, <2>2, TakeType DEF HandleProduct
  <2>. QED BY <1>3, <2>1, <2>3 DEF HandleProduct, TypeOK
<1>4. CASE HandleShare(p)
  <2>1. m.Data \in Shares /\ AggregateDecryptionShare(share[p], m.Data) \in Shares
    BY <1>0, <1>4, HeadType, SharesFacts DEF HandleShare, Take
  <2>2. outbox' \in [Party -> [Party -> Seq(Messages)]]
    <3>1. CASE outbox' = outbox
      BY <3>1 DEF TypeOK, LinksTypeOK
    <3>2. CASE outbox' # outbox
      BY <1>4, <2>1, <3>2, OutboxType, MessageTypes DEF HandleShare
    <3>. QED BY <3>1, <3>2
  <2>3. LinksTypeOK(Messages)'
    BY <1>4, <2>2, TakeType DEF HandleShare
  <2>4. share' \in [Party -> Shares] /\ enc' = enc
    BY <1>4, <2>1 DEF HandleShare, TypeOK
  <2>5. state' \in [Party -> Nat]
    BY <1>0, <1>4 DEF HandleShare, TypeOK
  <2>6. result' \in [product : SUBSET Sums, share : Shares]
    BY <1>0, <1>4, <2>1 DEF HandleShare, TypeOK
  <2>7. run' \in [Party -> {"starting", "listening", "returned"}]
    BY <1>4 DEF HandleShare, TypeOK
  <2>. QED BY <2>3, <2>4, <2>5, <2>6, <2>7 DEF TypeOK
<1>. QED BY <1>1, <1>2, <1>3, <1>4 DEF Run

-----------------------------------------------------------------------------
(* What is due.                                                            *)

LEMMA DueCases ==
  ASSUME NEW p \in Party, NEW q \in Party
  PROVE  /\ p \in Children(q) => Due[p][q] = UpDue(p, q) /\ q \notin Children(p) /\ p # q
         /\ q \in Children(p) => Due[p][q] = DownDue(p, q) /\ p \notin Children(q) /\ p # q
         /\ p \notin Children(q) /\ q \notin Children(p) => Due[p][q] = {}
<1>1. p \in Children(q) <=> HasParent(p) /\ Parent(p) = q
  BY ChildIff
<1>2. q \in Children(p) <=> HasParent(q) /\ Parent(q) = p
  BY ChildIff
<1>3. ~(p \in Children(q) /\ q \in Children(p)) /\ p \notin Children(p)
  <2>1. HasParent(p) => Parent(p) < p
    BY ParentFacts
  <2>2. HasParent(q) => Parent(q) < q
    BY ParentFacts
  <2>3. p \in Int /\ q \in Int
    BY NAssumption DEF Party
  <2>. QED BY <1>1, <1>2, <2>1, <2>2, <2>3, ChildIff
<1>. QED BY <1>1, <1>2, <1>3 DEF Due

\* The same for the next state.
LEMMA DueCasesNext ==
  ASSUME NEW p \in Party, NEW q \in Party
  PROVE  /\ p \in Children(q) => Due'[p][q] = UpDue(p, q)' /\ q \notin Children(p) /\ p # q
         /\ q \in Children(p) => Due'[p][q] = DownDue(p, q)' /\ p \notin Children(q) /\ p # q
         /\ p \notin Children(q) /\ q \notin Children(p) => Due'[p][q] = {}
<1>1. p \in Children(q) <=> HasParent(p) /\ Parent(p) = q
  BY ChildIff
<1>2. q \in Children(p) <=> HasParent(q) /\ Parent(q) = p
  BY ChildIff
<1>. QED BY <1>1, <1>2, DueCases DEF Due

\* Which message it can be, by its round.
LEMMA UpMessage ==
  ASSUME NEW p, NEW q, NEW m \in UpDue(p, q)
  PROVE  \/ /\ m = Message(0, Whole(p)) /\ m.Round = 0 /\ m.Data = Whole(p)
            /\ Collected(p) /\ enc[q][p] # 1
         \/ /\ m = Message(2, ShareOf(p, Children(p))) /\ m.Round = 2
            /\ m.Data = ShareOf(p, Children(p)) /\ m.Data.keys = Whole(p)
            /\ Returned(p) /\ share[q].keys[p] # 1
<1>1. CASE Collected(p) /\ enc[q][p] # 1
  BY <1>1 DEF UpDue, Message
<1>2. CASE ~(Collected(p) /\ enc[q][p] # 1)
  <2>1. m = Message(2, ShareOf(p, Children(p))) /\ Returned(p) /\ share[q].keys[p] # 1
    BY <1>2 DEF UpDue
  <2>2. m.Round = 2 /\ m.Data = ShareOf(p, Children(p)) /\ m.Data.keys = Whole(p)
    BY <2>1 DEF Message, ShareOf, Whole
  <2>. QED BY <2>1, <2>2
<1>. QED BY <1>1, <1>2

LEMMA DownMessage ==
  ASSUME NEW p, NEW q, NEW m \in DownDue(p, q)
  PROVE  /\ m = Message(1, Everybody) /\ m.Round = 1 /\ m.Data = Everybody
         /\ Informed(p) /\ ~Informed(q)
BY DEF DownDue, Message

LEMMA DueSeparate == Separate(Due)
<1>. SUFFICES ASSUME NEW p \in Party, NEW r \in Party, NEW q \in Party,
                     NEW m, m \in Due[p][q], m \in Due[r][q]
              PROVE  p = r
  BY DEF Separate
<1>1. \A x \in {p, r} : \/ x \in Children(q) /\ m \in UpDue(x, q)
                        \/ q \in Children(x) /\ m \in DownDue(x, q)
  BY DueCases
<1>2. CASE p \in Children(q) /\ r \in Children(q)
  <2>1. m \in UpDue(p, q) /\ m \in UpDue(r, q)
    BY <1>2, DueCases
  <2>2. Whole(p) = Whole(r)
    BY <2>1, UpMessage
  <2>. QED BY <1>2, <2>2, WholesDiffer
<1>3. CASE q \in Children(p) /\ q \in Children(r)
  BY <1>3, ChildIff
<1>4. ASSUME NEW x, NEW y, m \in UpDue(x, q), m \in DownDue(y, q) PROVE FALSE
  BY <1>4, UpMessage, DownMessage
<1>. QED BY <1>1, <1>2, <1>3, <1>4

LEMMA DueSeparateNext == Separate(Due')
<1>1. Separate(Due)'
  BY DueSeparate, PTL
<1>. QED BY <1>1 DEF Separate

\* The next message of a party comes from a neighbour, and shows what the
\* neighbour has done.
LEMMA NextMessage ==
  ASSUME Carried(outbox, wire, inbox, Due), TypeOK, NEW p \in Party, inbox[p] # <<>>
  PROVE  \E r \in Party :
            /\ r # p /\ Head(inbox[p]) \in Due[r][p]
            /\ Head(inbox[p]).Round = 1 => p \in Children(r)
            /\ Head(inbox[p]).Round \in {0, 2} => r \in Children(p)
            /\ Head(inbox[p]).Round = 0 =>
                  Collected(r) /\ enc[p][r] # 1 /\ Head(inbox[p]).Data = Whole(r)
            /\ Head(inbox[p]).Round = 1 =>
                  /\ Informed(r) /\ ~Informed(p)
                  /\ Head(inbox[p]) = Message(1, Everybody) /\ Head(inbox[p]).Data = Everybody
            /\ Head(inbox[p]).Round = 2 =>
                  /\ Returned(r) /\ share[p].keys[r] # 1
                  /\ Head(inbox[p]).Data = ShareOf(r, Children(r))
<1>. DEFINE m == Head(inbox[p])
<1>1. PICK r \in Party : m \in Due[r][p]
  <2>1. 1 \in DOMAIN inbox[p] /\ m = inbox[p][1]
    BY DEF TypeOK, LinksTypeOK
  <2>. QED BY <2>1 DEF Carried
<1>. HIDE DEF m
<1>2. CASE r \in Children(p)
  <2>1. m \in UpDue(r, p) /\ r # p
    BY <1>1, <1>2, DueCases
  <2>. QED BY <1>1, <1>2, <2>1, UpMessage DEF m
<1>3. CASE p \in Children(r)
  <2>1. m \in DownDue(r, p) /\ r # p
    BY <1>1, <1>3, DueCases
  <2>. QED BY <1>1, <1>3, <2>1, DownMessage DEF m
<1>. QED BY <1>1, <1>2, <1>3, DueCases

-----------------------------------------------------------------------------
(* A step of Run leaves the variables of all other parties alone.          *)

Frame(p) ==
  \A q \in Party \ {p} :
     /\ enc'[q] = enc[q] /\ share'[q] = share[q]
     /\ state'[q] = state[q] /\ run'[q] = run[q]

LEMMA RunFrame ==
  ASSUME TypeOK, NEW p \in Party, Run(p)
  PROVE  Frame(p)
BY DEF Run, SendInputs, HandleInputs, HandleProduct, HandleShare, Frame, TypeOK

LEMMA OthersKept ==
  ASSUME NEW p \in Party, Frame(p), NEW q \in Party, q # p
  PROVE  /\ Collected(q)' <=> Collected(q)
         /\ Informed(q)' <=> Informed(q)
         /\ Returned(q)' <=> Returned(q)
         /\ LocalInv(q)' <=> LocalInv(q)
BY DEF Frame, Collected, Informed, Returned, LocalInv, AddedInputs, AddedShares

\* Nothing changes on the links between other parties.
LEMMA OtherLinks ==
  ASSUME NEW p \in Party, Frame(p), NEW a \in Party \ {p}, NEW b \in Party \ {p}
  PROVE  Due'[a][b] = Due[a][b]
<1>1. UpDue(a, b)' = UpDue(a, b) /\ DownDue(a, b)' = DownDue(a, b)
  BY OthersKept DEF UpDue, DownDue, Frame
<1>. QED BY <1>1 DEF Due

-----------------------------------------------------------------------------
(* The links of a party that takes a message of r and sends what follows.  *)

\* The message of r is no longer due, what is due to p from others stays so,
\* and p has put a message into every channel on which something is due now.
OthersDue(p, r) == \A a \in Party \ {p, r} : Due'[a][p] = Due[a][p]
NowSent(p) ==
  /\ \A a \in Party \ {p} : outbox'[a] = outbox[a]
  /\ \A b \in Party :
        \/ Due'[p][b] = Due[p][b] /\ outbox'[p][b] = outbox[p][b]
        \/ Due[p][b] = {} /\ \E m : Due'[p][b] = {m} /\ outbox'[p][b] = Append(outbox[p][b], m)

LEMMA HandlerLinks ==
  ASSUME TypeOK, Carried(outbox, wire, inbox, Due),
         NEW p \in Party, NEW round, Take(p, round), Frame(p),
         NEW r \in Party, r # p, Head(inbox[p]) \in Due[r][p],
         Due'[r][p] = {}, OthersDue(p, r), NowSent(p)
  PROVE  Carried(outbox', wire', inbox', Due')
<1>. DEFINE mid == [a \in Party |-> [b \in Party |-> IF a = r /\ b = p THEN {} ELSE Due[a][b]]]
<1>1. \A a, b \in Party : mid[a][b] = IF a = r /\ b = p THEN {} ELSE Due[a][b]
  OBVIOUS
<1>. HIDE DEF mid
<1>3. Carried(outbox, wire, inbox', mid)
  <2>1. NoLongerDue(r, p, Due, mid)
    BY <1>1 DEF NoLongerDue
  <2>2. Takes(p) /\ LinksTypeOK(Messages)
    BY DEF Take, Takes, TypeOK
  <2>. QED BY <2>1, <2>2, CarriedDrop, DueSeparate
<1>4. Carried(outbox, wire', inbox', mid)
  BY <1>3 DEF Take
<1>5. ASSUME NEW a \in Party \ {p}, NEW b \in Party PROVE Due'[a][b] = mid[a][b]
  <2>1. CASE b = p
    BY <1>1, <2>1 DEF OthersDue
  <2>2. CASE b # p
    BY <1>1, <2>2, OtherLinks
  <2>. QED BY <2>1, <2>2
<1>6. NowDue(p, mid, Due')
  BY <1>1, <1>5 DEF NowDue, NowSent
<1>. QED BY <1>4, <1>6, CarriedQueue, DueSeparateNext

\* One message is queued for the members of to.
LEMMA QueueSends ==
  ASSUME TypeOK, NEW p \in Party, NEW to, NEW m,
         outbox' = [outbox EXCEPT ![p] = Queue(p, to, m)],
         \A b \in to : Due[p][b] = {} /\ Due'[p][b] = {m},
         \A b \in Party \ to : Due'[p][b] = Due[p][b]
  PROVE  NowSent(p)
<1>1. \A a \in Party \ {p} : outbox'[a] = outbox[a]
  BY DEF TypeOK, LinksTypeOK
<1>2. \A b \in Party : outbox'[p][b] = IF b \in to THEN Append(outbox[p][b], m)
                                                   ELSE outbox[p][b]
  BY DEF Queue, TypeOK, LinksTypeOK
<1>3. ASSUME NEW b \in Party
      PROVE  \/ Due'[p][b] = Due[p][b] /\ outbox'[p][b] = outbox[p][b]
             \/ Due[p][b] = {} /\ \E x : Due'[p][b] = {x} /\ outbox'[p][b] = Append(outbox[p][b], x)
  <2>1. CASE b \in to
    <3>1. Due[p][b] = {} /\ Due'[p][b] = {m} /\ outbox'[p][b] = Append(outbox[p][b], m)
      BY <1>2, <2>1
    <3>. QED BY <3>1
  <2>2. CASE b \notin to
    BY <1>2, <2>2
  <2>. QED BY <2>1, <2>2
<1>. QED BY <1>1, <1>3 DEF NowSent

LEMMA QueueSendsUp ==
  ASSUME TypeOK, NEW p \in Party, NEW r, NEW m,
         outbox' = [outbox EXCEPT ![p] = Queue(p, {r}, m)],
         Due[p][r] = {}, Due'[p][r] = {m},
         \A b \in Party \ {r} : Due'[p][b] = Due[p][b]
  PROVE  NowSent(p)
<1>. DEFINE to == {r}
<1>1. \A b \in to : Due[p][b] = {} /\ Due'[p][b] = {m}
  OBVIOUS
<1>2. outbox' = [outbox EXCEPT ![p] = Queue(p, to, m)] /\ \A b \in Party \ to : Due'[p][b] = Due[p][b]
  OBVIOUS
<1>. HIDE DEF to
<1>. QED BY <1>1, <1>2, QueueSends

\* Nothing is due on a link that neither end has got to.
LEMMA Idle ==
  ASSUME NEW p \in Party, NEW q \in Party, p \in Children(q),
         ~Collected(p) \/ enc[q][p] = 1, ~Returned(p) \/ share[q].keys[p] = 1
  PROVE  Due[p][q] = {}
BY DueCases DEF UpDue

LEMMA IdleNext ==
  ASSUME NEW p \in Party, NEW q \in Party, p \in Children(q),
         ~Collected(p)' \/ enc'[q][p] = 1, ~Returned(p)' \/ share'[q].keys[p] = 1
  PROVE  Due'[p][q] = {}
BY DueCasesNext DEF UpDue

-----------------------------------------------------------------------------
(* Consequences of the invariant, and a step of Run in general.            *)

LEMMA ProgressFacts ==
  ASSUME Progress, NEW p \in Party
  PROVE  /\ Returned(p) => Informed(p)
         /\ Informed(p) => \A q \in Party : Collected(q)
         /\ HasParent(p) /\ Informed(p) => Informed(Parent(p))
         /\ AddedInputs(p) \in SUBSET Children(p) /\ AddedShares(p) \in SUBSET Children(p)
<1>1. HasParent(p) => Parent(p) \in Party /\ p \in Children(Parent(p))
  BY ChildIff, ParentFacts
<1>. QED BY <1>1 DEF Progress, LocalInv, OrderInv, AddedInputs, AddedShares

\* A counter that counts the children in C counts right.
LEMMA CountOneMore ==
  ASSUME NEW p \in Party, NEW C \in SUBSET Children(p), NEW c \in Children(p), c \notin C
  PROVE  /\ Cardinality(C \cup {c}) = Cardinality(C) + 1
         /\ Cardinality(C) + 1 = Cardinality(Children(p)) <=> C \cup {c} = Children(p)
<1>1. IsFiniteSet(C) /\ IsFiniteSet(Children(p)) /\ IsFiniteSet(C \cup {c})
  BY ChildrenFinite, FS_Subset
<1>2. Cardinality(C \cup {c}) = Cardinality(C) + 1
  BY <1>1, FS_AddElement
<1>3. Cardinality(C \cup {c}) = Cardinality(Children(p)) => C \cup {c} = Children(p)
  BY <1>1, FS_Subset
<1>. QED BY <1>2, <1>3

\* The decryption share that a party computes is that of nobody else.
LEMMA OwnShare ==
  ASSUME NEW p \in Party
  PROVE  /\ Part(p, {}) = Only(p)
         /\ \A c \in Children(p) : Only(p)[c] = 0
         /\ GenDecryptionShare(p, Everybody) = ShareOf(p, {})
         /\ \A c \in Children(p) : ShareOf(p, {}).keys[c] = 0
<1>1. Part(p, {}) = Only(p)
  BY PartEnds DEF Only
<1>2. ASSUME NEW c \in Children(p) PROVE c \in Party /\ c # p
  BY DueCases, ChildIff
<1>3. [Only(p) EXCEPT ![Root] = 0] = IF HasParent(p) THEN Only(p) ELSE Zero
  BY ParentFacts DEF Only, Zero
<1>. QED BY <1>1, <1>2, <1>3 DEF Only, GenDecryptionShare, ShareOf

\* A party never goes back, and it goes ahead only when its neighbours let it.
Ahead(p) ==
  /\ Collected(p) => Collected(p)'
  /\ Informed(p) => Informed(p)'
  /\ Returned(p) => Returned(p)'
  /\ \A c \in Children(p) : (enc'[p][c] = 1 => Collected(c)) /\ (share'[p].keys[c] = 1 => Returned(c))
  /\ HasParent(p) /\ Informed(p)' => Informed(Parent(p))
  /\ Informed(p)' => Collected(p)' /\ \A q \in Party \ {p} : Collected(q)

LEMMA ProgressNext ==
  ASSUME Progress, TypeOK', NEW p \in Party, Frame(p), Ahead(p), LocalInv(p)'
  PROVE  Progress'
<1>1. ASSUME NEW q \in Party PROVE LocalInv(q)'
  <2>1. CASE q = p
    BY <2>1
  <2>2. CASE q # p
    BY <2>2, OthersKept DEF Progress
  <2>. QED BY <2>1, <2>2
<1>2. ASSUME NEW q \in Party, NEW c \in Children(q)
      PROVE  /\ enc'[q][c] = 1 => Collected(c)'
             /\ Informed(c)' => Informed(q)'
             /\ share'[q].keys[c] = 1 => Returned(c)'
  <2>0. c \in Party /\ c # q /\ HasParent(c) /\ Parent(c) = q
    BY ChildIff, DueCases
  <2>1. /\ enc[q][c] = 1 => Collected(c)
        /\ Informed(c) => Informed(q)
        /\ share[q].keys[c] = 1 => Returned(c)
    BY DEF Progress, OrderInv
  <2>2. CASE q = p
    BY <2>0, <2>1, <2>2, OthersKept DEF Ahead
  <2>3. CASE c = p
    <3>1. enc'[q] = enc[q] /\ share'[q] = share[q]
      BY <2>0, <2>3 DEF Frame
    <3>. QED BY <2>0, <2>1, <2>3, <3>1, OthersKept DEF Ahead
  <2>4. CASE q # p /\ c # p
    <3>1. enc'[q] = enc[q] /\ share'[q] = share[q]
      BY <2>4 DEF Frame
    <3>. QED BY <2>0, <2>1, <2>4, <3>1, OthersKept
  <2>. QED BY <2>2, <2>3, <2>4
<1>3. ASSUME NEW q \in Party, Informed(q)', NEW b \in Party PROVE Collected(b)'
  <2>1. CASE q = p
    BY <1>3, <2>1, OthersKept DEF Ahead
  <2>2. CASE q # p
    <3>1. Collected(b)
      BY <1>3, <2>2, OthersKept DEF Progress, OrderInv
    <3>. QED BY <3>1, OthersKept DEF Ahead
  <2>. QED BY <2>1, <2>2
<1>4. OrderInv'
  BY <1>2, <1>3 DEF OrderInv
<1>. QED BY <1>1, <1>4 DEF Progress


-----------------------------------------------------------------------------
(* A leaf sends its inputs.                                                *)

LEMMA SendProgress ==
  ASSUME Progress, TypeOK', NEW p \in Party, Frame(p), SendInputs(p)
  PROVE  /\ Progress'
         /\ IsLeaf(p) /\ enc[p] = Whole(p)
         /\ ~Collected(p) /\ ~Informed(p) /\ ~Returned(p)
         /\ Collected(p)' /\ ~Informed(p)' /\ ~Returned(p)'
<1>1. IsLeaf(p) /\ ~Informed(p) /\ ~Collected(p) /\ ~Returned(p)
  BY DEF SendInputs, Progress, LocalInv, Collected, Returned
<1>2. AddedInputs(p) = {} /\ Children(p) = {}
  BY <1>1 DEF IsLeaf, AddedInputs
<1>3. enc[p] = Whole(p) /\ enc[p] = Part(p, {}) /\ state[p] = 0
  BY <1>1, <1>2, FS_EmptySet DEF Progress, LocalInv, Whole
<1>4. share[p] = NoShare
  BY <1>1 DEF Progress, LocalInv
<1>5. run'[p] = "listening" /\ enc' = enc /\ share' = share /\ state' = state
  BY DEF SendInputs, Progress, TypeOK
<1>6. Collected(p)' /\ ~Informed(p)' /\ ~Returned(p)'
  BY <1>1, <1>2, <1>5 DEF Collected, Informed, Returned
<1>7. AddedInputs(p)' = {}
  BY <1>2 DEF AddedInputs
<1>8. LocalInv(p)'
  BY <1>3, <1>4, <1>5, <1>6, <1>7 DEF LocalInv
<1>9. Ahead(p)
  BY <1>1, <1>2, <1>6 DEF Ahead
<1>. QED BY <1>1, <1>3, <1>6, <1>8, <1>9, ProgressNext

LEMMA SendStep ==
  ASSUME Progress, ResultInv, Carried(outbox, wire, inbox, Due), TypeOK', NEW p \in Party,
         SendInputs(p), Frame(p)
  PROVE  Progress' /\ ResultInv' /\ Carried(outbox', wire', inbox', Due')
<1>. DEFINE u == Parent(p)
            m == Message(0, Whole(p))
<1>1. /\ Progress'
      /\ IsLeaf(p) /\ enc[p] = Whole(p)
      /\ ~Collected(p) /\ ~Informed(p) /\ ~Returned(p)
      /\ Collected(p)' /\ ~Informed(p)' /\ ~Returned(p)'
  BY SendProgress
<1>2. TypeOK /\ HasParent(p) /\ p # Root /\ u \in Party /\ p \in Children(u) /\ u # p
  <2>1. TypeOK /\ HasParent(p) /\ u \in Party
    BY ParentFacts DEF SendInputs, Progress
  <2>2. p # Root /\ p \in Children(u)
    BY <2>1, ChildIff, ParentFacts
  <2>. QED BY <2>1, <2>2, DueCases
<1>3. ResultInv'
  <2>1. Returned(Root)' <=> Returned(Root)
    BY <1>2, OthersKept, ParentFacts
  <2>2. result' = result
    BY DEF SendInputs
  <2>. QED BY <2>1, <2>2 DEF ResultInv
<1>4. \A b \in Party : p \in Children(b) => b = u
  BY ChildIff
<1>5. \A b \in Party : b \notin Children(p)
  BY <1>1 DEF IsLeaf
<1>6. ASSUME NEW a \in Party \ {p}, NEW b \in Party PROVE Due'[a][b] = Due[a][b]
  <2>1. CASE b # p
    BY <2>1, OtherLinks
  <2>2. CASE b = p /\ p \in Children(a)
    <3>1. DownDue(a, p)' = DownDue(a, p)
      BY <1>1, OthersKept DEF DownDue
    <3>. QED BY <2>2, <3>1, DueCases, DueCasesNext
  <2>3. CASE b = p /\ p \notin Children(a)
    BY <1>5, <2>3, DueCases, DueCasesNext
  <2>. QED BY <2>1, <2>2, <2>3
<1>7. NowSent(p)
  <2>1. outbox' = [outbox EXCEPT ![p] = Queue(p, {u}, m)]
    BY <1>1 DEF SendInputs
  <2>2. Due[p][u] = {}
    BY <1>1, <1>2, Idle
  <2>3. Due'[p][u] = {m}
    <3>1. enc'[u][p] # 1
      BY <1>1, <1>2 DEF Progress, OrderInv, Frame
    <3>2. UpDue(p, u)' = {m}
      BY <1>1, <3>1 DEF UpDue
    <3>. QED BY <1>2, <3>2, DueCasesNext
  <2>4. \A b \in Party \ {u} : Due'[p][b] = Due[p][b]
    BY <1>4, <1>5, DueCases, DueCasesNext
  <2>. HIDE DEF u, m
  <2>. QED BY <1>2, <2>1, <2>2, <2>3, <2>4, QueueSendsUp
<1>8. NowDue(p, Due, Due')
  BY <1>6, <1>7 DEF NowDue, NowSent
<1>9. Carried(outbox, wire', inbox', Due)
  BY DEF SendInputs
<1>. QED BY <1>1, <1>3, <1>8, <1>9, CarriedQueue, DueSeparateNext

-----------------------------------------------------------------------------
(* The inputs of a child.                                                  *)

LEMMA AddInputs ==
  ASSUME Progress, NEW p \in Party, NEW r \in Children(p), Collected(r), enc[p][r] # 1
  PROVE  /\ ~Collected(p) /\ ~Informed(p) /\ ~Returned(p) /\ r \notin AddedInputs(p)
         /\ run[p] # "starting"
         /\ Add(enc[p], Whole(r)) = Part(p, AddedInputs(p) \cup {r})
         /\ state[p] = Cardinality(AddedInputs(p))
         /\ Complete(p) <=> AddedInputs(p) \cup {r} = Children(p)
<1>1. r \in Party
  BY ChildIff
<1>2. ~Collected(p) /\ ~Informed(p) /\ ~Returned(p) /\ r \notin AddedInputs(p)
  BY ProgressFacts DEF Collected, AddedInputs
<1>3. run[p] # "starting"
  BY DEF Progress, LocalInv, IsLeaf
<1>4. enc[p] = Part(p, AddedInputs(p)) /\ state[p] = Cardinality(AddedInputs(p))
  BY <1>2 DEF Progress, LocalInv
<1>5. AddedInputs(p) \in SUBSET Children(p)
  BY DEF AddedInputs
<1>6. Add(enc[p], Whole(r)) = Part(p, AddedInputs(p) \cup {r})
  BY <1>2, <1>4, <1>5, PartAdd DEF Add
<1>7. Complete(p) <=> AddedInputs(p) \cup {r} = Children(p)
  <2>1. Cardinality(AddedInputs(p)) + 1 = Cardinality(Children(p))
          <=> AddedInputs(p) \cup {r} = Children(p)
    BY <1>2, <1>5, CountOneMore
  <2>. QED BY <1>4, <2>1 DEF Complete
<1>. QED BY <1>2, <1>3, <1>4, <1>6, <1>7

LEMMA InputsProgress ==
  ASSUME Progress, TypeOK', NEW p \in Party, Frame(p), HandleInputs(p),
         NEW r \in Children(p), Collected(r), enc[p][r] # 1, Head(inbox[p]).Data = Whole(r)
  PROVE  /\ Progress'
         /\ AddedInputs(p)' = AddedInputs(p) \cup {r}
         /\ Collected(p)' <=> Complete(p)
         /\ Informed(p)' <=> Complete(p) /\ p = Root
         /\ ~Returned(p)'
         /\ p # Root => share'[p] = share[p]
         /\ Complete(p) => Add(enc[p], Head(inbox[p]).Data) = Whole(p)
<1>. DEFINE A == AddedInputs(p) \cup {r}
<1>1. /\ ~Collected(p) /\ ~Informed(p) /\ ~Returned(p) /\ r \notin AddedInputs(p)
      /\ run[p] # "starting"
      /\ Add(enc[p], Head(inbox[p]).Data) = Part(p, A)
      /\ state[p] = Cardinality(AddedInputs(p))
      /\ Complete(p) <=> A = Children(p)
  BY AddInputs
<1>2. A \in SUBSET Children(p) /\ Cardinality(A) = Cardinality(AddedInputs(p)) + 1
  BY <1>1, CountOneMore DEF AddedInputs
<1>3. enc'[p] = Part(p, A)
  BY <1>1 DEF HandleInputs, Progress, TypeOK
<1>4. \A c \in Children(p) : enc'[p][c] = 1 => Collected(c)
  <2>1. \A c \in Children(p) : enc'[p][c] = 1 => c \in A
    BY <1>2, <1>3, PartFacts
  <2>2. \A c \in AddedInputs(p) : c \in Children(p) /\ Collected(c)
    BY DEF Progress, OrderInv, AddedInputs
  <2>. QED BY <2>1, <2>2
<1>. HIDE DEF A
<1>5. AddedInputs(p)' = A
  <2>1. \A c \in Children(p) : enc'[p][c] = 1 <=> c \in A
    BY <1>2, <1>3, PartFacts
  <2>. QED BY <1>2, <2>1 DEF AddedInputs
<1>6. ~Returned(p)' /\ run'[p] # "starting"
  BY <1>1 DEF HandleInputs, Returned
<1>7. Collected(p)' <=> Complete(p)
  BY <1>1, <1>2, <1>5, <1>6 DEF Collected, AddedInputs
<1>8. share[p] = NoShare
  BY <1>1 DEF Progress, LocalInv
<1>9. HasParent(p) <=> p # Root
  BY ParentFacts
<1>10. CASE ~Complete(p) \/ p # Root
  <2>1. share' = share /\ state'[p] = IF Complete(p) THEN 0 ELSE Cardinality(A)
    BY <1>1, <1>2, <1>9, <1>10 DEF HandleInputs, Progress, TypeOK
  <2>2. ~Informed(p)'
    BY <1>1, <2>1 DEF Informed
  <2>3. LocalInv(p)'
    BY <1>3, <1>5, <1>6, <1>7, <1>8, <2>1, <2>2 DEF LocalInv
  <2>4. Ahead(p)
    <3>1. \A c \in Children(p) : share'[p].keys[c] = 1 => Returned(c)
      BY <2>1 DEF Progress, OrderInv
    <3>. QED BY <1>1, <1>4, <2>2, <3>1 DEF Ahead
  <2>5. Complete(p) => Add(enc[p], Head(inbox[p]).Data) = Whole(p)
    BY <1>1 DEF Whole
  <2>. QED BY <1>5, <1>6, <1>7, <1>10, <2>1, <2>2, <2>3, <2>4, <2>5, ProgressNext DEF A
<1>11. CASE Complete(p) /\ p = Root
  <2>1. Add(enc[p], Head(inbox[p]).Data) = Whole(p) /\ Whole(p) = Everybody
    BY <1>1, <1>11, PartEnds DEF Whole, Everybody
  <2>2. state'[p] = 0 /\ share'[p] = ShareOf(p, {})
    <3>1. share'[p] = GenDecryptionShare(p, Add(enc[p], Head(inbox[p]).Data)) /\ state'[p] = 0
      BY <1>9, <1>11 DEF HandleInputs, Progress, TypeOK
    <3>. QED BY <2>1, <3>1, OwnShare
  <2>3. Informed(p)'
    BY <2>2 DEF Informed, ShareOf
  <2>4. \A c \in Children(p) : share'[p].keys[c] # 1
    BY <2>2, OwnShare
  <2>5. AddedShares(p)' = {}
    BY <2>4 DEF AddedShares
  <2>6. LocalInv(p)'
    BY <1>3, <1>5, <1>6, <1>7, <1>11, <2>2, <2>3, <2>4, <2>5, FS_EmptySet DEF LocalInv
  <2>7. \A q \in Party : q = p \/ Collected(q)
    <3>. DEFINE S == {q \in Party : q = p \/ Collected(q)}
    <3>1. ASSUME NEW q \in S PROVE Children(q) \subseteq S
      <4>1. \A c \in Children(q) : c \in Party /\ Collected(c)
        BY <1>1, <1>4, <1>5, <1>11, ChildIff DEF Progress, OrderInv, Collected, AddedInputs
      <4>. QED BY <4>1
    <3>2. S = Party
      BY <1>11, <3>1, DownFromRoot
    <3>. QED BY <3>2
  <2>8. Ahead(p)
    BY <1>1, <1>4, <1>6, <1>7, <1>9, <1>11, <2>3, <2>4, <2>7 DEF Ahead
  <2>. QED BY <1>5, <1>6, <1>7, <1>11, <2>1, <2>3, <2>6, <2>8, ProgressNext DEF A
<1>. QED BY <1>10, <1>11

LEMMA InputsStep ==
  ASSUME Progress, ResultInv, Carried(outbox, wire, inbox, Due), TypeOK', NEW p \in Party,
         HandleInputs(p), Frame(p)
  PROVE  Progress' /\ ResultInv' /\ Carried(outbox', wire', inbox', Due')
<1>0. TypeOK /\ Take(p, 0) /\ inbox[p] # <<>> /\ Head(inbox[p]).Round = 0
  BY DEF HandleInputs, Take, Progress
<1>1. PICK r \in Party : /\ r # p /\ Head(inbox[p]) \in Due[r][p]
                         /\ r \in Children(p) /\ Collected(r) /\ enc[p][r] # 1
                         /\ Head(inbox[p]).Data = Whole(r)
  BY <1>0, NextMessage
<1>2. /\ Progress'
      /\ AddedInputs(p)' = AddedInputs(p) \cup {r}
      /\ Collected(p)' <=> Complete(p)
      /\ Informed(p)' <=> Complete(p) /\ p = Root
      /\ ~Returned(p)'
      /\ p # Root => share'[p] = share[p]
      /\ Complete(p) => Add(enc[p], Head(inbox[p]).Data) = Whole(p)
  BY <1>1, InputsProgress
<1>3. /\ ~Collected(p) /\ ~Informed(p) /\ ~Returned(p)
      /\ Complete(p) <=> AddedInputs(p) \cup {r} = Children(p)
  BY <1>1, AddInputs
<1>4. ResultInv'
  <2>1. Returned(Root)' <=> Returned(Root)
    BY <1>2, <1>3, OthersKept, ParentFacts
  <2>2. result' = result
    BY DEF HandleInputs
  <2>. QED BY <2>1, <2>2 DEF ResultInv
<1>5. ASSUME NEW q \in Party PROVE ~Informed(q) /\ ~Returned(q)
  BY <1>3, ProgressFacts
<1>6. ASSUME NEW c \in Children(p)
      PROVE  /\ c \in Party /\ c # p /\ ~Returned(c)' /\ ~Informed(c)' /\ (Collected(c)' <=> Collected(c))
             /\ enc'[p][c] = 1 <=> c = r \/ enc[p][c] = 1
  <2>1. c \in Party /\ c # p
    BY ChildIff, DueCases
  <2>2. enc'[p][c] = 1 <=> c = r \/ enc[p][c] = 1
    BY <1>2 DEF AddedInputs
  <2>. QED BY <1>5, <2>1, <2>2, OthersKept
<1>7. Due'[r][p] = {}
  BY <1>1, <1>6, IdleNext
<1>8. OthersDue(p, r)
  <2>1. ASSUME NEW a \in Party \ {p, r} PROVE Due'[a][p] = Due[a][p]
    <3>1. CASE a \in Children(p)
      <4>1. UpDue(a, p)' = UpDue(a, p)
        BY <1>5, <1>6, <2>1, <3>1 DEF UpDue
      <4>. QED BY <3>1, <4>1, DueCases, DueCasesNext
    <3>2. CASE p \in Children(a)
      <4>1. p # Root
        BY <3>2, ChildIff, ParentFacts
      <4>2. DownDue(a, p)' = DownDue(a, p)
        BY <1>2, <1>3, <2>1, <4>1, OthersKept DEF DownDue
      <4>. QED BY <3>2, <4>2, DueCases, DueCasesNext
    <3>3. CASE a \notin Children(p) /\ p \notin Children(a)
      BY <3>3, DueCases, DueCasesNext
    <3>. QED BY <3>1, <3>2, <3>3
  <2>. QED BY <2>1 DEF OthersDue
<1>9. NowSent(p)
  <2>1. ASSUME NEW b \in Party, b \notin Children(p), p \notin Children(b)
        PROVE  Due'[p][b] = Due[p][b]
    BY <2>1, DueCases, DueCasesNext
  <2>2. ASSUME NEW b \in Party, p \in Children(b) PROVE Due[p][b] = {} /\ p # Root /\ HasParent(p) /\ b = Parent(p)
    BY <1>3, <2>2, Idle, ChildIff, ParentFacts
  <2>3. ASSUME NEW b \in Children(p), ~(Complete(p) /\ p = Root) PROVE Due'[p][b] = Due[p][b]
    <3>1. DownDue(p, b)' = DownDue(p, b)
      BY <1>2, <1>3, <2>3 DEF DownDue
    <3>. QED BY <1>6, <3>1, DueCases, DueCasesNext
  <2>4. CASE ~Complete(p)
    <3>1. outbox' = outbox
      BY <2>4 DEF HandleInputs
    <3>2. ASSUME NEW b \in Party PROVE Due'[p][b] = Due[p][b]
      BY <1>2, <2>1, <2>2, <2>3, <2>4, IdleNext
    <3>. QED BY <3>1, <3>2 DEF NowSent
  <2>5. CASE Complete(p) /\ p # Root
    <3>. DEFINE u == Parent(p)
    <3>1. u \in Party /\ p \in Children(u) /\ HasParent(p)
      BY <2>5, ChildIff, ParentFacts
    <3>2. outbox' = [outbox EXCEPT ![p] = Queue(p, {u}, Message(0, Whole(p)))]
      BY <1>2, <2>5, <3>1 DEF HandleInputs
    <3>3. Due'[p][u] = {Message(0, Whole(p))}
      <4>1. enc'[u][p] # 1
        BY <1>3, <3>1, DueCases DEF Progress, OrderInv, Frame
      <4>2. UpDue(p, u)' = {Message(0, Whole(p))}
        BY <1>2, <2>5, <4>1 DEF UpDue
      <4>. QED BY <3>1, <4>2, DueCasesNext
    <3>4. \A b \in Party \ {u} : Due'[p][b] = Due[p][b]
      BY <2>1, <2>2, <2>3, <2>5
    <3>5. Due[p][u] = {}
      BY <2>2, <3>1
    <3>. HIDE DEF u
    <3>. QED BY <1>0, <3>2, <3>3, <3>4, <3>5, QueueSendsUp
  <2>6. CASE Complete(p) /\ p = Root
    <3>1. Whole(p) = Everybody /\ ~HasParent(p)
      BY <2>6, PartEnds, ParentFacts DEF Everybody
    <3>2. outbox' = [outbox EXCEPT ![p] = Queue(p, Children(p), Message(1, Everybody))]
      BY <1>2, <2>6, <3>1 DEF HandleInputs
    <3>3. ASSUME NEW b \in Children(p) PROVE Due[p][b] = {} /\ Due'[p][b] = {Message(1, Everybody)}
      <4>1. DownDue(p, b) = {}
        BY <1>3 DEF DownDue
      <4>2. DownDue(p, b)' = {Message(1, Everybody)}
        BY <1>2, <1>6, <2>6 DEF DownDue
      <4>. QED BY <1>6, <4>1, <4>2, DueCases, DueCasesNext
    <3>4. \A b \in Party \ Children(p) : Due'[p][b] = Due[p][b]
      BY <2>1, <2>2, <2>6
    <3>. QED BY <1>0, <3>2, <3>3, <3>4, QueueSends
  <2>. QED BY <2>4, <2>5, <2>6
<1>. QED BY <1>0, <1>1, <1>2, <1>4, <1>7, <1>8, <1>9, HandlerLinks


-----------------------------------------------------------------------------
(* The product.                                                            *)

LEMMA ProductProgress ==
  ASSUME Progress, TypeOK', NEW p \in Party, Frame(p), HandleProduct(p), ~Informed(p),
         HasParent(p), Informed(Parent(p)), Head(inbox[p]).Data = Everybody
  PROVE  /\ Progress'
         /\ \A q \in Party : Collected(q)
         /\ ~Returned(p) /\ Collected(p)' /\ Informed(p)'
         /\ share'[p] = ShareOf(p, {})
         /\ Returned(p)' <=> IsLeaf(p)
<1>0. TypeOK /\ Take(p, 1) /\ Parent(p) \in Party
  BY ParentFacts DEF HandleProduct, Progress
<1>1. \A q \in Party : Collected(q)
  BY <1>0, ProgressFacts
<1>2. ~Returned(p)
  BY ProgressFacts
<1>3. share'[p] = ShareOf(p, {}) /\ enc' = enc /\ state' = state
  <2>1. share'[p] = GenDecryptionShare(p, Everybody) /\ enc' = enc /\ state' = state
    BY <1>0 DEF HandleProduct, TypeOK
  <2>. QED BY <2>1, OwnShare
<1>4. run'[p] # "starting" /\ (Returned(p)' <=> IsLeaf(p))
  BY <1>0 DEF HandleProduct, Take, Returned, TypeOK
<1>5. Collected(p)' /\ Informed(p)'
  BY <1>1, <1>3, <1>4 DEF Collected, Informed, ShareOf
<1>6. \A c \in Children(p) : share'[p].keys[c] # 1
  BY <1>3, OwnShare
<1>7. AddedShares(p)' = {}
  BY <1>6 DEF AddedShares
<1>8. enc'[p] = Part(p, AddedInputs(p)') /\ state'[p] = 0
  BY <1>1, <1>3 DEF Progress, LocalInv, AddedInputs
<1>9. LocalInv(p)'
  BY <1>3, <1>4, <1>5, <1>6, <1>7, <1>8, FS_EmptySet DEF LocalInv, IsLeaf
<1>10. Ahead(p)
  BY <1>0, <1>1, <1>2, <1>5, <1>6, ChildIff DEF Ahead
<1>. QED BY <1>1, <1>2, <1>3, <1>4, <1>5, <1>9, <1>10, ProgressNext

LEMMA ProductStep ==
  ASSUME Progress, ResultInv, Carried(outbox, wire, inbox, Due), TypeOK', NEW p \in Party,
         HandleProduct(p), Frame(p)
  PROVE  Progress' /\ ResultInv' /\ Carried(outbox', wire', inbox', Due')
<1>0. TypeOK /\ Take(p, 1) /\ inbox[p] # <<>> /\ Head(inbox[p]).Round = 1
  BY DEF HandleProduct, Take, Progress
<1>1. PICK r \in Party : /\ r # p /\ Head(inbox[p]) \in Due[r][p]
                         /\ p \in Children(r) /\ Informed(r) /\ ~Informed(p)
                         /\ Head(inbox[p]) = Message(1, Everybody) /\ Head(inbox[p]).Data = Everybody
  BY <1>0, NextMessage
<1>2. HasParent(p) /\ Parent(p) = r /\ p # Root
  BY <1>1, ChildIff, ParentFacts
<1>3. /\ Progress'
      /\ \A q \in Party : Collected(q)
      /\ ~Returned(p) /\ Collected(p)' /\ Informed(p)'
      /\ share'[p] = ShareOf(p, {})
      /\ Returned(p)' <=> IsLeaf(p)
  BY <1>1, <1>2, ProductProgress
<1>4. ResultInv'
  <2>1. Returned(Root)' <=> Returned(Root)
    BY <1>2, OthersKept, ParentFacts
  <2>2. result' = result
    BY DEF HandleProduct
  <2>. QED BY <2>1, <2>2 DEF ResultInv
<1>5. enc' = enc
  BY DEF HandleProduct
<1>6. Due'[r][p] = {}
  <2>1. DownDue(r, p)' = {}
    BY <1>3 DEF DownDue
  <2>. QED BY <1>1, <2>1, DueCasesNext
<1>7. ASSUME NEW c \in Children(p)
      PROVE  /\ c \in Party /\ c # p /\ ~Informed(c) /\ ~Returned(c)
             /\ enc[p][c] = 1 /\ enc'[p][c] = 1
  <2>1. c \in Party /\ c # p /\ ~Informed(c)
    BY <1>1, ChildIff, DueCases DEF Progress, OrderInv
  <2>2. ~Returned(c)
    BY <2>1, ProgressFacts
  <2>. QED BY <1>3, <1>5, <2>1, <2>2 DEF Collected
<1>8. OthersDue(p, r)
  <2>1. ASSUME NEW a \in Party \ {p, r} PROVE Due'[a][p] = Due[a][p]
    <3>1. CASE a \in Children(p)
      <4>1. Due[a][p] = {}
        BY <1>7, <3>1, Idle
      <4>2. Due'[a][p] = {}
        BY <1>7, <3>1, IdleNext, OthersKept
      <4>. QED BY <4>1, <4>2
    <3>2. CASE a \notin Children(p)
      BY <1>2, <2>1, <3>2, DueCases, DueCasesNext, ChildIff
    <3>. QED BY <3>1, <3>2
  <2>. QED BY <2>1 DEF OthersDue
<1>9. NowSent(p)
  <2>1. ASSUME NEW b \in Party, b \notin Children(p), b # r
        PROVE  Due'[p][b] = Due[p][b]
    BY <1>2, <2>1, DueCases, DueCasesNext, ChildIff
  <2>2. /\ enc[r][p] = 1 /\ enc'[r][p] = 1 /\ share'[r] = share[r] /\ share[r].keys[p] # 1
        /\ Due[p][r] = {}
    <3>1. enc[r][p] = 1 /\ share'[r] = share[r] /\ share[r].keys[p] # 1
      BY <1>1, <1>3 DEF Frame, Collected, Progress, OrderInv
    <3>. QED BY <1>1, <1>3, <1>5, <3>1, Idle
  <2>3. ASSUME NEW b \in Children(p) PROVE Due[p][b] = {} /\ Due'[p][b] = {Message(1, Everybody)}
    <3>1. DownDue(p, b) = {}
      BY <1>1 DEF DownDue
    <3>2. DownDue(p, b)' = {Message(1, Everybody)}
      BY <1>3, <1>7, OthersKept DEF DownDue
    <3>. QED BY <1>7, <3>1, <3>2, DueCases, DueCasesNext
  <2>4. CASE IsLeaf(p)
    <3>. DEFINE m == Message(2, ShareOf(p, Children(p)))
    <3>1. outbox' = [outbox EXCEPT ![p] = Queue(p, {r}, m)]
      <4>1. outbox' = [outbox EXCEPT ![p] = Queue(p, {r}, Message(2, GenDecryptionShare(p, Everybody)))]
        BY <1>1, <1>2, <2>4 DEF HandleProduct
      <4>. QED BY <2>4, <4>1, OwnShare DEF IsLeaf
    <3>2. Due'[p][r] = {m}
      <4>1. UpDue(p, r)' = {m}
        BY <1>3, <2>2, <2>4 DEF UpDue
      <4>. QED BY <1>1, <4>1, DueCasesNext
    <3>3. \A b \in Party \ {r} : Due'[p][b] = Due[p][b]
      BY <2>1, <2>4 DEF IsLeaf
    <3>. HIDE DEF m
    <3>. QED BY <1>0, <2>2, <3>1, <3>2, <3>3, QueueSendsUp
  <2>5. CASE ~IsLeaf(p)
    <3>1. outbox' = [outbox EXCEPT ![p] = Queue(p, Children(p), Message(1, Everybody))]
      BY <1>1, <2>5 DEF HandleProduct
    <3>2. Due'[p][r] = {}
      BY <1>1, <1>3, <2>2, <2>5, IdleNext
    <3>3. \A b \in Party \ Children(p) : Due'[p][b] = Due[p][b]
      BY <2>1, <2>2, <3>2
    <3>. QED BY <1>0, <2>3, <3>1, <3>3, QueueSends
  <2>. QED BY <2>4, <2>5
<1>. QED BY <1>0, <1>1, <1>3, <1>4, <1>6, <1>8, <1>9, HandlerLinks

-----------------------------------------------------------------------------
(* The decryption share of a child.                                        *)

LEMMA AddShare ==
  ASSUME Progress, NEW p \in Party, NEW r \in Children(p), Returned(r), share[p].keys[r] # 1
  PROVE  /\ Informed(p) /\ Collected(p) /\ ~Returned(p) /\ r \notin AddedShares(p)
         /\ run[p] # "starting"
         /\ AggregateDecryptionShare(share[p], ShareOf(r, Children(r))) = ShareOf(p, AddedShares(p) \cup {r})
         /\ state[p] = Cardinality(AddedShares(p))
         /\ Complete(p) <=> AddedShares(p) \cup {r} = Children(p)
<1>1. r \in Party
  BY ChildIff
<1>2. Informed(p) /\ Collected(p) /\ r \notin AddedShares(p)
  BY <1>1, ProgressFacts DEF Progress, OrderInv, AddedShares
<1>3. ~Returned(p) /\ run[p] # "starting"
  BY <1>2 DEF Progress, LocalInv
<1>4. share[p] = ShareOf(p, AddedShares(p)) /\ state[p] = Cardinality(AddedShares(p))
  BY <1>2, <1>3 DEF Progress, LocalInv
<1>5. AddedShares(p) \in SUBSET Children(p)
  BY DEF AddedShares
<1>6. AggregateDecryptionShare(share[p], ShareOf(r, Children(r))) = ShareOf(p, AddedShares(p) \cup {r})
  <2>. DEFINE f == Part(p, AddedShares(p))
              g == Whole(r)
              h == Part(p, AddedShares(p) \cup {r})
  <2>1. [q \in Party |-> f[q] + g[q]] = h
    BY <1>2, <1>5, PartAdd
  <2>2. f \in [Party -> {0, 1}] /\ g \in [Party -> {0, 1}] /\ h \in [Party -> {0, 1}]
    <3>1. AddedShares(p) \cup {r} \in SUBSET Children(p)
      BY <1>5
    <3>. QED BY <1>1, <1>5, <3>1, PartFacts, WholeIff
  <2>3. AggregateDecryptionShare(share[p], ShareOf(r, Children(r)))
          = [keys |-> Add(f, g), minus |-> Add([f EXCEPT ![Root] = 0], [g EXCEPT ![Root] = 0]),
             of |-> {Everybody} \cup {Everybody}]
    BY <1>4 DEF AggregateDecryptionShare, ShareOf, Whole
  <2>4. ShareOf(p, AddedShares(p) \cup {r}) = [keys |-> h, minus |-> [h EXCEPT ![Root] = 0], of |-> {Everybody}]
    BY DEF ShareOf
  <2>. HIDE DEF f, g, h
  <2>5. Add(f, g) = h
    BY <2>1 DEF Add
  <2>6. Add([f EXCEPT ![Root] = 0], [g EXCEPT ![Root] = 0]) = [h EXCEPT ![Root] = 0]
    <3>1. \A q \in Party : h[q] = f[q] + g[q]
      BY <2>1
    <3>2. ASSUME NEW k \in {f, g, h}
          PROVE  [k EXCEPT ![Root] = 0] = [q \in Party |-> IF q = Root THEN 0 ELSE k[q]]
      BY <2>2
    <3>3. Add([f EXCEPT ![Root] = 0], [g EXCEPT ![Root] = 0])
            = [q \in Party |-> IF q = Root THEN 0 ELSE f[q] + g[q]]
      BY <3>2 DEF Add
    <3>. QED BY <3>1, <3>2, <3>3
  <2>. QED BY <2>3, <2>4, <2>5, <2>6
<1>7. Complete(p) <=> AddedShares(p) \cup {r} = Children(p)
  <2>1. Cardinality(AddedShares(p)) + 1 = Cardinality(Children(p))
          <=> AddedShares(p) \cup {r} = Children(p)
    BY <1>2, <1>5, CountOneMore
  <2>. QED BY <1>4, <2>1 DEF Complete
<1>. QED BY <1>2, <1>3, <1>4, <1>6, <1>7

LEMMA ShareProgress ==
  ASSUME Progress, TypeOK', NEW p \in Party, Frame(p), HandleShare(p),
         NEW r \in Children(p), Returned(r), share[p].keys[r] # 1,
         Head(inbox[p]).Data = ShareOf(r, Children(r))
  PROVE  /\ Progress'
         /\ \A c \in Children(p) : share'[p].keys[c] = 1 <=> c = r \/ share[p].keys[c] = 1
         /\ Returned(p)' <=> Complete(p)
         /\ Complete(p) => AggregateDecryptionShare(share[p], Head(inbox[p]).Data) = ShareOf(p, Children(p))
         /\ Collected(p)' /\ Informed(p)'
<1>. DEFINE A == AddedShares(p) \cup {r}
<1>1. /\ Informed(p) /\ Collected(p) /\ ~Returned(p) /\ r \notin AddedShares(p)
      /\ run[p] # "starting"
      /\ AggregateDecryptionShare(share[p], Head(inbox[p]).Data) = ShareOf(p, A)
      /\ state[p] = Cardinality(AddedShares(p))
      /\ Complete(p) <=> A = Children(p)
  BY AddShare
<1>2. A \in SUBSET Children(p) /\ Cardinality(A) = Cardinality(AddedShares(p)) + 1
  BY <1>1, CountOneMore DEF AddedShares
<1>3. share'[p] = ShareOf(p, A) /\ enc' = enc
  BY <1>1 DEF HandleShare, Progress, TypeOK
<1>4. \A c \in Children(p) : share'[p].keys[c] = 1 <=> c \in A
  BY <1>2, <1>3, PartFacts DEF ShareOf
<1>5. \A c \in Children(p) : c \in A <=> c = r \/ share[p].keys[c] = 1
  BY DEF AddedShares
<1>. HIDE DEF A
<1>6. AddedShares(p)' = A
  BY <1>2, <1>4 DEF AddedShares
<1>7. run'[p] # "starting" /\ (Returned(p)' <=> Complete(p))
  <2>1. run[p] = "listening" /\ run \in [Party -> {"starting", "listening", "returned"}]
    BY DEF HandleShare, Take, Progress, TypeOK
  <2>. QED BY <2>1 DEF HandleShare, Returned
<1>8. Collected(p)' /\ Informed(p)'
  BY <1>1, <1>3, <1>7 DEF Collected, Informed, ShareOf
<1>9. Returned(p)' <=> \A c \in Children(p) : share'[p].keys[c] = 1
  BY <1>1, <1>2, <1>4, <1>7
<1>10. ~Complete(p) => state'[p] = Cardinality(A)
  BY <1>1, <1>2 DEF HandleShare, Progress, TypeOK
<1>11. enc'[p] = Part(p, AddedInputs(p)')
  BY <1>3 DEF Progress, LocalInv, AddedInputs
<1>12. LocalInv(p)'
  BY <1>3, <1>6, <1>7, <1>8, <1>9, <1>10, <1>11 DEF LocalInv
<1>13. Ahead(p)
  <2>1. \A q \in Party : Collected(q)
    BY <1>1, ProgressFacts
  <2>2. \A c \in Children(p) : share'[p].keys[c] = 1 => Returned(c)
    BY <1>4, <1>5 DEF Progress, OrderInv
  <2>3. \A c \in Children(p) : Collected(c)
    BY <2>1, ChildIff
  <2>. QED BY <1>1, <1>8, <2>1, <2>2, <2>3, ProgressFacts DEF Ahead
<1>14. Progress'
  BY <1>12, <1>13, ProgressNext
<1>. QED BY <1>1, <1>4, <1>5, <1>7, <1>8, <1>14

LEMMA ShareStep ==
  ASSUME Progress, ResultInv, Carried(outbox, wire, inbox, Due), TypeOK', NEW p \in Party,
         HandleShare(p), Frame(p)
  PROVE  Progress' /\ ResultInv' /\ Carried(outbox', wire', inbox', Due')
<1>0. TypeOK /\ Take(p, 2) /\ inbox[p] # <<>> /\ Head(inbox[p]).Round = 2
  BY DEF HandleShare, Take, Progress
<1>1. PICK r \in Party : /\ r # p /\ Head(inbox[p]) \in Due[r][p]
                         /\ r \in Children(p) /\ Returned(r) /\ share[p].keys[r] # 1
                         /\ Head(inbox[p]).Data = ShareOf(r, Children(r))
  BY <1>0, NextMessage
<1>2. /\ Progress'
      /\ \A c \in Children(p) : share'[p].keys[c] = 1 <=> c = r \/ share[p].keys[c] = 1
      /\ Returned(p)' <=> Complete(p)
      /\ Complete(p) => AggregateDecryptionShare(share[p], Head(inbox[p]).Data) = ShareOf(p, Children(p))
      /\ Collected(p)' /\ Informed(p)'
  BY <1>1, ShareProgress
<1>3. Informed(p) /\ Collected(p) /\ ~Returned(p)
  BY <1>1, AddShare
<1>4. enc' = enc
  BY DEF HandleShare
<1>5. ResultInv'
  <2>1. CASE p # Root \/ ~Complete(p)
    <3>1. Returned(Root)' <=> Returned(Root)
      BY <1>2, <1>3, <2>1, OthersKept, ParentFacts
    <3>2. result' = result
      BY <2>1, ParentFacts DEF HandleShare
    <3>. QED BY <3>1, <3>2 DEF ResultInv
  <2>2. CASE p = Root /\ Complete(p)
    <3>1. enc[p] = Everybody
      <4>1. AddedInputs(p) = Children(p)
        BY <1>3 DEF Collected, AddedInputs
      <4>2. enc[p] = Part(p, AddedInputs(p))
        BY DEF Progress, LocalInv
      <4>. QED BY <2>2, <4>1, <4>2, PartEnds DEF Whole, Everybody
    <3>2. result' = [product |-> {Everybody}, share |-> ShareOf(Root, Children(Root))]
      BY <1>2, <2>2, <3>1, ParentFacts DEF HandleShare
    <3>. QED BY <1>2, <2>2, <3>2 DEF ResultInv
  <2>. QED BY <2>1, <2>2
<1>6. ASSUME NEW c \in Children(p)
      PROVE  c \in Party /\ c # p /\ enc[p][c] = 1 /\ enc'[p][c] = 1
  BY <1>3, <1>4, ChildIff, DueCases DEF Collected
<1>7. Due'[r][p] = {}
  BY <1>1, <1>2, <1>6, IdleNext
<1>8. OthersDue(p, r)
  <2>1. ASSUME NEW a \in Party \ {p, r} PROVE Due'[a][p] = Due[a][p]
    <3>1. CASE a \in Children(p)
      <4>1. UpDue(a, p)' = UpDue(a, p)
        BY <1>2, <1>6, <2>1, <3>1, OthersKept DEF UpDue
      <4>. QED BY <3>1, <4>1, DueCases, DueCasesNext
    <3>2. CASE p \in Children(a)
      <4>1. DownDue(a, p)' = DownDue(a, p)
        BY <1>2, <1>3, <2>1, OthersKept DEF DownDue
      <4>. QED BY <3>2, <4>1, DueCases, DueCasesNext
    <3>3. CASE a \notin Children(p) /\ p \notin Children(a)
      BY <3>3, DueCases, DueCasesNext
    <3>. QED BY <3>1, <3>2, <3>3
  <2>. QED BY <2>1 DEF OthersDue
<1>9. NowSent(p)
  <2>1. ASSUME NEW b \in Party, p \notin Children(b) PROVE Due'[p][b] = Due[p][b]
    <3>1. CASE b \in Children(p)
      <4>1. DownDue(p, b)' = DownDue(p, b)
        BY <1>2, <1>3, <1>6, <3>1, OthersKept DEF DownDue
      <4>. QED BY <3>1, <4>1, DueCases, DueCasesNext
    <3>2. CASE b \notin Children(p)
      BY <2>1, <3>2, DueCases, DueCasesNext
    <3>. QED BY <3>1, <3>2
  <2>2. ASSUME NEW b \in Party, p \in Children(b)
        PROVE  /\ Due[p][b] = {} /\ p # Root /\ HasParent(p) /\ b = Parent(p) /\ b # p
               /\ enc'[b][p] = 1 /\ share'[b].keys[p] # 1
    <3>1. p # Root /\ HasParent(p) /\ b = Parent(p) /\ b # p
      BY <2>2, ChildIff, ParentFacts, DueCases
    <3>2. enc[b][p] = 1
      BY <1>3, <2>2, ProgressFacts DEF Collected
    <3>3. share[b].keys[p] # 1
      BY <1>3, <2>2 DEF Progress, OrderInv
    <3>. QED BY <1>3, <2>2, <3>1, <3>2, <3>3, Idle DEF Frame
  <2>3. CASE ~Complete(p)
    <3>1. outbox' = outbox
      BY <2>3 DEF HandleShare
    <3>2. ASSUME NEW b \in Party, p \in Children(b) PROVE Due'[p][b] = {}
      BY <1>2, <2>2, <2>3, <3>2, IdleNext
    <3>3. \A b \in Party : Due'[p][b] = Due[p][b]
      BY <2>1, <2>2, <3>2
    <3>. QED BY <3>1, <3>3 DEF NowSent
  <2>4. CASE Complete(p) /\ p = Root
    <3>1. outbox' = outbox
      BY <2>4, ParentFacts DEF HandleShare
    <3>2. \A b \in Party : Due'[p][b] = Due[p][b]
      BY <2>1, <2>2, <2>4
    <3>. QED BY <3>1, <3>2 DEF NowSent
  <2>5. CASE Complete(p) /\ p # Root
    <3>. DEFINE u == Parent(p)
                m == Message(2, ShareOf(p, Children(p)))
    <3>1. u \in Party /\ p \in Children(u) /\ HasParent(p)
      BY <2>5, ChildIff, ParentFacts
    <3>2. outbox' = [outbox EXCEPT ![p] = Queue(p, {u}, m)]
      BY <1>2, <2>5, <3>1 DEF HandleShare
    <3>3. Due'[p][u] = {m}
      <4>1. UpDue(p, u)' = {m}
        BY <1>2, <2>2, <2>5, <3>1 DEF UpDue
      <4>. QED BY <3>1, <4>1, DueCasesNext
    <3>4. \A b \in Party \ {u} : Due'[p][b] = Due[p][b]
      BY <2>1, <2>2
    <3>5. Due[p][u] = {}
      BY <2>2, <3>1
    <3>. HIDE DEF u, m
    <3>. QED BY <1>0, <3>2, <3>3, <3>4, <3>5, QueueSendsUp
  <2>. QED BY <2>3, <2>4, <2>5
<1>. QED BY <1>0, <1>1, <1>2, <1>5, <1>7, <1>8, <1>9, HandlerLinks


-----------------------------------------------------------------------------
(* The invariant of the triples.                                           *)

LEMMA RunKept ==
  ASSUME TriplesInv, NEW p \in Party, Run(p)
  PROVE  TriplesInv'
<1>1. Progress /\ ResultInv /\ Carried(outbox, wire, inbox, Due) /\ TypeOK
  BY DEF TriplesInv, Progress
<1>2. TypeOK' /\ Frame(p)
  BY <1>1, RunType, RunFrame
<1>3. Progress' /\ ResultInv' /\ Carried(outbox', wire', inbox', Due')
  BY <1>1, <1>2, SendStep, InputsStep, ProductStep, ShareStep DEF Run
<1>. QED BY <1>3 DEF TriplesInv, Progress

\* The goroutines move messages; nothing becomes due or is dealt with.
LEMMA ProtocolKept ==
  ASSUME TriplesInv, UNCHANGED protocol
  PROVE  /\ (\A p \in Party : LocalInv(p))' /\ OrderInv' /\ ResultInv'
         /\ Due' = Due
<1>1. enc' = enc /\ share' = share /\ state' = state /\ run' = run /\ result' = result
  BY DEF protocol
<1>2. (\A p \in Party : LocalInv(p))'
  BY <1>1 DEF TriplesInv, LocalInv, Returned, Informed, Collected, AddedInputs, AddedShares
<1>3. OrderInv' /\ ResultInv'
  BY <1>1 DEF TriplesInv, OrderInv, ResultInv, Returned, Informed, Collected
<1>4. Due' = Due
  BY <1>1 DEF Due, UpDue, DownDue, Returned, Informed, Collected
<1>. QED BY <1>2, <1>3, <1>4

LEMMA LinksMoved ==
  ASSUME TriplesInv, UNCHANGED protocol, LinksTypeOK(Messages)',
         Carried(outbox', wire', inbox', Due)
  PROVE  TriplesInv'
<1>1. TypeOK'
  BY DEF TriplesInv, TypeOK, protocol
<1>. QED BY <1>1, ProtocolKept DEF TriplesInv

LEMMA FlowStep ==
  ASSUME TriplesInv, NEW p \in Party, Flow(p), UNCHANGED protocol
  PROVE  TriplesInv' /\ UNCHANGED proc
<1>1. LinksTypeOK(Messages) /\ Carried(outbox, wire, inbox, Due)
  BY DEF TriplesInv, TypeOK
<1>2. LinksTypeOK(Messages)' /\ Carried(outbox', wire', inbox', Due) /\ UNCHANGED proc
  BY <1>1, FlowKept, DueSeparate
<1>. QED BY <1>2, LinksMoved

LEMMA EndStep ==
  ASSUME TriplesInv, NEW p \in Party, NEW how \in {"exited", "panicked", "stopped"},
         End(p, how), UNCHANGED protocol
  PROVE  TriplesInv'
<1>1. LinksTypeOK(Messages) /\ Carried(outbox, wire, inbox, Due)
  BY DEF TriplesInv, TypeOK
<1>2. LinksTypeOK(Messages)' /\ UNCHANGED <<outbox, wire, reading, inbox>>
  BY <1>1, EndKept
<1>. QED BY <1>1, <1>2, LinksMoved

\* While nothing happens in this network, a process does not end.
LEMMA RestStep ==
  ASSUME TriplesInv, UNCHANGED triples, proc' \in [Party -> {"up", "exited", "panicked", "stopped"}]
  PROVE  TriplesInv'
<1>1. /\ UNCHANGED protocol
      /\ outbox' = outbox /\ wire' = wire /\ torn' = torn /\ reading' = reading /\ inbox' = inbox
  BY DEF triples
<1>2. LinksTypeOK(Messages)'
  BY <1>1 DEF TriplesInv, TypeOK, LinksTypeOK
<1>. QED BY <1>1, <1>2, LinksMoved DEF TriplesInv

LEMMA TriplesInit ==
  ASSUME Init
  PROVE  TriplesInv
<1>1. ASSUME NEW p \in Party
      PROVE  /\ ~Collected(p) /\ ~Informed(p) /\ ~Returned(p) /\ AddedInputs(p) = {}
             /\ enc[p] = Part(p, {}) /\ share[p] = NoShare /\ state[p] = 0
             /\ run[p] = "starting" <=> IsLeaf(p)
             /\ \A c \in Children(p) : enc[p][c] # 1 /\ share[p].keys[c] # 1
  <2>1. enc[p] = Only(p) /\ share[p] = NoShare /\ state[p] = 0
    BY DEF Init
  <2>2. run[p] = IF Children(p) = {} THEN "starting" ELSE "listening"
    BY DEF Init
  <2>3. \A c \in Children(p) : c \in Party /\ enc[p][c] = 0 /\ share[p].keys[c] = 0
    BY <2>1, OwnShare, ChildIff DEF NoShare, Zero
  <2>4. ~Collected(p) /\ AddedInputs(p) = {}
    BY <2>2, <2>3 DEF Collected, AddedInputs
  <2>. QED BY <2>1, <2>2, <2>3, <2>4, OwnShare DEF Informed, Returned, NoShare, IsLeaf
<1>2. TypeOK
  <2>1. LinksTypeOK(Messages)
    BY LinksTypeInit DEF Init
  <2>. QED BY <2>1, SumsFacts, SharesFacts DEF Init, TypeOK
<1>3. ASSUME NEW p \in Party PROVE LocalInv(p)
  BY <1>1, FS_EmptySet DEF LocalInv
<1>4. OrderInv
  BY <1>1, ChildIff DEF OrderInv
<1>5. ResultInv
  BY <1>1, ParentFacts, NAssumption DEF ResultInv, Init, Party
<1>6. Carried(outbox, wire, inbox, Due)
  <2>1. \A p, q \in Party : Due[p][q] = {}
    BY <1>1 DEF Due, UpDue, DownDue
  <2>. QED BY <2>1 DEF Init, LinksInit, Carried, Carries
<1>. QED BY <1>2, <1>3, <1>4, <1>5, <1>6 DEF TriplesInv


-----------------------------------------------------------------------------
(* The key generation over the first network: its proofs are those of      *)
(* RkgProofs.                                                              *)

Keys == INSTANCE RkgProofs WITH
  outbox <- setupOutbox, wire <- setupWire, torn <- setupTorn,
  reading <- setupReading, inbox <- setupInbox,
  state <- setupState, run <- setupRun

\* Setup and SetupInv are instances of modules that RkgProofs extends.
LEMMA SameCount ==
  ASSUME NEW S
  PROVE  /\ Setup!Cardinality(S) = Keys!Cardinality(S)
         /\ SetupInv!Cardinality(S) = Keys!Cardinality(S)
BY DEF Setup!Cardinality, SetupInv!Cardinality, Keys!Cardinality

LEMMA SameRun ==
  ASSUME NEW p \in Party
  PROVE  Setup!Run(p) <=> Keys!Run(p)
<1>1. \A q : Setup!Children(q) = Keys!Children(q) /\ Setup!Parent(q) = Keys!Parent(q)
  BY DEF Setup!Children, Keys!Children, Setup!Parent, Keys!Parent, Setup!Party,
         Keys!Party
<1>2. \A to, m : Setup!Queue(p, to, m) = Keys!Queue(p, to, m)
  BY DEF Setup!Queue, Keys!Queue, Setup!Party, Keys!Party
<1>3. \A f, g : Setup!Add(f, g) = Keys!Add(f, g) /\ Setup!Only(p) = Keys!Only(p)
  BY DEF Setup!Add, Keys!Add, Setup!Only, Keys!Only, Setup!Party, Keys!Party
<1>4. Setup!HasParent(p) <=> Keys!HasParent(p)
  BY <1>1 DEF Setup!HasParent, Keys!HasParent
<1>5. (Setup!Up(p) <=> Keys!Up(p)) /\ (\A k : Setup!Take(p, k) <=> Keys!Take(p, k))
  BY DEF Setup!Take, Keys!Take, Setup!Up, Keys!Up
<1>6. (Setup!IsLeaf(p) <=> Keys!IsLeaf(p)) /\ (Setup!Complete(p) <=> Keys!Complete(p))
  <2>1. Setup!Children(p) = Keys!Children(p)
    BY <1>1
  <2>. QED BY <2>1, SameCount DEF Setup!IsLeaf, Keys!IsLeaf, Setup!Complete, Keys!Complete
<1>7. /\ Setup!Seed = Keys!Seed
      /\ \A s : /\ Setup!Message1(s) = Keys!Message1(s) /\ Setup!Message2(s) = Keys!Message2(s)
                /\ Setup!Message3(s) = Keys!Message3(s)
  BY DEF Setup!Seed, Keys!Seed, Setup!Message1, Keys!Message1, Setup!Message2,
         Keys!Message2, Setup!Message3, Keys!Message3
<1>8. /\ Setup!GenShareRoundOne(p) = Keys!GenShareRoundOne(p)
      /\ \A s : Setup!GenShareRoundTwo(p, s) = Keys!GenShareRoundTwo(p, s)
      /\ \A f, g : Setup!AggregateShares2(f, g) = Keys!AggregateShares2(f, g)
  BY <1>3 DEF Setup!GenShareRoundOne, Keys!GenShareRoundOne, Setup!GenShareRoundTwo,
         Keys!GenShareRoundTwo, Setup!AggregateShares2, Keys!AggregateShares2
<1>9. Setup!Start(p) <=> Keys!Start(p)
  BY <1>1, <1>2, <1>3, <1>4, <1>5, <1>6, <1>7, <1>8 DEF Setup!Start, Keys!Start
<1>10. Setup!HandleSeed(p) <=> Keys!HandleSeed(p)
  BY <1>1, <1>2, <1>3, <1>4, <1>5, <1>6, <1>7, <1>8 DEF Setup!HandleSeed,
         Keys!HandleSeed
<1>11. Setup!HandleShare1(p) <=> Keys!HandleShare1(p)
  BY <1>1, <1>2, <1>3, <1>4, <1>5, <1>6, <1>7, <1>8 DEF Setup!HandleShare1,
         Keys!HandleShare1
<1>12. Setup!HandleSum(p) <=> Keys!HandleSum(p)
  BY <1>1, <1>2, <1>3, <1>4, <1>5, <1>6, <1>7, <1>8 DEF Setup!HandleSum, Keys!HandleSum
<1>13. Setup!HandleShare2(p) <=> Keys!HandleShare2(p)
  BY <1>1, <1>2, <1>3, <1>4, <1>5, <1>6, <1>7, <1>8 DEF Setup!HandleShare2,
         Keys!HandleShare2
<1>. QED
  BY <1>9, <1>10, <1>11, <1>12, <1>13 DEF Setup!Run, Keys!Run

LEMMA SameInvariant == SetupInv!IInv <=> Keys!IInv
<1>1. SetupInv!Party = Keys!Party /\ SetupInv!Root = Keys!Root
  BY DEF SetupInv!Party, Keys!Party, SetupInv!Root, Keys!Root
<1>2. \A q : SetupInv!Children(q) = Keys!Children(q) /\ SetupInv!Parent(q) = Keys!Parent(q)
  BY <1>1 DEF SetupInv!Children, Keys!Children, SetupInv!Parent, Keys!Parent
<1>3. \A q : SetupInv!HasParent(q) <=> Keys!HasParent(q)
  BY <1>2 DEF SetupInv!HasParent, Keys!HasParent
<1>4. SetupInv!WaysUp = Keys!WaysUp
  BY <1>1, <1>2 DEF SetupInv!WaysUp, Keys!WaysUp
<1>5. SetupInv!Descent = Keys!Descent
  BY <1>1, <1>4 DEF SetupInv!Descent, Keys!Descent
<1>6. \A p, C : SetupInv!Part(p, C) = Keys!Part(p, C)
  BY <1>1, <1>5 DEF SetupInv!Part, Keys!Part
<1>7. \A p : SetupInv!Whole(p) = Keys!Whole(p)
  BY <1>2, <1>6 DEF SetupInv!Whole, Keys!Whole
<1>8. SetupInv!Sums = Keys!Sums /\ SetupInv!Zero = Keys!Zero /\ SetupInv!Everybody = Keys!Everybody
  BY <1>1 DEF SetupInv!Sums, Keys!Sums, SetupInv!Zero, Keys!Zero, SetupInv!Everybody,
         Keys!Everybody
<1>9. SetupInv!Shares2 = Keys!Shares2 /\ SetupInv!NoKey = Keys!NoKey
  BY <1>8 DEF SetupInv!Shares2, Keys!Shares2, SetupInv!NoKey, Keys!NoKey
<1>10. \A p, C : SetupInv!ShareOf(p, C) = Keys!ShareOf(p, C)
  BY <1>6, <1>8 DEF SetupInv!ShareOf, Keys!ShareOf
<1>11. /\ SetupInv!Seed = Keys!Seed
      /\ \A s : /\ SetupInv!Message1(s) = Keys!Message1(s) /\ SetupInv!Message2(s) = Keys!Message2(s)
                /\ SetupInv!Message3(s) = Keys!Message3(s)
  BY DEF SetupInv!Seed, Keys!Seed, SetupInv!Message1, Keys!Message1, SetupInv!Message2,
         Keys!Message2, SetupInv!Message3, Keys!Message3
<1>12. SetupInv!Messages = Keys!Messages
  BY <1>8, <1>9, <1>11 DEF SetupInv!Messages, Keys!Messages
<1>13. \A M : SetupInv!LinksTypeOK(M) <=> Keys!LinksTypeOK(M)
  BY <1>1 DEF SetupInv!LinksTypeOK, Keys!LinksTypeOK
<1>14. SetupInv!TypeOK <=> Keys!TypeOK
  BY <1>1, <1>8, <1>9, <1>12, <1>13 DEF SetupInv!TypeOK, Keys!TypeOK
<1>15. \A p : /\ SetupInv!Added1(p) = Keys!Added1(p) /\ SetupInv!Added2(p) = Keys!Added2(p)
             /\ (SetupInv!Seeded(p) <=> Keys!Seeded(p))
             /\ (SetupInv!Informed(p) <=> Keys!Informed(p))
             /\ (SetupInv!Returned(p) <=> Keys!Returned(p))
  BY <1>2 DEF SetupInv!Added1, Keys!Added1, SetupInv!Added2, Keys!Added2,
         SetupInv!Seeded, Keys!Seeded, SetupInv!Informed, Keys!Informed,
         SetupInv!Returned, Keys!Returned
<1>16. \A p : SetupInv!Summed(p) <=> Keys!Summed(p)
  BY <1>2, <1>15 DEF SetupInv!Summed, Keys!Summed
<1>17. \A p, q : SetupInv!UpDue(p, q) = Keys!UpDue(p, q) /\ SetupInv!DownDue(p, q) = Keys!DownDue(p, q)
  BY <1>2, <1>7, <1>8, <1>10, <1>11, <1>15, <1>16 DEF SetupInv!UpDue, Keys!UpDue,
         SetupInv!DownDue, Keys!DownDue
<1>18. SetupInv!Due = Keys!Due
  BY <1>1, <1>2, <1>3, <1>17 DEF SetupInv!Due, Keys!Due
<1>19. \A p : SetupInv!LocalInv(p) <=> Keys!LocalInv(p)
  BY <1>1, <1>2, <1>6, <1>8, <1>10, <1>15, <1>16, SameCount DEF SetupInv!LocalInv, Keys!LocalInv
<1>20. SetupInv!OrderInv <=> Keys!OrderInv
  BY <1>1, <1>2, <1>15, <1>16 DEF SetupInv!OrderInv, Keys!OrderInv
<1>21. SetupInv!KeyInv <=> Keys!KeyInv
  BY <1>1, <1>2, <1>8, <1>9, <1>10, <1>15 DEF SetupInv!KeyInv, Keys!KeyInv
<1>22. \A out, wir, inb, due : SetupInv!Carries(out, wir, inb, due) <=> Keys!Carries(out, wir, inb, due)
  BY DEF SetupInv!Carries, Keys!Carries, SetupInv!Holds, Keys!Holds
<1>23. \A out, wir, inb, due : SetupInv!Carried(out, wir, inb, due) <=> Keys!Carried(out, wir, inb, due)
  BY <1>1, <1>22 DEF SetupInv!Carried, Keys!Carried
<1>. QED
  BY <1>1, <1>14, <1>18, <1>19, <1>20, <1>21, <1>23 DEF SetupInv!IInv, Keys!IInv


LEMMA SamePrimed == (SetupInv!IInv)' <=> (Keys!IInv)'
BY SameInvariant, PTL

LEMMA SameParty == Keys!Party = Party /\ Keys!Root = Root /\ Setup!Party = Party
BY DEF Keys!Party, Party, Keys!Root, Root, Setup!Party

LEMMA SetupTypes ==
  ASSUME SetupInv!IInv
  PROVE  /\ setupRun \in [Party -> {"starting", "listening", "returned"}]
         /\ proc \in [Party -> {"up", "exited", "panicked", "stopped"}]
         /\ setupTorn \in [Party -> [Party -> BOOLEAN]]
BY SameInvariant, SameParty DEF Keys!IInv, Keys!TypeOK, Keys!LinksTypeOK

LEMMA SetupRunStep ==
  ASSUME SetupInv!IInv, NEW p \in Party, Setup!Run(p)
  PROVE  /\ (SetupInv!IInv)'
         /\ proc' = proc /\ setupTorn' = setupTorn
         /\ \A q \in Party : setupRun[q] = "returned" => setupRun'[q] = "returned"
<1>1. Keys!IInv /\ p \in Keys!Party /\ Keys!Run(p)
  BY SameInvariant, SameParty, SameRun
<1>2. (Keys!IInv)'
  BY <1>1, Keys!RunKept, DeadlinesAssumption, ChanCapAssumption,
     BranchingAssumption, NAssumption
<1>3. /\ proc' = proc /\ setupTorn' = setupTorn
      /\ \A q \in Party : setupRun[q] = "returned" => setupRun'[q] = "returned"
  BY SetupTypes DEF Setup!Run, Setup!Start, Setup!HandleSeed, Setup!HandleShare1,
                    Setup!HandleSum, Setup!HandleShare2, Setup!Take
<1>. QED BY <1>2, <1>3, SamePrimed

LEMMA SetupFlowStep ==
  ASSUME SetupInv!IInv, NEW p \in Party, Setup!Flow(p), UNCHANGED setupProtocol
  PROVE  (SetupInv!IInv)' /\ proc' = proc /\ setupTorn' = setupTorn
<1>1. Keys!IInv /\ p \in Keys!Party
  BY SameInvariant, SameParty
<1>2. Keys!Flow(p)
  BY DEF Setup!Flow, Keys!Flow, Setup!Send, Keys!Send, Setup!Receive, Keys!Receive,
         Setup!ReceiveEOF, Keys!ReceiveEOF, Setup!Up, Keys!Up, Setup!Binds, Keys!Binds,
         Setup!Children, Keys!Children, Setup!Parent, Keys!Parent, Setup!HasParent, Keys!HasParent,
         Setup!Party, Keys!Party
<1>3. UNCHANGED Keys!protocol
  BY DEF setupProtocol, Keys!protocol
<1>4. (Keys!IInv)'
  BY <1>1, <1>2, <1>3, Keys!FlowStep, DeadlinesAssumption, ChanCapAssumption,
     BranchingAssumption, NAssumption
<1>5. proc' = proc /\ setupTorn' = setupTorn
  BY DEF Setup!Flow, Setup!Send, Setup!Receive, Setup!ReceiveEOF
<1>. QED BY <1>4, <1>5, SamePrimed

LEMMA SetupEndStep ==
  ASSUME SetupInv!IInv, NEW p \in Party, NEW how \in {"exited", "panicked", "stopped"},
         Setup!End(p, how), UNCHANGED setupProtocol
  PROVE  (SetupInv!IInv)'
<1>1. Keys!IInv /\ p \in Keys!Party
  BY SameInvariant, SameParty
<1>2. Keys!End(p, how)
  BY DEF Setup!End, Keys!End, Setup!Binds, Keys!Binds, Setup!Children, Keys!Children,
         Setup!Parent, Keys!Parent, Setup!HasParent, Keys!HasParent, Setup!Party, Keys!Party
<1>3. UNCHANGED Keys!protocol
  BY DEF setupProtocol, Keys!protocol
<1>4. (Keys!IInv)'
  BY <1>1, <1>2, <1>3, Keys!EndStep, DeadlinesAssumption, ChanCapAssumption,
     BranchingAssumption, NAssumption
<1>. QED BY <1>4, SamePrimed

LEMMA SetupRestStep ==
  ASSUME SetupInv!IInv, UNCHANGED setup,
         proc' \in [Party -> {"up", "exited", "panicked", "stopped"}]
  PROVE  (SetupInv!IInv)'
<1>1. Keys!IInv /\ proc' \in [Keys!Party -> {"up", "exited", "panicked", "stopped"}]
  BY SameInvariant, SameParty
<1>2. UNCHANGED <<setupOutbox, setupWire, setupTorn, setupReading, setupInbox, Keys!protocol>>
  BY DEF setup, setupProtocol, Keys!protocol
<1>3. (Keys!IInv)'
  BY <1>1, <1>2, Keys!RestStep, DeadlinesAssumption, ChanCapAssumption,
     BranchingAssumption, NAssumption
<1>. QED BY <1>3, SamePrimed

\* When all have returned from the key generation, it has left nothing behind.
LEMMA SetupOver ==
  ASSUME SetupInv!IInv, \A p \in Party : setupRun[p] = "returned"
  PROVE  /\ rlk # Setup!NoKey /\ Setup!KeyExact
         /\ \A p, q \in Party : setupOutbox[p][q] = <<>> /\ setupWire[p][q] = <<>>
         /\ \A p \in Party : setupInbox[p] = <<>>
<1>1. Keys!IInv /\ (\A p \in Party : Keys!Returned(p)) /\ Root \in Party
  BY SameInvariant, ParentFacts, NAssumption DEF Keys!Returned, Party, Root
<1>2. \A p \in Party : /\ setupInbox[p] = <<>>
                       /\ \A q \in Party : setupWire[q][p] = <<>> /\ setupOutbox[q][p] = <<>>
  BY <1>1, SameParty, Keys!NothingUnderWay, DeadlinesAssumption, ChanCapAssumption,
     BranchingAssumption, NAssumption
<1>3. rlk # Keys!NoKey /\ Keys!KeyExact
  BY <1>1, SameParty, Keys!KeyAfterReturn, Keys!KeyOfInvariant, DeadlinesAssumption, ChanCapAssumption,
     BranchingAssumption, NAssumption
<1>4. Setup!NoKey = Keys!NoKey /\ (Setup!KeyExact <=> Keys!KeyExact)
  BY DEF Setup!NoKey, Keys!NoKey, Setup!KeyExact, Keys!KeyExact, Setup!Zero, Keys!Zero,
         Setup!Everybody, Keys!Everybody, Setup!Party, Keys!Party
<1>. QED BY <1>2, <1>3, <1>4


LEMMA ClientInitHolds == ClientInit => IInv
<1>. SUFFICES ASSUME ClientInit PROVE IInv
  OBVIOUS
<1>1. SetupInv!IInv
  <2>1. /\ \A p : Setup!Parent(p) = Keys!Parent(p)
        /\ Setup!Party = Keys!Party
    BY DEF Setup!Parent, Keys!Parent, Setup!Party, Keys!Party
  <2>2. /\ \A p : Setup!Children(p) = Keys!Children(p)
        /\ \A p : Setup!HasParent(p) <=> Keys!HasParent(p)
    BY <2>1 DEF Setup!Children, Keys!Children, Setup!HasParent, Keys!HasParent
  <2>3. Setup!LinksInit <=> Keys!LinksInit
    BY <2>1, <2>2 DEF Setup!LinksInit, Keys!LinksInit, Setup!Binds, Keys!Binds
  <2>4. Setup!Zero = Keys!Zero /\ Setup!NoKey = Keys!NoKey
    BY <2>1 DEF Setup!Zero, Keys!Zero, Setup!NoKey, Keys!NoKey
  <2>5. Keys!Init
    BY <2>1, <2>2, <2>3, <2>4 DEF ClientInit, Setup!Init, Keys!Init
  <2>6. Keys!IInv
    BY <2>5, Keys!InitHolds, DeadlinesAssumption, ChanCapAssumption, BranchingAssumption, NAssumption
  <2>. QED BY <2>6, SameInvariant
<1>2. TriplesInv
  BY TriplesInit DEF ClientInit
<1>3. \A p \in Party : ~Returned(p) /\ proc[p] = "up" /\ phase[p] = "setup"
  BY DEF ClientInit, Init, LinksInit, Returned
<1>4. PhaseInv
  BY <1>3 DEF ClientInit, PhaseInv
<1>5. EndInv
  <2>1. Root \in Party
    BY NAssumption DEF Root, Party
  <2>. QED BY <1>3, <2>1 DEF EndInv
<1>6. Orderly
  <2>1. Setup!LinksInit /\ LinksInit
    BY DEF ClientInit, Init, Setup!Init
  <2>. QED BY <1>3, <2>1, SameParty DEF Orderly, LinksInit, Setup!LinksInit
<1>. QED BY <1>1, <1>2, <1>4, <1>5, <1>6 DEF IInv

-----------------------------------------------------------------------------
(* What a party leaves behind when it has returned.                        *)

LEMMA RootLast ==
  ASSUME TriplesInv, Returned(Root), NEW q \in Party
  PROVE  Returned(q)
<1>. DEFINE S == {p \in Party : Returned(p)}
<1>1. Root \in Party
  BY NAssumption DEF Root, Party
<1>2. ASSUME NEW p \in S, NEW c \in Children(p) PROVE c \in S
  BY ChildIff DEF TriplesInv, LocalInv, OrderInv
<1>3. S = Party
  BY <1>1, <1>2, DownFromRoot
<1>. QED BY <1>3

LEMMA WiresAreDue ==
  ASSUME Carried(outbox, wire, inbox, Due), NEW p \in Party, NEW q \in Party
  PROVE  /\ Due[q][p] = {} => wire[q][p] = <<>> /\ outbox[q][p] = <<>>
         /\ \A i \in DOMAIN wire[q][p] : wire[q][p][i] \in Due[q][p]
<1>1. Carries(outbox[q][p], wire[q][p], inbox[p], Due[q][p])
  BY DEF Carried
<1>2. CASE wire[q][p] = <<>>
  BY <1>1, <1>2 DEF Carries
<1>3. ASSUME NEW m, Due[q][p] = {m}, wire[q][p] = <<m>>
      PROVE  \A i \in DOMAIN wire[q][p] : wire[q][p][i] \in Due[q][p]
  BY <1>3
<1>. QED BY <1>1, <1>2, <1>3 DEF Carries

\* No message is on its way to a party that has its triples.
LEMMA NothingUnderWay ==
  ASSUME TriplesInv, NEW p \in Party, Returned(p), NEW q \in Party
  PROVE  wire[q][p] = <<>> /\ outbox[q][p] = <<>>
<1>0. Progress /\ Carried(outbox, wire, inbox, Due) /\ TypeOK
  BY DEF TriplesInv, Progress
<1>1. Due[q][p] = {}
  <2>1. CASE q \in Children(p)
    <3>1. Informed(p) /\ Collected(p) /\ share[p].keys[q] = 1
      BY <1>0, <2>1, ProgressFacts DEF Progress, LocalInv
    <3>2. enc[p][q] = 1
      BY <2>1, <3>1 DEF Collected
    <3>. QED BY <2>1, <3>1, <3>2, Idle
  <2>2. CASE p \in Children(q)
    <3>1. DownDue(q, p) = {}
      BY <1>0, ProgressFacts DEF DownDue
    <3>. QED BY <2>2, <3>1, DueCases
  <2>3. CASE q \notin Children(p) /\ p \notin Children(q)
    BY <2>3, DueCases
  <2>. QED BY <2>1, <2>2, <2>3
<1>. QED BY <1>0, <1>1, WiresAreDue

-----------------------------------------------------------------------------
(* The ends of processes.                                                  *)

\* While nobody has panicked, a party that has ended has its triples.
LEMMA EndedReturned ==
  ASSUME IInv, Orderly, NEW p \in Party, ~Up(p)
  PROVE  /\ Returned(p)
         /\ \A q \in Party : setupRun[q] = "returned"
<1>0. EndInv /\ PhaseInv /\ TriplesInv /\ SetupInv!IInv
  BY DEF IInv
<1>1. Root \in Party
  BY NAssumption DEF Root, Party
<1>2. \A q \in Party : proc[q] \in {"up", "exited", "panicked", "stopped"} /\ proc[q] # "panicked"
  BY <1>0, SetupTypes DEF Orderly
<1>3. ASSUME proc[p] = "stopped" PROVE Returned(p)
  <2>1. ~Up(Root) /\ proc[Root] # "stopped"
    BY <1>0, <1>3 DEF EndInv
  <2>2. proc[Root] = "exited"
    BY <1>1, <1>2, <2>1 DEF Up
  <2>3. Returned(Root)
    BY <1>0, <1>1, <2>2 DEF EndInv
  <2>. QED BY <1>0, <2>3, RootLast
<1>4. Returned(p)
  BY <1>0, <1>2, <1>3 DEF EndInv, Up
<1>. QED BY <1>0, <1>4 DEF PhaseInv

\* Without lost messages and deadlines no goroutine of either network fails.
LEMMA NoFailure ==
  ASSUME IInv, Orderly, ~DeadlinesFire, NEW p \in Party
  PROVE  ~Setup!Failures(p) /\ ~Failures(p)
<1>0. TriplesInv /\ SetupInv!IInv
  BY DEF IInv
<1>1. ASSUME NEW q \in Binds(p) PROVE q \in Party
  BY <1>1, ChildIff, ParentFacts DEF Binds
<1>2. Setup!Binds(p) = Binds(p)
  BY DEF Setup!Binds, Binds, Setup!Children, Children, Setup!HasParent, HasParent,
         Setup!Parent, Parent, Setup!Party, Party
<1>3. ASSUME NEW q \in Binds(p) PROVE ~ReadFails(p, q) /\ ~WriteFails(p, q)
  <2>1. CASE Up(q)
    BY <2>1 DEF ReadFails, WriteFails
  <2>2. CASE ~Up(q)
    <3>1. Returned(q) /\ ~torn[q][p]
      BY <1>1, <2>2, EndedReturned DEF Orderly
    <3>2. wire[p][q] = <<>> /\ outbox[p][q] = <<>>
      BY <1>0, <1>1, <3>1, NothingUnderWay
    <3>. QED BY <3>1, <3>2 DEF ReadFails, WriteFails
  <2>. QED BY <2>1, <2>2
<1>4. ASSUME NEW q \in Binds(p) PROVE ~Setup!ReadFails(p, q) /\ ~Setup!WriteFails(p, q)
  <2>1. CASE Up(q)
    BY <2>1 DEF Setup!ReadFails, Setup!WriteFails, Setup!Up, Up
  <2>2. CASE ~Up(q)
    <3>1. ~setupTorn[q][p]
      BY <1>1 DEF Orderly
    <3>2. setupWire[p][q] = <<>> /\ setupOutbox[p][q] = <<>>
      BY <1>0, <1>1, <2>2, EndedReturned, SetupOver
    <3>. QED BY <3>1, <3>2 DEF Setup!ReadFails, Setup!WriteFails
  <2>. QED BY <2>1, <2>2
<1>. QED BY <1>2, <1>3, <1>4 DEF Failures, Setup!Failures


-----------------------------------------------------------------------------
(* The steps of the client.                                                *)

Living == PhaseInv /\ EndInv /\ (DeadlinesFire \/ LostMessage \/ Orderly)

LEMMA ReturnsStay ==
  ASSUME TriplesInv, NEW p \in Party, Run(p)
  PROVE  \A q \in Party : /\ Returned(q) => Returned(q)'
                          /\ q # p => (Returned(q)' => Returned(q)) /\ outbox'[q] = outbox[q]
<1>1. run \in [Party -> {"starting", "listening", "returned"}] /\ DOMAIN outbox = Party
  BY DEF TriplesInv, TypeOK, LinksTypeOK
<1>2. /\ run' = run \/ \E r : run' = [run EXCEPT ![p] = r]
      /\ outbox' = outbox \/ \E o : outbox' = [outbox EXCEPT ![p] = o]
      /\ run[p] # "returned"
  BY DEF Run, SendInputs, HandleInputs, HandleProduct, HandleShare, Take
<1>. QED BY <1>1, <1>2 DEF Returned

\* A step of p during which no process ends.
LEMMA LivingKept ==
  ASSUME IInv, NEW p \in Party, Up(p), PhaseInv',
         proc' = proc, torn' = torn, setupTorn' = setupTorn,
         \A q \in Party : /\ Returned(q) => Returned(q)'
                          /\ q # p => outbox'[q] = outbox[q]
  PROVE  Living'
<1>1. EndInv'
  BY DEF IInv, EndInv, Up
<1>2. LostMessage => LostMessage'
  BY DEF LostMessage, Up
<1>3. Orderly => Orderly'
  BY DEF Orderly
<1>. QED BY <1>1, <1>2, <1>3 DEF IInv, Living

LEMMA FromLiving ==
  ASSUME (SetupInv!IInv)', TriplesInv', Living'
  PROVE  IInv'
BY DEF IInv, Living

LEMMA RunSetupStep ==
  ASSUME IInv, NEW p \in Party, RunSetup(p)
  PROVE  IInv'
<1>1. SetupInv!IInv /\ TriplesInv /\ PhaseInv
  BY DEF IInv
<1>2. Setup!Run(p) /\ UNCHANGED triples /\ phase' = phase
  BY DEF RunSetup
<1>3. /\ (SetupInv!IInv)' /\ proc' = proc /\ setupTorn' = setupTorn
      /\ \A q \in Party : setupRun[q] = "returned" => setupRun'[q] = "returned"
  BY <1>1, <1>2, SetupRunStep
<1>4. TriplesInv'
  BY <1>1, <1>2, <1>3, SetupTypes, RestStep
<1>5. run' = run /\ outbox' = outbox /\ torn' = torn
  BY <1>2 DEF triples, protocol
<1>6. PhaseInv'
  BY <1>1, <1>2, <1>3, <1>5 DEF PhaseInv, Returned
<1>7. Up(p)
  BY <1>2 DEF Setup!Run, Setup!Start, Setup!HandleSeed, Setup!HandleShare1,
              Setup!HandleSum, Setup!HandleShare2, Setup!Take, Setup!Up, Up
<1>8. Living'
  BY <1>3, <1>5, <1>6, <1>7, LivingKept DEF Returned
<1>. QED BY <1>3, <1>4, <1>8, FromLiving

LEMMA FlowSetupStep ==
  ASSUME IInv, NEW p \in Party, FlowSetup(p)
  PROVE  IInv'
<1>1. SetupInv!IInv /\ TriplesInv /\ PhaseInv
  BY DEF IInv
<1>2. Setup!Flow(p) /\ UNCHANGED setupProtocol /\ UNCHANGED triples /\ phase' = phase
  BY DEF FlowSetup
<1>3. (SetupInv!IInv)' /\ proc' = proc /\ setupTorn' = setupTorn
  BY <1>1, <1>2, SetupFlowStep
<1>4. TriplesInv'
  BY <1>1, <1>2, <1>3, SetupTypes, RestStep
<1>5. run' = run /\ outbox' = outbox /\ torn' = torn /\ setupRun' = setupRun
  BY <1>2 DEF triples, protocol, setupProtocol
<1>6. PhaseInv'
  BY <1>1, <1>2, <1>5 DEF PhaseInv, Returned
<1>7. Up(p)
  BY <1>2 DEF Setup!Flow, Setup!Send, Setup!Receive, Setup!ReceiveEOF, Setup!Up, Up
<1>8. Living'
  BY <1>3, <1>5, <1>6, <1>7, LivingKept DEF Returned
<1>. QED BY <1>3, <1>4, <1>8, FromLiving

LEMMA ConnectStep ==
  ASSUME IInv, NEW p \in Party, ConnectAgain(p) \/ Bind(p)
  PROVE  IInv'
<1>1. SetupInv!IInv /\ TriplesInv /\ PhaseInv
  BY DEF IInv
<1>2. Up(p) /\ UNCHANGED setup /\ UNCHANGED triples /\ proc' = proc
  BY DEF ConnectAgain, Bind
<1>3. (SetupInv!IInv)' /\ TriplesInv'
  BY <1>1, <1>2, SetupTypes, SetupRestStep, RestStep
<1>4. /\ run' = run /\ outbox' = outbox /\ torn' = torn /\ setupRun' = setupRun
      /\ setupTorn' = setupTorn
  BY <1>2 DEF triples, protocol, setup, setupProtocol
<1>5. PhaseInv'
  BY <1>1, <1>4 DEF ConnectAgain, Bind, PhaseInv, Returned
<1>6. Living'
  BY <1>2, <1>4, <1>5, LivingKept DEF Returned
<1>. QED BY <1>3, <1>6, FromLiving

LEMMA RunTriplesStep ==
  ASSUME IInv, NEW p \in Party, RunTriples(p)
  PROVE  IInv'
<1>1. SetupInv!IInv /\ TriplesInv /\ PhaseInv
  BY DEF IInv
<1>2. Run(p) /\ UNCHANGED setup /\ phase' = phase /\ phase[p] = "triples"
  BY DEF RunTriples
<1>3. TriplesInv'
  BY <1>1, <1>2, RunKept
<1>4. Up(p) /\ proc' = proc /\ torn' = torn
  BY <1>2 DEF Run, SendInputs, HandleInputs, HandleProduct, HandleShare, Take
<1>5. (SetupInv!IInv)'
  BY <1>1, <1>2, <1>4, SetupTypes, SetupRestStep
<1>6. setupRun' = setupRun /\ setupTorn' = setupTorn
  BY <1>2 DEF setup, setupProtocol
<1>7. \A q \in Party : /\ Returned(q) => Returned(q)'
                       /\ q # p => (Returned(q)' => Returned(q)) /\ outbox'[q] = outbox[q]
  BY <1>1, <1>2, ReturnsStay
<1>8. PhaseInv'
  BY <1>1, <1>2, <1>6, <1>7 DEF PhaseInv
<1>9. Living'
  BY <1>4, <1>6, <1>7, <1>8, LivingKept
<1>. QED BY <1>3, <1>5, <1>9, FromLiving

LEMMA FlowTriplesStep ==
  ASSUME IInv, NEW p \in Party, FlowTriples(p)
  PROVE  IInv'
<1>1. SetupInv!IInv /\ TriplesInv /\ PhaseInv
  BY DEF IInv
<1>2. Flow(p) /\ UNCHANGED setup /\ UNCHANGED protocol /\ phase' = phase
  BY DEF FlowTriples
<1>3. TriplesInv' /\ proc' = proc
  BY <1>1, <1>2, FlowStep
<1>4. (SetupInv!IInv)'
  BY <1>1, <1>2, <1>3, SetupTypes, SetupRestStep
<1>5. setupRun' = setupRun /\ setupTorn' = setupTorn /\ run' = run
  BY <1>2 DEF setup, setupProtocol, protocol
<1>6. Up(p) /\ torn' = torn /\ \A q \in Party \ {p} : outbox'[q] = outbox[q]
  <2>1. DOMAIN outbox = Party
    BY <1>1 DEF TriplesInv, TypeOK, LinksTypeOK
  <2>. QED BY <1>2, <2>1 DEF Flow, Send, Receive, ReceiveEOF
<1>7. PhaseInv'
  BY <1>1, <1>2, <1>5 DEF PhaseInv, Returned
<1>8. Living'
  BY <1>3, <1>5, <1>6, <1>7, LivingKept DEF Returned
<1>. QED BY <1>3, <1>4, <1>8, FromLiving


\* The end of a process is its end in both networks.
LEMMA EndBoth ==
  ASSUME IInv, NEW p \in Party, Up(p), NEW how \in {"exited", "panicked", "stopped"},
         End(p, how), Setup!End(p, how), UNCHANGED others, EndInv',
         DeadlinesFire \/ LostMessage' \/ Orderly'
  PROVE  IInv'
<1>1. SetupInv!IInv /\ TriplesInv /\ PhaseInv
  BY DEF IInv
<1>2. UNCHANGED setupProtocol /\ UNCHANGED protocol /\ phase' = phase
  BY DEF others
<1>3. (SetupInv!IInv)' /\ TriplesInv'
  BY <1>1, <1>2, SetupEndStep, EndStep
<1>4. PhaseInv'
  BY <1>1, <1>2 DEF PhaseInv, Returned, setupProtocol, protocol
<1>. QED BY <1>3, <1>4 DEF IInv

\* A message lost stays lost, whoever ends.
LEMMA LossStays ==
  ASSUME IInv, NEW p \in Party, Up(p), NEW how, End(p, how), LostMessage
  PROVE  LostMessage'
BY DEF LostMessage, End, Up, IInv, TriplesInv, TypeOK, LinksTypeOK

\* A process without messages in its channels ends in an orderly way.
LEMMA OrderlyEnd ==
  ASSUME IInv, Orderly, NEW p \in Party, NEW how \in {"exited", "stopped"},
         End(p, how), Setup!End(p, how),
         \A q \in Party : outbox[p][q] = <<>> /\ setupOutbox[p][q] = <<>>
  PROVE  Orderly'
<1>1. /\ proc \in [Party -> {"up", "exited", "panicked", "stopped"}]
      /\ setupTorn \in [Party -> [Party -> BOOLEAN]]
      /\ torn \in [Party -> [Party -> BOOLEAN]]
  BY SetupTypes DEF IInv, TriplesInv, TypeOK, LinksTypeOK
<1>2. proc' = [proc EXCEPT ![p] = how]
  BY DEF End
<1>3. torn' = [torn EXCEPT ![p] = [q \in Party |-> FALSE]]
  <2>1. ASSUME NEW q \in Binds(p) PROVE q \in Party
    BY <2>1, ChildIff, ParentFacts DEF Binds
  <2>2. {q \in Binds(p) : outbox[p][q] # <<>>} = {}
    BY <2>1
  <2>3. PICK cut \in SUBSET {q \in Binds(p) : outbox[p][q] # <<>>} :
           torn' = [torn EXCEPT ![p] = [q \in Party |-> q \in cut]]
    BY DEF End
  <2>4. [q \in Party |-> q \in cut] = [q \in Party |-> FALSE]
    <3>1. \A q \in Party : (q \in cut) = FALSE
      BY <2>2
    <3>. QED BY <3>1, Zenon
  <2>. QED BY <2>3, <2>4
<1>4. setupTorn' = [setupTorn EXCEPT ![p] = [q \in Party |-> FALSE]]
  <2>1. ASSUME NEW q \in Setup!Binds(p) PROVE q \in Party
    BY <2>1, SameParty, ChildIff, ParentFacts DEF Setup!Binds, Setup!Children, Setup!HasParent,
       Setup!Parent, Parent, HasParent, Children
  <2>2. {q \in Setup!Binds(p) : setupOutbox[p][q] # <<>>} = {}
    BY <2>1
  <2>3. PICK cut \in SUBSET {q \in Setup!Binds(p) : setupOutbox[p][q] # <<>>} :
           setupTorn' = [setupTorn EXCEPT ![p] = [q \in Party |-> q \in cut]]
    BY SameParty DEF Setup!End
  <2>4. [q \in Party |-> q \in cut] = [q \in Party |-> FALSE]
    <3>1. \A q \in Party : (q \in cut) = FALSE
      BY <2>2
    <3>. QED BY <3>1, Zenon
  <2>. QED BY <2>3, <2>4
<1>. QED BY <1>1, <1>2, <1>3, <1>4 DEF Orderly

LEMMA FailStep ==
  ASSUME IInv, NEW p \in Party, FailSetup(p) \/ FailTriples(p)
  PROVE  IInv'
<1>1. (Setup!Failures(p) \/ Failures(p)) /\ UNCHANGED others
  BY DEF FailSetup, FailTriples
<1>2. Up(p) /\ End(p, "panicked") /\ Setup!End(p, "panicked")
  BY DEF FailSetup, FailTriples, Failures, ReadFails, WriteFails,
         Setup!Failures, Setup!ReadFails, Setup!WriteFails, Setup!Up, Up
<1>3. EndInv'
  <2>1. proc' = [proc EXCEPT ![p] = "panicked"] /\ UNCHANGED protocol
    BY <1>1, <1>2 DEF End, others
  <2>2. proc \in [Party -> {"up", "exited", "panicked", "stopped"}]
    BY SetupTypes DEF IInv
  <2>3. Root \in Party
    BY NAssumption DEF Root, Party
  <2>. QED BY <2>1, <2>2, <2>3 DEF IInv, EndInv, Up, Returned, protocol
<1>4. DeadlinesFire \/ LostMessage
  BY <1>1, NoFailure DEF IInv
<1>5. DeadlinesFire \/ LostMessage'
  BY <1>2, <1>4, LossStays
<1>. QED BY <1>1, <1>2, <1>3, <1>5, EndBoth

LEMMA ExitStep ==
  ASSUME IInv, NEW p \in Party, Exit(p)
  PROVE  IInv'
<1>1. Up(p) /\ Returned(p) /\ End(p, "exited") /\ Setup!End(p, "exited") /\ UNCHANGED others
  BY DEF Exit, Returned
<1>2. proc' = [proc EXCEPT ![p] = "exited"] /\ UNCHANGED protocol /\ outbox' = outbox
  BY <1>1 DEF End, others
<1>3. /\ proc \in [Party -> {"up", "exited", "panicked", "stopped"}]
      /\ SetupInv!IInv
  BY SetupTypes DEF IInv
<1>4. EndInv'
  <2>1. Root \in Party
    BY NAssumption DEF Root, Party
  <2>. QED BY <1>1, <1>2, <1>3, <2>1 DEF IInv, EndInv, Up, Returned, protocol
<1>5. ASSUME Orderly PROVE LostMessage' \/ Orderly'
  <2>1. CASE \A q \in Party : outbox[p][q] = <<>>
    <3>1. \A q \in Party : setupRun[q] = "returned"
      BY <1>1 DEF IInv, PhaseInv
    <3>2. \A q \in Party : setupOutbox[p][q] = <<>>
      BY <1>3, <3>1, SetupOver
    <3>. QED BY <1>1, <1>5, <2>1, <3>2, OrderlyEnd
  <2>2. CASE \E q \in Party : outbox[p][q] # <<>>
    BY <1>2, <1>3, <2>2 DEF LostMessage
  <2>. QED BY <2>1, <2>2
<1>6. DeadlinesFire \/ LostMessage' \/ Orderly'
  BY <1>1, <1>5, LossStays DEF IInv
<1>. QED BY <1>1, <1>4, <1>6, EndBoth

LEMMA StopStep ==
  ASSUME IInv, NEW p \in Party, Stop(p)
  PROVE  IInv'
<1>1. /\ ~Up(Root) /\ Up(p)
      /\ End(p, "stopped") /\ Setup!End(p, "stopped") /\ UNCHANGED others
  BY DEF Stop
<1>2. proc' = [proc EXCEPT ![p] = "stopped"] /\ UNCHANGED protocol /\ outbox' = outbox
  BY <1>1 DEF End, others
<1>3. /\ proc \in [Party -> {"up", "exited", "panicked", "stopped"}]
      /\ SetupInv!IInv /\ TriplesInv /\ Root \in Party
  BY SetupTypes, NAssumption DEF IInv, Root, Party
<1>4. EndInv'
  BY <1>1, <1>2, <1>3 DEF IInv, EndInv, Up, Returned, protocol
<1>5. ASSUME Orderly PROVE Orderly'
  <2>1. Returned(Root) /\ \A q \in Party : setupRun[q] = "returned"
    BY <1>1, <1>3, <1>5, EndedReturned
  <2>2. \A q \in Party : Returned(q)
    BY <1>3, <2>1, RootLast
  <2>3. \A q \in Party : outbox[p][q] = <<>> /\ setupOutbox[p][q] = <<>>
    BY <1>3, <2>1, <2>2, NothingUnderWay, SetupOver
  <2>. QED BY <1>1, <1>5, <2>3, OrderlyEnd
<1>6. DeadlinesFire \/ LostMessage' \/ Orderly'
  BY <1>1, <1>5, LossStays DEF IInv
<1>. QED BY <1>1, <1>4, <1>6, EndBoth

LEMMA StepKept == IInv /\ [ClientNext]_clientVars => IInv'
<1>1. CASE ClientNext
  BY <1>1, RunSetupStep, FlowSetupStep, ConnectStep, RunTriplesStep, FlowTriplesStep,
     FailStep, ExitStep, StopStep DEF ClientNext, ClientStep
<1>2. ASSUME IInv, UNCHANGED clientVars PROVE IInv'
  <2>1. UNCHANGED setup /\ UNCHANGED triples /\ proc' = proc /\ phase' = phase
    BY <1>2 DEF clientVars
  <2>2. (SetupInv!IInv)' /\ TriplesInv'
    BY <1>2, <2>1, SetupTypes, SetupRestStep, RestStep DEF IInv
  <2>3. run' = run /\ outbox' = outbox /\ torn' = torn /\ setupRun' = setupRun /\ setupTorn' = setupTorn
    BY <2>1 DEF triples, protocol, setup, setupProtocol
  <2>4. PhaseInv' /\ EndInv' /\ (LostMessage => LostMessage') /\ (Orderly => Orderly')
    BY <1>2, <2>1, <2>3 DEF IInv, PhaseInv, EndInv, LostMessage, Orderly, Returned, Up
  <2>. QED BY <1>2, <2>2, <2>4 DEF IInv
<1>. QED BY <1>1, <1>2

\* The inductive invariant holds in every state.
THEOREM Invariance == ClientSpec => []IInv
BY ClientInitHolds, StepKept, PTL DEF ClientSpec


-----------------------------------------------------------------------------
(* What it implies.                                                        *)

\* The variables of the triple generation keep their types: TypeOK.
THEOREM TypeCorrect == ClientSpec => []TypeOK
<1>1. IInv => TypeOK
  BY DEF IInv, TriplesInv
<1>. QED BY <1>1, Invariance, PTL

LEMMA ExactOfInvariant == IInv => TriplesExact
<1>1. Root \in Party
  BY NAssumption DEF Root, Party
<1>2. Whole(Root) = Everybody
  BY PartEnds DEF Everybody
<1>3. ShareOf(Root, Children(Root)) =
        [keys |-> Everybody, minus |-> [Everybody EXCEPT ![Root] = 0], of |-> {Everybody}]
  BY <1>2 DEF ShareOf, Whole
<1>. QED BY <1>3 DEF IInv, TriplesInv, ResultInv, TriplesExact, Returned

\* What the root keeps and what the others keep add up to the product of the
\* sums of all inputs: every input, every key and every subtracted share is in
\* it once, whoever panics, exits or is stopped meanwhile.
THEOREM TriplesAreExact == ClientSpec => []TriplesExact
BY Invariance, ExactOfInvariant, PTL

LEMMA FirstOfInvariant ==
  ASSUME IInv
  PROVE  OwnShareFirst
<1>0. Progress /\ Carried(outbox, wire, inbox, Due)
  BY DEF IInv, TriplesInv, Progress
<1>. SUFFICES ASSUME NEW p \in Party, NEW i \in DOMAIN inbox[p], inbox[p][i].Round = 2
              PROVE  /\ share[p].of # {}
                     /\ \A j \in DOMAIN inbox[p] : inbox[p][j].Round = 2
  BY DEF OwnShareFirst
<1>1. PICK r \in Party : inbox[p][i] \in Due[r][p]
  BY <1>0 DEF Carried
<1>2. r \in Children(p) /\ Returned(r)
  <2>1. CASE r \in Children(p)
    BY <1>1, <2>1, DueCases, UpMessage
  <2>2. CASE p \in Children(r)
    BY <1>1, <2>2, DueCases, DownMessage
  <2>. QED BY <1>1, <2>1, <2>2, DueCases
<1>3. Informed(p)
  BY <1>0, <1>2, ProgressFacts DEF Progress, OrderInv
<1>4. Collected(p)
  BY <1>0, <1>3, ProgressFacts
<1>5. ASSUME NEW q \in Party, NEW m \in Due[q][p] PROVE m.Round = 2
  <2>1. CASE q \in Children(p)
    <3>1. enc[p][q] = 1
      BY <1>4, <2>1 DEF Collected
    <3>. QED BY <2>1, <3>1, DueCases, UpMessage
  <2>2. CASE p \in Children(q)
    BY <1>3, <2>2, DueCases, DownMessage
  <2>. QED BY <2>1, <2>2, DueCases
<1>6. \A j \in DOMAIN inbox[p] : inbox[p][j].Round = 2
  BY <1>0, <1>5 DEF Carried
<1>. QED BY <1>3, <1>6 DEF Informed

\* genDecryptionShare never overwrites the share of a child: none is in the
\* channel of a party before its own share is computed.
THEOREM OwnShareIsFirst == ClientSpec => []OwnShareFirst
BY Invariance, FirstOfInvariant, PTL

LEMMA SetupOfInvariant == IInv => SetupDone
<1>1. ASSUME IInv, NEW p \in Party, phase[p] = "triples"
      PROVE  \A q \in Party : setupRun[q] = "returned"
  BY <1>1 DEF IInv, PhaseInv
<1>. QED BY <1>1, SetupOver DEF IInv, SetupDone

\* When the first party starts with its triples, the key is exact and the
\* first network silent, although its goroutines live on.
THEOREM SetupIsDone == ClientSpec => []SetupDone
BY Invariance, SetupOfInvariant, PTL

LEMMA StopOfInvariant == IInv => StopHarmless
<1>. SUFFICES ASSUME IInv, NEW p \in Party, proc[p] = "stopped", proc[Root] # "panicked",
                     NEW q \in Party
              PROVE  Returned(q)
  BY DEF StopHarmless, Returned
<1>1. EndInv /\ TriplesInv /\ Root \in Party
  BY NAssumption DEF IInv, Root, Party
<1>2. proc[Root] \in {"up", "exited", "panicked", "stopped"}
  BY <1>1, SetupTypes DEF IInv
<1>3. Returned(Root)
  BY <1>1, <1>2 DEF EndInv, Up
<1>. QED BY <1>1, <1>3, RootLast

\* docker stop ends no process that still has triples to generate, unless
\* party 0 has panicked.
THEOREM StopIsHarmless == ClientSpec => []StopHarmless
BY Invariance, StopOfInvariant, PTL

LEMMA PanicOfInvariant ==
  ASSUME ~DeadlinesFire, IInv
  PROVE  PanicOnlyAfterLoss
BY DEF IInv, Orderly, PanicOnlyAfterLoss

\* While no read reaches its deadline, a process panics only after a party has
\* exited with messages unsent.
THEOREM PanicsOnlyAfterLoss == ~DeadlinesFire => (ClientSpec => []PanicOnlyAfterLoss)
<1>1. ~DeadlinesFire /\ IInv => PanicOnlyAfterLoss
  BY PanicOfInvariant
<1>2. CASE ~DeadlinesFire
  <2>1. IInv => PanicOnlyAfterLoss
    BY <1>1, <1>2
  <2>. QED BY <2>1, Invariance, PTL
<1>. QED BY <1>2

LEMMA RoomOfInvariant ==
  ASSUME Branching <= ChanCap, IInv
  PROVE  NeverFull
<1>0. Progress /\ Carried(outbox, wire, inbox, Due) /\ LinksTypeOK(Messages)
  BY DEF IInv, TriplesInv, Progress, TypeOK
<1>1. ASSUME NEW q \in Party
      PROVE  LET F == {p \in Party : Due[p][q] # {}} IN IsFiniteSet(F) /\ Cardinality(F) <= ChanCap
  <2>. DEFINE F == {p \in Party : Due[p][q] # {}}
  <2>1. CASE F \subseteq Children(q)
    <3>1. IsFiniteSet(F) /\ Cardinality(F) <= Cardinality(Children(q)) /\ Cardinality(Children(q)) <= Branching
      BY <2>1, ChildrenFinite, FS_Subset
    <3>2. Cardinality(F) \in Nat /\ Cardinality(Children(q)) \in Nat
      BY <3>1, ChildrenFinite, FS_CardinalityType
    <3>. HIDE DEF F
    <3>3. Cardinality(F) <= ChanCap
      BY <3>1, <3>2, BranchingAssumption, ChanCapAssumption
    <3>. QED BY <3>1, <3>3 DEF F
  <2>2. ASSUME NEW a \in F, a \notin Children(q) PROVE F = {a}
    <3>1. q \in Children(a) /\ Informed(a) /\ ~Informed(q)
      BY <2>2, DueCases DEF DownDue
    <3>2. ASSUME NEW c \in Children(q) PROVE Due[c][q] = {}
      <4>1. c \in Party
        BY ChildIff
      <4>2. Collected(q) /\ ~Informed(c) /\ ~Returned(c)
        BY <1>0, <3>1, <4>1, ProgressFacts DEF Progress, OrderInv
      <4>. QED BY <4>1, <4>2, Idle DEF Collected
    <3>3. ASSUME NEW b \in F PROVE b = a
      BY <3>1, <3>2, <3>3, DueCases, ChildIff
    <3>. QED BY <3>3
  <2>3. ASSUME NEW a, F = {a} PROVE IsFiniteSet(F) /\ Cardinality(F) <= ChanCap
    <3>1. IsFiniteSet({a}) /\ Cardinality({a}) = 1
      BY FS_Singleton
    <3>2. 1 <= ChanCap
      BY ChanCapAssumption
    <3>. HIDE DEF F
    <3>. QED BY <2>3, <3>1, <3>2
  <2>. QED BY <2>1, <2>2, <2>3
<1>. QED BY <1>0, <1>1, NeverFullOf

\* With channels for as many messages as a node has children, no send of a
\* goroutine of the second network ever waits.
THEOREM NeverBlocks == Branching <= ChanCap => (ClientSpec => []NeverFull)
<1>1. Branching <= ChanCap /\ IInv => NeverFull
  BY RoomOfInvariant
<1>2. CASE Branching <= ChanCap
  <2>1. IInv => NeverFull
    BY <1>1, <1>2
  <2>. QED BY <2>1, Invariance, PTL
<1>. QED BY <1>2

=============================================================================
