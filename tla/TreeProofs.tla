----------------------------- MODULE TreeProofs -----------------------------
(***************************************************************************)
(* Lemmas about the tree of the parties and about the transport along it,  *)
(* for the proofs of the two tree protocols.                               *)
(***************************************************************************)
EXTENDS TreeInvariant, FiniteSetTheorems, WellFoundedInduction, TLAPS

LEMMA LeastNat ==
  ASSUME NEW S, S \subseteq Nat, S # {}
  PROVE  \E n \in S : \A m \in S : n <= m
<1>1. PICK n \in S : \A m \in S : ~(<<m, n>> \in OpToRel(<, Nat))
  BY NatLessThanWellFounded, WFMin
<1>2. \A m \in S : ~(m < n)
  BY <1>1 DEF OpToRel
<1>. QED BY <1>2

-----------------------------------------------------------------------------
(* The tree.                                                               *)

\* The quotient of a division.
LEMMA Quotient ==
  ASSUME NEW a \in Nat, NEW b \in Nat \ {0}
  PROVE  /\ a \div b \in Nat
         /\ a \div b <= a
         /\ \A q \in Nat : a \div b = q <=> q * b <= a /\ a < q * b + b
<1>1. a \div b \in Nat /\ (a \div b) * b <= a /\ a < (a \div b) * b + b
  OBVIOUS
<1>. QED BY <1>1

LEMMA ParentFacts ==
  ASSUME NEW c \in Party
  PROVE  /\ Parent(c) \in Party
         /\ Root \in Party
         /\ HasParent(c) <=> c # Root
         /\ c # Root => Parent(c) < c
         /\ Parent(Root) = Root
<1>1. CASE c = 0
  BY <1>1, NAssumption DEF Party, Parent, HasParent, Root
<1>2. CASE c # 0
  <2>1. (c - 1) \in Nat /\ c \in Nat
    BY <1>2, NAssumption DEF Party
  <2>2. (c - 1) \div Branching \in Nat /\ (c - 1) \div Branching <= c - 1
    BY <2>1, Quotient, BranchingAssumption
  <2>3. Parent(c) = (c - 1) \div Branching
    BY <1>2 DEF Parent
  <2>4. Parent(c) \in Nat /\ Parent(c) < c
    BY <2>1, <2>2, <2>3
  <2>. QED BY <1>2, <2>1, <2>4, NAssumption DEF Party, HasParent, Root, Parent
<1>. QED BY <1>1, <1>2

\* The children of a party are those whose parent it is.
LEMMA ChildIff ==
  ASSUME NEW p \in Party, NEW c
  PROVE  c \in Children(p) <=> c \in Party /\ HasParent(c) /\ Parent(c) = p
<1>. DEFINE b == p * Branching
<1>1. p \in Nat /\ b \in Nat /\ Branching \in Nat \ {0} /\ N \in Nat
  BY NAssumption, BranchingAssumption DEF Party
<1>2. c \in Children(p) <=> c \in Party /\ b + 1 <= c /\ c <= b + Branching
  <2>. HIDE DEF b
  <2>1. ASSUME c \in Children(p)
        PROVE  c \in Party /\ b + 1 <= c /\ c <= b + Branching
    <3>1. c \in Party /\ \E j \in 0 .. Branching - 1 : c = b + 1 + j
      BY <2>1 DEF Children, b
    <3>. QED BY <3>1, <1>1
  <2>2. ASSUME c \in Party, b + 1 <= c, c <= b + Branching
        PROVE  c \in Children(p)
    <3>. DEFINE j == c - b - 1
    <3>1. c \in Nat /\ j \in 0 .. Branching - 1 /\ c = b + 1 + j
      BY <2>2, <1>1 DEF Party
    <3>2. \A k \in 0 .. j : b + 1 + k \in Party
      BY <2>2, <1>1, <3>1 DEF Party
    <3>. HIDE DEF j
    <3>. QED BY <2>2, <3>1, <3>2 DEF Children, b
  <2>. QED BY <2>1, <2>2
<1>3. ASSUME c \in Party, c # 0
      PROVE  Parent(c) = p <=> b + 1 <= c /\ c <= b + Branching
  <2>1. c - 1 \in Nat /\ c \in Nat
    BY <1>3, <1>1 DEF Party
  <2>2. (c - 1) \div Branching = p <=> b <= c - 1 /\ c - 1 < b + Branching
    BY <2>1, <1>1, Quotient
  <2>. HIDE DEF b
  <2>. QED BY <1>1, <1>3, <2>1, <2>2 DEF Parent
<1>4. ASSUME c = 0 PROVE ~(b + 1 <= c)
  <2>. HIDE DEF b
  <2>. QED BY <1>1, <1>4
<1>. HIDE DEF b
<1>. QED BY <1>2, <1>3, <1>4, ParentFacts DEF Root

LEMMA ChildrenFinite ==
  ASSUME NEW p \in Party
  PROVE  /\ IsFiniteSet(Children(p))
         /\ IsFiniteSet(Party)
         /\ Cardinality(Children(p)) <= Branching
<1>1. IsFiniteSet(Party)
  BY FS_Interval, NAssumption DEF Party
<1>2. IsFiniteSet(Children(p))
  BY <1>1, FS_Subset DEF Children
<1>. DEFINE b == p * Branching
<1>3. Children(p) \subseteq b + 1 .. b + Branching
  <2>1. p \in Nat /\ b \in Nat /\ Branching \in Nat \ {0}
    BY NAssumption, BranchingAssumption DEF Party
  <2>2. ASSUME NEW c \in Children(p) PROVE \E j \in 0 .. Branching - 1 : c = b + 1 + j
    BY DEF Children
  <2>. HIDE DEF b
  <2>. QED BY <2>1, <2>2
<1>4. b \in Int /\ b + 1 \in Int /\ b + Branching \in Int /\ Branching \in Nat \ {0}
  BY NAssumption, BranchingAssumption DEF Party
<1>. HIDE DEF b
<1>5. IsFiniteSet(b + 1 .. b + Branching) /\ Cardinality(b + 1 .. b + Branching) = Branching
  <2>1. /\ IsFiniteSet(b + 1 .. b + Branching)
        /\ Cardinality(b + 1 .. b + Branching) =
              IF b + 1 > b + Branching THEN 0 ELSE (b + Branching) - (b + 1) + 1
    BY <1>4, FS_Interval
  <2>2. ~(b + 1 > b + Branching) /\ (b + Branching) - (b + 1) + 1 = Branching
    BY <1>4
  <2>. QED BY <2>1, <2>2
<1>. QED BY <1>1, <1>2, <1>3, <1>5, FS_Subset

-----------------------------------------------------------------------------
(* Subtrees.                                                               *)

LEMMA DescentIff ==
  ASSUME NEW d, NEW p
  PROVE  <<d, p>> \in Descent <=> /\ d \in Party /\ p \in Party
                                  /\ \A S \in WaysUp : d \in S => p \in S
BY DEF Descent

\* A party is on every way up from it, and so is its parent.
LEMMA SelfAndParent ==
  ASSUME NEW d \in Party, NEW p, <<d, p>> \in Descent
  PROVE  /\ <<d, d>> \in Descent
         /\ <<d, Parent(p)>> \in Descent
         /\ p <= d
         /\ d # p => <<Parent(d), p>> \in Descent
<1>1. p \in Party /\ \A S \in WaysUp : d \in S => p \in S
  BY DescentIff
<1>2. Parent(p) \in Party
  BY <1>1, ParentFacts
<1>3. \A S \in WaysUp : d \in S => Parent(p) \in S
  BY <1>1 DEF WaysUp
<1>4. p <= d
  <2>. DEFINE S == {x \in Party : x <= d}
  <2>1. ASSUME NEW x \in S PROVE Parent(x) \in S
    <3>1. Parent(x) \in Party /\ Parent(x) <= x
      <4>1. CASE x = Root
        BY <4>1, ParentFacts DEF Root
      <4>2. CASE x # Root
        BY <4>2, ParentFacts, NAssumption DEF Party
      <4>. QED BY <4>1, <4>2
    <3>2. d \in Int /\ x \in Int /\ Parent(x) \in Int /\ x <= d
      BY <3>1, NAssumption DEF Party
    <3>. QED BY <3>1, <3>2
  <2>2. d \in S
    BY NAssumption DEF Party
  <2>3. S \in WaysUp
    BY <2>1 DEF WaysUp
  <2>. QED BY <1>1, <2>2, <2>3
<1>5. ASSUME d # p PROVE <<Parent(d), p>> \in Descent
  <2>1. ASSUME NEW S \in WaysUp, Parent(d) \in S PROVE p \in S
    <3>1. S \cup {d} \in WaysUp
      BY <2>1 DEF WaysUp
    <3>. QED BY <1>1, <1>5, <3>1
  <2>2. Parent(d) \in Party
    BY ParentFacts
  <2>. QED BY <1>1, <2>1, <2>2, DescentIff
<1>. QED BY <1>1, <1>2, <1>3, <1>4, <1>5, DescentIff

LEMMA DescentFromSelf ==
  ASSUME NEW p \in Party
  PROVE  <<p, p>> \in Descent
BY DescentIff

\* A descendant of p is p itself or a descendant of one of its children.
LEMMA DescentSplits ==
  ASSUME NEW p \in Party, NEW d
  PROVE  <<d, p>> \in Descent <=> d = p \/ \E c \in Children(p) : <<d, c>> \in Descent
<1>1. ASSUME NEW c \in Children(p), <<d, c>> \in Descent
      PROVE  <<d, p>> \in Descent
  <2>1. c \in Party /\ Parent(c) = p
    BY ChildIff
  <2>. QED BY <1>1, <2>1, SelfAndParent, DescentIff
<1>2. ASSUME <<d, p>> \in Descent, d # p, \A c \in Children(p) : <<d, c>> \notin Descent
      PROVE  FALSE
  <2>1. d \in Party /\ \A S \in WaysUp : d \in S => p \in S
    BY <1>2, DescentIff
  <2>. DEFINE S == {x \in Party : <<d, x>> \in Descent} \ {p}
  <2>2. d \in S
    BY <1>2, <2>1, DescentFromSelf
  <2>3. ASSUME NEW x \in S PROVE Parent(x) \in S
    <3>1. x \in Party /\ <<d, x>> \in Descent /\ x # p
      OBVIOUS
    <3>2. Parent(x) \in Party /\ <<d, Parent(x)>> \in Descent
      BY <3>1, <2>1, ParentFacts, SelfAndParent
    <3>3. Parent(x) # p
      <4>1. x \notin Children(p)
        BY <1>2, <3>1
      <4>2. x = Root => Parent(x) = x
        BY ParentFacts
      <4>. QED BY <3>1, <4>1, <4>2, ChildIff, ParentFacts
    <3>. QED BY <3>2, <3>3
  <2>4. S \in WaysUp
    BY <2>3 DEF WaysUp
  <2>. QED BY <2>1, <2>2, <2>4
<1>. QED BY <1>1, <1>2, DescentFromSelf

\* The subtrees of two children of a party have nothing in common.
LEMMA SubtreesApart ==
  ASSUME NEW p \in Party, NEW b \in Children(p), NEW c \in Children(p), NEW d,
         <<d, b>> \in Descent, <<d, c>> \in Descent
  PROVE  b = c
<1>. DEFINE Common == {y \in Party : <<y, b>> \in Descent /\ <<y, c>> \in Descent}
<1>1. b \in Party /\ c \in Party /\ Parent(b) = p /\ Parent(c) = p /\ b # Root /\ c # Root
  BY ChildIff, ParentFacts
<1>2. Common # {} /\ Common \subseteq Nat
  BY DescentIff, NAssumption DEF Party
<1>3. PICK x \in Common : \A y \in Common : x <= y
  BY <1>2, LeastNat
<1>4. x \in Party /\ <<x, b>> \in Descent /\ <<x, c>> \in Descent
  OBVIOUS
<1>5. ~(<<p, b>> \in Descent) /\ ~(<<p, c>> \in Descent)
  <2>1. p < b /\ p < c
    BY <1>1, ParentFacts
  <2>2. p \in Int /\ b \in Int /\ c \in Int
    BY <1>1, NAssumption DEF Party
  <2>3. ~(b <= p) /\ ~(c <= p)
    BY <2>1, <2>2
  <2>4. ASSUME NEW y \in Party, <<p, y>> \in Descent PROVE y <= p
    BY <2>4, SelfAndParent
  <2>. QED BY <1>1, <2>3, <2>4
<1>6. CASE x = b \/ x = c
  BY <1>1, <1>4, <1>5, <1>6, SelfAndParent
<1>7. CASE x # b /\ x # c
  <2>1. Parent(x) \in Common
    BY <1>4, <1>7, SelfAndParent, ParentFacts
  <2>2. x # Root
    <3>1. b <= x
      BY <1>4, SelfAndParent
    <3>. QED BY <1>1, <1>4, <1>7, <3>1, NAssumption DEF Party, Root
  <2>3. Parent(x) < x /\ x <= Parent(x)
    BY <1>3, <1>4, <2>1, <2>2, ParentFacts
  <2>4. Parent(x) \in Int /\ x \in Int
    BY <1>4, <2>1, NAssumption DEF Party
  <2>. QED BY <2>3, <2>4
<1>. QED BY <1>6, <1>7

\* Every way up ends at the root.
LEMMA RootIsLast ==
  ASSUME NEW S \in WaysUp, S # {}
  PROVE  Root \in S
<1>1. S \subseteq Party /\ S \subseteq Nat /\ \A x \in S : Parent(x) \in S
  BY NAssumption DEF WaysUp, Party
<1>2. PICK x \in S : \A y \in S : x <= y
  BY <1>1, LeastNat
<1>3. ASSUME x # Root PROVE FALSE
  <2>1. Parent(x) < x /\ x <= Parent(x)
    BY <1>1, <1>2, <1>3, ParentFacts
  <2>2. Parent(x) \in Nat /\ x \in Nat
    BY <1>1
  <2>. QED BY <2>1, <2>2
<1>. QED BY <1>3

\* The root has everybody among its descendants.
LEMMA RootOfAll ==
  ASSUME NEW d \in Party
  PROVE  <<d, Root>> \in Descent
<1>1. Root \in Party
  BY ParentFacts
<1>. QED BY <1>1, RootIsLast, DescentIff

\* What every party inherits from its parent, if the root has it, all have.
LEMMA DownFromRoot ==
  ASSUME NEW S \in SUBSET Party, Root \in S, \A p \in S : Children(p) \subseteq S
  PROVE  S = Party
<1>. DEFINE T == Party \ S
<1>1. ASSUME NEW x \in T PROVE Parent(x) \in T
  <2>1. x # Root /\ Parent(x) \in Party
    BY ParentFacts
  <2>2. x \in Children(Parent(x))
    BY <2>1, ParentFacts, ChildIff
  <2>. QED BY <2>1, <2>2
<1>2. T \in WaysUp
  BY <1>1 DEF WaysUp
<1>. QED BY <1>2, RootIsLast

-----------------------------------------------------------------------------
(* Sums over subtrees.                                                     *)

LEMMA WholeIff ==
  ASSUME NEW p \in Party
  PROVE  /\ Whole(p) \in [Party -> {0, 1}]
         /\ \A q \in Party : Whole(p)[q] = 1 <=> <<q, p>> \in Descent
BY DescentSplits DEF Whole, Part

LEMMA PartFacts ==
  ASSUME NEW p \in Party, NEW C \in SUBSET Children(p)
  PROVE  /\ Part(p, C) \in [Party -> {0, 1}]
         /\ Part(p, C)[p] = 1
         /\ \A c \in Children(p) : Part(p, C)[c] = 1 <=> c \in C
<1>1. ASSUME NEW c \in Children(p)
      PROVE  Part(p, C)[c] = 1 <=> c \in C
  <2>1. c \in Party /\ c # p /\ <<c, c>> \in Descent
    <3>1. c \in Party /\ Parent(c) = p /\ c # Root
      BY ChildIff, ParentFacts
    <3>2. Parent(c) < c /\ c \in Int
      BY <3>1, ParentFacts, NAssumption DEF Party
    <3>. QED BY <3>1, <3>2, DescentFromSelf
  <2>2. \A b \in C : <<c, b>> \in Descent => b = c
    BY <2>1, SubtreesApart
  <2>3. Part(p, C)[c] = IF c = p \/ (\E b \in C : <<c, b>> \in Descent) THEN 1 ELSE 0
    BY <2>1 DEF Part
  <2>4. (\E b \in C : <<c, b>> \in Descent) <=> c \in C
    BY <2>1, <2>2
  <2>. QED BY <2>1, <2>3, <2>4
<1>. QED BY <1>1 DEF Part

\* Adding what a child sends up.
LEMMA PartAdd ==
  ASSUME NEW p \in Party, NEW C \in SUBSET Children(p), NEW c \in Children(p), c \notin C
  PROVE  [q \in Party |-> Part(p, C)[q] + Whole(c)[q]] = Part(p, C \cup {c})
<1>1. c \in Party /\ ~(<<p, c>> \in Descent)
  <2>1. c \in Party /\ Parent(c) = p /\ c # Root
    BY ChildIff, ParentFacts
  <2>2. Parent(c) < c /\ c \in Int /\ p \in Int
    BY <2>1, ParentFacts, NAssumption DEF Party
  <2>3. <<p, c>> \in Descent => c <= p
    BY SelfAndParent
  <2>. QED BY <2>1, <2>2, <2>3
<1>2. ASSUME NEW q \in Party
      PROVE  Part(p, C)[q] + Whole(c)[q] = Part(p, C \cup {c})[q]
  <2>. DEFINE inC == \E b \in C : <<q, b>> \in Descent
              inc == <<q, c>> \in Descent
  <2>1. Part(p, C)[q] = IF q = p \/ inC THEN 1 ELSE 0
    BY DEF Part
  <2>2. Part(p, C \cup {c})[q] = IF q = p \/ inC \/ inc THEN 1 ELSE 0
    <3>1. (\E b \in C \cup {c} : <<q, b>> \in Descent) <=> inC \/ inc
      OBVIOUS
    <3>. QED BY <3>1 DEF Part
  <2>3. Whole(c)[q] = IF inc THEN 1 ELSE 0
    <3>1. Whole(c)[q] \in {0, 1} /\ (Whole(c)[q] = 1 <=> inc)
      BY <1>1, WholeIff
    <3>. QED BY <3>1
  <2>4. inc => q # p /\ ~inC
    BY <1>1, SubtreesApart
  <2>. HIDE DEF inC, inc
  <2>. QED BY <2>1, <2>2, <2>3, <2>4
<1>. QED BY <1>2 DEF Part

\* What the root has at the end, and what a party begins with.
LEMMA PartEnds ==
  /\ Whole(Root) = [p \in Party |-> 1]
  /\ \A p \in Party : Part(p, {}) = [q \in Party |-> IF q = p THEN 1 ELSE 0]
<1>1. Root \in Party
  BY NAssumption DEF Party, Root
<1>2. \A q \in Party : Whole(Root)[q] = 1
  BY <1>1, RootOfAll, WholeIff
<1>. QED BY <1>1, <1>2 DEF Part, Whole

\* The sums of two children of one party differ.
LEMMA WholesDiffer ==
  ASSUME NEW p \in Party, NEW b \in Children(p), NEW c \in Children(p), Whole(b) = Whole(c)
  PROVE  b = c
<1>1. b \in Party /\ c \in Party
  BY ChildIff
<1>2. <<b, b>> \in Descent
  BY <1>1, DescentFromSelf
<1>3. <<b, c>> \in Descent
  BY <1>1, <1>2, WholeIff
<1>. QED BY <1>2, <1>3, SubtreesApart

-----------------------------------------------------------------------------
(* The transport.                                                          *)

LEMMA CarriedSend ==
  ASSUME NEW M, NEW out \in [Party -> [Party -> Seq(M)]],
         NEW wir \in [Party -> [Party -> Seq(M)]], NEW inb, NEW due,
         Carried(out, wir, inb, due),
         NEW p \in Party, NEW q \in Party, out[p][q] # <<>>
  PROVE  Carried([out EXCEPT ![p][q] = Tail(@)],
                 [wir EXCEPT ![p][q] = Append(@, Head(out[p][q]))], inb, due)
<1>. DEFINE out2 == [out EXCEPT ![p][q] = Tail(@)]
            wir2 == [wir EXCEPT ![p][q] = Append(@, Head(out[p][q]))]
<1>1. ASSUME NEW a \in Party, NEW b \in Party, <<a, b>> # <<p, q>>
      PROVE  out2[a][b] = out[a][b] /\ wir2[a][b] = wir[a][b]
  BY <1>1
<1>2. out2[p][q] = Tail(out[p][q]) /\ wir2[p][q] = Append(wir[p][q], Head(out[p][q]))
  OBVIOUS
<1>3. Carries(out2[p][q], wir2[p][q], inb[q], due[p][q])
  <2>1. Carries(out[p][q], wir[p][q], inb[q], due[p][q])
    BY DEF Carried
  <2>2. PICK m \in due[p][q] : /\ due[p][q] = {m} /\ out[p][q] = <<m>> /\ wir[p][q] = <<>>
                               /\ ~Holds(inb[q], m)
    BY <2>1 DEF Carries
  <2>3. out2[p][q] = <<>> /\ wir2[p][q] = <<m>>
    BY <1>2, <2>2
  <2>. QED BY <2>2, <2>3 DEF Carries
<1>. HIDE DEF out2, wir2
<1>4. Carried(out2, wir2, inb, due)
  <2>1. \A a, b \in Party : Carries(out2[a][b], wir2[a][b], inb[b], due[a][b])
    BY <1>1, <1>3 DEF Carried
  <2>. QED BY <2>1 DEF Carried
<1>. QED BY <1>4 DEF out2, wir2

LEMMA CarriedReceive ==
  ASSUME NEW M, NEW wir \in [Party -> [Party -> Seq(M)]], NEW inb \in [Party -> Seq(M)],
         NEW out, NEW due, Carried(out, wir, inb, due), Separate(due),
         NEW p \in Party, NEW q \in Party, wir[p][q] # <<>>
  PROVE  Carried(out, [wir EXCEPT ![p][q] = Tail(@)],
                 [inb EXCEPT ![q] = Append(@, Head(wir[p][q]))], due)
<1>. DEFINE wir2 == [wir EXCEPT ![p][q] = Tail(@)]
            inb2 == [inb EXCEPT ![q] = Append(@, Head(wir[p][q]))]
<1>1. ASSUME NEW a \in Party, NEW b \in Party, <<a, b>> # <<p, q>>
      PROVE  wir2[a][b] = wir[a][b]
  BY <1>1
<1>2. wir2[p][q] = Tail(wir[p][q])
  OBVIOUS
<1>3. PICK m \in due[p][q] : /\ due[p][q] = {m} /\ out[p][q] = <<>> /\ wir[p][q] = <<m>>
                             /\ ~Holds(inb[q], m)
  <2>1. Carries(out[p][q], wir[p][q], inb[q], due[p][q])
    BY DEF Carried
  <2>. QED BY <2>1 DEF Carries
<1>4. /\ inb2 = [inb EXCEPT ![q] = Append(inb[q], m)]
      /\ wir2[p][q] = <<>>
  BY <1>2, <1>3
<1>5. inb2[q] = Append(inb[q], m) /\ \A b \in Party \ {q} : inb2[b] = inb[b]
  BY <1>4
<1>6. m \in M
  <2>1. wir[p][q] \in Seq(M)
    OBVIOUS
  <2>2. Head(wir[p][q]) \in M
    BY <2>1
  <2>3. Head(<<m>>) = m
    OBVIOUS
  <2>. QED BY <1>3, <2>2, <2>3
<1>7. /\ DOMAIN inb2[q] = 1 .. Len(inb[q]) + 1
      /\ DOMAIN inb[q] = 1 .. Len(inb[q]) /\ Len(inb[q]) \in Nat
      /\ \A i \in DOMAIN inb[q] : inb2[q][i] = inb[q][i]
      /\ inb2[q][Len(inb[q]) + 1] = m
  BY <1>5, <1>6
<1>. HIDE DEF wir2, inb2
<1>8. ASSUME NEW x PROVE Holds(inb2[q], x) <=> x = m \/ Holds(inb[q], x)
  <2>1. Len(inb[q]) + 1 \in DOMAIN inb2[q] /\ DOMAIN inb[q] \subseteq DOMAIN inb2[q]
    BY <1>7
  <2>2. \A i \in DOMAIN inb2[q] : i \in DOMAIN inb[q] \/ i = Len(inb[q]) + 1
    BY <1>7
  <2>. QED BY <1>7, <2>1, <2>2 DEF Holds
<1>9. ASSUME NEW a \in Party, NEW b \in Party
      PROVE  Carries(out[a][b], wir2[a][b], inb2[b], due[a][b])
  <2>1. Carries(out[a][b], wir[a][b], inb[b], due[a][b])
    BY DEF Carried
  <2>2. CASE a = p /\ b = q
    BY <1>3, <1>4, <1>8, <2>2 DEF Carries
  <2>3. CASE a # p /\ b = q
    <3>1. m \notin due[a][b]
      BY <1>3, <2>3 DEF Separate
    <3>2. wir2[a][b] = wir[a][b]
      BY <1>1, <2>3
    <3>3. \A x \in due[a][b] : Holds(inb2[b], x) <=> Holds(inb[b], x)
      BY <1>8, <2>3, <3>1
    <3>. QED BY <2>1, <3>2, <3>3 DEF Carries
  <2>4. CASE b # q
    BY <1>1, <1>5, <2>1, <2>4
  <2>. QED BY <2>2, <2>3, <2>4
<1>10. \A i \in DOMAIN inb2[q] : i \in DOMAIN inb[q] \/ (i = Len(inb[q]) + 1 /\ inb2[q][i] = m)
  BY <1>7
<1>11. ASSUME NEW b \in Party, NEW i \in DOMAIN inb2[b]
       PROVE  \E a \in Party : inb2[b][i] \in due[a][b]
  <2>1. CASE b = q
    BY <1>3, <1>7, <1>10, <2>1 DEF Carried
  <2>2. CASE b # q
    BY <1>5, <2>2 DEF Carried
  <2>. QED BY <2>1, <2>2
<1>12. ASSUME NEW b \in Party, NEW i \in DOMAIN inb2[b], NEW j \in DOMAIN inb2[b],
              inb2[b][i] = inb2[b][j]
       PROVE  i = j
  <2>1. CASE b = q
    <3>1. \A k \in DOMAIN inb[q] : inb2[q][k] # m
      BY <1>3, <1>7 DEF Holds
    <3>2. \A k, l \in DOMAIN inb[q] : inb[q][k] = inb[q][l] => k = l
      BY DEF Carried
    <3>. QED BY <1>7, <1>10, <1>12, <2>1, <3>1, <3>2
  <2>2. CASE b # q
    BY <1>5, <1>12, <2>2 DEF Carried
  <2>. QED BY <2>1, <2>2
<1>13. Carried(out, wir2, inb2, due)
  BY <1>9, <1>11, <1>12 DEF Carried
<1>. QED BY <1>13 DEF wir2, inb2

Takes(p) == inbox[p] # <<>> /\ inbox' = [inbox EXCEPT ![p] = Tail(@)]

NoLongerDue(r, p, due, due2) ==
  /\ due2[r][p] = {}
  /\ \A a, b \in Party : ~(a = r /\ b = p) => due2[a][b] = due[a][b]

\* A party takes the message that r has sent to it; nothing is due on the link
\* from r any more.
LEMMA CarriedDrop ==
  ASSUME NEW M, LinksTypeOK(M), NEW p \in Party, Takes(p),
         NEW due, Carried(outbox, wire, inbox, due), Separate(due),
         NEW r \in Party, Head(inbox[p]) \in due[r][p],
         NEW due2, NoLongerDue(r, p, due, due2)
  PROVE  Carried(outbox, wire, inbox', due2)
<1>. DEFINE m == Head(inbox[p])
<1>. inbox \in [Party -> Seq(M)] /\ inbox[p] # <<>> /\ inbox' = [inbox EXCEPT ![p] = Tail(@)]
  BY DEF LinksTypeOK, Takes
<1>. /\ due2[r][p] = {}
     /\ \A a, b \in Party : ~(a = r /\ b = p) => due2[a][b] = due[a][b]
  BY DEF NoLongerDue
<1>1. inbox'[p] = Tail(inbox[p]) /\ \A b \in Party \ {p} : inbox'[b] = inbox[b]
  OBVIOUS
<1>2. /\ Len(inbox[p]) \in Nat \ {0}
      /\ DOMAIN inbox[p] = 1 .. Len(inbox[p]) /\ DOMAIN inbox'[p] = 1 .. Len(inbox[p]) - 1
      /\ \A i \in DOMAIN inbox'[p] : inbox'[p][i] = inbox[p][i + 1]
      /\ m = inbox[p][1]
  BY <1>1
<1>. HIDE DEF m
<1>a. \A i, j \in DOMAIN inbox[p] : inbox[p][i] = inbox[p][j] => i = j
  BY DEF Carried
<1>b. ASSUME NEW n \in Nat \ {0}
      PROVE  /\ \A i \in 1 .. n - 1 : i + 1 \in 1 .. n /\ i + 1 # 1 /\ i \in Int
             /\ \A i \in 1 .. n : i = 1 \/ i - 1 \in 1 .. n - 1
             /\ \A i \in 1 .. n : (i - 1) + 1 = i
             /\ 1 \in 1 .. n
  OBVIOUS
<1>3. /\ \A i \in DOMAIN inbox'[p] : i + 1 \in DOMAIN inbox[p] /\ i + 1 # 1 /\ i \in Int
      /\ \A i \in DOMAIN inbox[p] : i = 1 \/ i - 1 \in DOMAIN inbox'[p]
      /\ \A i \in DOMAIN inbox[p] : (i - 1) + 1 = i
      /\ 1 \in DOMAIN inbox[p]
  <2>1. DOMAIN inbox[p] = 1 .. Len(inbox[p]) /\ DOMAIN inbox'[p] = 1 .. Len(inbox[p]) - 1
    BY <1>2
  <2>. QED BY ONLY <1>2, <1>b, <2>1
<1>4. ~Holds(inbox'[p], m)
  <2>1. ASSUME NEW i \in DOMAIN inbox'[p] PROVE inbox'[p][i] # m
    <3>1. i + 1 \in DOMAIN inbox[p] /\ i + 1 # 1 /\ inbox'[p][i] = inbox[p][i + 1]
      BY <1>2, <1>3
    <3>. QED BY <1>a, <1>2, <1>3, <3>1
  <2>. QED BY <2>1 DEF Holds
<1>5. ASSUME NEW x, x # m PROVE Holds(inbox'[p], x) <=> Holds(inbox[p], x)
  <2>1. ASSUME Holds(inbox[p], x) PROVE Holds(inbox'[p], x)
    <3>1. PICK i \in DOMAIN inbox[p] : inbox[p][i] = x
      BY <2>1 DEF Holds
    <3>2. i - 1 \in DOMAIN inbox'[p] /\ inbox'[p][i - 1] = x
      BY <1>2, <1>3, <1>5, <3>1
    <3>. QED BY <3>2 DEF Holds
  <2>2. ASSUME Holds(inbox'[p], x) PROVE Holds(inbox[p], x)
    BY <1>2, <1>3, <2>2 DEF Holds
  <2>. QED BY <2>1, <2>2
<1>6. due[r][p] = {m} /\ outbox[r][p] = <<>> /\ wire[r][p] = <<>>
  <2>1. Carries(outbox[r][p], wire[r][p], inbox[p], due[r][p])
    BY DEF Carried
  <2>2. Holds(inbox[p], m) /\ m \in due[r][p]
    BY <1>2, <1>3 DEF Holds, m
  <2>. QED BY <2>1, <2>2 DEF Carries
<1>7. ASSUME NEW a \in Party, NEW b \in Party
      PROVE  Carries(outbox[a][b], wire[a][b], inbox'[b], due2[a][b])
  <2>1. Carries(outbox[a][b], wire[a][b], inbox[b], due[a][b])
    BY DEF Carried
  <2>2. CASE a = r /\ b = p
    BY <1>6, <2>2 DEF Carries
  <2>3. CASE a # r /\ b = p
    <3>1. m \notin due[a][b] /\ due2[a][b] = due[a][b]
      BY <1>6, <2>3 DEF Separate
    <3>2. \A x \in due[a][b] : Holds(inbox'[b], x) <=> Holds(inbox[b], x)
      BY <1>5, <2>3, <3>1
    <3>. QED BY <2>1, <3>1, <3>2 DEF Carries
  <2>4. CASE b # p
    BY <1>1, <2>1, <2>4
  <2>. QED BY <2>2, <2>3, <2>4
<1>8. ASSUME NEW b \in Party, NEW i \in DOMAIN inbox'[b]
      PROVE  \E a \in Party : inbox'[b][i] \in due2[a][b]
  <2>1. CASE b = p
    <3>1. inbox'[p][i] # m /\ Holds(inbox[p], inbox'[p][i])
      <4>1. Holds(inbox'[p], inbox'[p][i])
        BY <2>1 DEF Holds
      <4>. QED BY <1>4, <1>5, <4>1
    <3>2. PICK a \in Party : inbox'[p][i] \in due[a][p]
      BY <3>1 DEF Carried, Holds
    <3>. QED BY <1>6, <2>1, <3>1, <3>2
  <2>2. CASE b # p
    <3>1. \E a \in Party : inbox'[b][i] \in due[a][b]
      BY <1>1, <2>2 DEF Carried
    <3>. QED BY <2>2, <3>1
  <2>. QED BY <2>1, <2>2
<1>9. ASSUME NEW b \in Party, NEW i \in DOMAIN inbox'[b], NEW j \in DOMAIN inbox'[b],
             inbox'[b][i] = inbox'[b][j]
      PROVE  i = j
  <2>1. CASE b = p
    <3>1. inbox[p][i + 1] = inbox[p][j + 1] /\ i + 1 \in DOMAIN inbox[p] /\ j + 1 \in DOMAIN inbox[p]
      BY <1>2, <1>3, <1>9, <2>1
    <3>2. i + 1 = j + 1 /\ i \in Int /\ j \in Int
      BY <1>a, <1>3, <2>1, <3>1
    <3>. QED BY <3>2
  <2>2. CASE b # p
    BY <1>1, <1>9, <2>2 DEF Carried
  <2>. QED BY <2>1, <2>2
<1>. QED BY <1>7, <1>8, <1>9 DEF Carried

NowDue(p, due, due2) ==
  /\ \A a \in Party \ {p} : \A b \in Party :
        outbox'[a][b] = outbox[a][b] /\ due2[a][b] = due[a][b]
  /\ \A b \in Party :
        \/ due2[p][b] = due[p][b] /\ outbox'[p][b] = outbox[p][b]
        \/ due[p][b] = {} /\ \E m : due2[p][b] = {m} /\ outbox'[p][b] = Append(outbox[p][b], m)

\* A party puts a message into the channels of some of its remotes, to which
\* nothing was due.
LEMMA CarriedQueue ==
  ASSUME NEW due, Carried(outbox, wire', inbox', due),
         NEW p \in Party, NEW due2, Separate(due2), NowDue(p, due, due2)
  PROVE  Carried(outbox', wire', inbox', due2)
<1>. /\ \A a \in Party \ {p} : \A b \in Party :
           outbox'[a][b] = outbox[a][b] /\ due2[a][b] = due[a][b]
     /\ \A b \in Party :
           \/ due2[p][b] = due[p][b] /\ outbox'[p][b] = outbox[p][b]
           \/ due[p][b] = {} /\ \E m : due2[p][b] = {m} /\ outbox'[p][b] = Append(outbox[p][b], m)
  BY DEF NowDue
<1>1. ASSUME NEW a \in Party, NEW b \in Party
      PROVE  Carries(outbox'[a][b], wire'[a][b], inbox'[b], due2[a][b])
  <2>1. Carries(outbox[a][b], wire'[a][b], inbox'[b], due[a][b])
    BY DEF Carried
  <2>2. CASE a = p /\ due[p][b] = {}
    <3>1. outbox[p][b] = <<>> /\ wire'[p][b] = <<>>
      BY <2>1, <2>2 DEF Carries
    <3>2. CASE due2[p][b] = due[p][b] /\ outbox'[p][b] = outbox[p][b]
      BY <2>1, <2>2, <3>2
    <3>3. ASSUME NEW m, due2[p][b] = {m}, outbox'[p][b] = Append(outbox[p][b], m)
          PROVE  Carries(outbox'[p][b], wire'[p][b], inbox'[b], due2[p][b])
      <4>1. outbox'[p][b] = <<m>>
        BY <3>1, <3>3
      <4>2. ASSUME Holds(inbox'[b], m) PROVE FALSE
        <5>1. PICK c \in Party : m \in due[c][b]
          BY <4>2 DEF Carried, Holds
        <5>2. c # p /\ due2[c][b] = due[c][b]
          BY <2>2, <5>1
        <5>. QED BY <3>3, <5>1, <5>2 DEF Separate
      <4>. QED BY <3>1, <3>3, <4>1, <4>2 DEF Carries
    <3>. QED BY <2>2, <3>2, <3>3
  <2>3. CASE ~(a = p /\ due[p][b] = {})
    BY <2>1, <2>3
  <2>. QED BY <2>2, <2>3
<1>2. ASSUME NEW b \in Party, NEW i \in DOMAIN inbox'[b]
      PROVE  \E a \in Party : inbox'[b][i] \in due2[a][b]
  <2>1. PICK a \in Party : inbox'[b][i] \in due[a][b]
    BY DEF Carried
  <2>2. due2[a][b] = due[a][b]
    BY <2>1
  <2>. QED BY <2>1, <2>2
<1>. QED BY <1>1, <1>2 DEF Carried

-----------------------------------------------------------------------------
(* The goroutines of BindNetwork, whatever the messages.                   *)

LEMMA FlowKept ==
  ASSUME NEW M, LinksTypeOK(M), NEW p \in Party, Flow(p),
         NEW due, Carried(outbox, wire, inbox, due), Separate(due)
  PROVE  LinksTypeOK(M)' /\ Carried(outbox', wire', inbox', due) /\ UNCHANGED proc
<1>1. PICK q \in Binds(p) : Send(p, q) \/ Receive(p, q) \/ ReceiveEOF(p, q)
  BY DEF Flow
<1>2. q \in Party
  BY ParentFacts DEF Binds, Children
<1>3. CASE Send(p, q)
  <2>1. outbox[p][q] \in Seq(M) /\ outbox[p][q] # <<>> /\ wire[p][q] \in Seq(M)
    BY <1>2, <1>3 DEF Send, LinksTypeOK
  <2>2. Tail(outbox[p][q]) \in Seq(M) /\ Append(wire[p][q], Head(outbox[p][q])) \in Seq(M)
    BY <2>1
  <2>3. LinksTypeOK(M)'
    BY <1>2, <1>3, <2>2 DEF Send, LinksTypeOK
  <2>4. Carried(outbox', wire', inbox', due)
    BY <1>2, <1>3, CarriedSend DEF Send, LinksTypeOK
  <2>. QED BY <1>3, <2>3, <2>4 DEF Send
<1>4. CASE Receive(p, q)
  <2>1. wire[q][p] \in Seq(M) /\ wire[q][p] # <<>> /\ inbox[p] \in Seq(M)
    BY <1>2, <1>4 DEF Receive, LinksTypeOK
  <2>2. Tail(wire[q][p]) \in Seq(M) /\ Append(inbox[p], Head(wire[q][p])) \in Seq(M)
    BY <2>1
  <2>3. LinksTypeOK(M)'
    BY <1>2, <1>4, <2>2 DEF Receive, LinksTypeOK
  <2>4. Carried(outbox', wire', inbox', due)
    BY <1>2, <1>4, CarriedReceive DEF Receive, LinksTypeOK
  <2>. QED BY <1>4, <2>3, <2>4 DEF Receive
<1>5. CASE ReceiveEOF(p, q)
  BY <1>5 DEF ReceiveEOF, LinksTypeOK
<1>. QED BY <1>1, <1>3, <1>4, <1>5

LEMMA EndKept ==
  ASSUME NEW M, LinksTypeOK(M), NEW p \in Party,
         NEW how \in {"exited", "panicked", "stopped"}, End(p, how)
  PROVE  LinksTypeOK(M)' /\ UNCHANGED <<outbox, wire, reading, inbox>>
BY DEF End, LinksTypeOK

LEMMA FailuresEnd ==
  ASSUME NEW p \in Party, Failures(p)
  PROVE  Up(p) /\ End(p, "panicked")
BY DEF Failures, ReadFails, WriteFails

LEMMA QueueType ==
  ASSUME NEW M, LinksTypeOK(M), NEW p \in Party, NEW to, NEW m \in M
  PROVE  Queue(p, to, m) \in [Party -> Seq(M)]
BY DEF Queue, LinksTypeOK

LEMMA LinksTypeInit ==
  ASSUME NEW M, LinksInit
  PROVE  LinksTypeOK(M)
BY ParentFacts DEF LinksInit, LinksTypeOK, Binds, Children

\* No channel fills up as long as what is due at one party fits in.
LEMMA NeverFullOf ==
  ASSUME NEW M, LinksTypeOK(M), NEW due, Carried(outbox, wire, inbox, due),
         \A q \in Party : /\ IsFiniteSet({p \in Party : due[p][q] # {}})
                          /\ Cardinality({p \in Party : due[p][q] # {}}) <= ChanCap
  PROVE  NeverFull
<1>1. ASSUME NEW p \in Party, NEW q \in Party PROVE Len(outbox[p][q]) <= ChanCap
  <2>1. Carries(outbox[p][q], wire[p][q], inbox[q], due[p][q])
    BY DEF Carried
  <2>2. outbox[p][q] = <<>> \/ \E m : outbox[p][q] = <<m>>
    BY <2>1 DEF Carries
  <2>3. Len(<<>>) = 0 /\ \A m : Len(<<m>>) = 1
    OBVIOUS
  <2>4. Len(outbox[p][q]) = 0 \/ Len(outbox[p][q]) = 1
    BY <2>2, <2>3
  <2>5. 0 <= ChanCap /\ 1 <= ChanCap
    BY ChanCapAssumption
  <2>. QED BY ONLY <2>4, <2>5
<1>2. ASSUME NEW q \in Party PROVE Len(inbox[q]) <= ChanCap
  <2>. DEFINE S == {p \in Party : due[p][q] # {}}
              f == [i \in 1 .. Len(inbox[q]) |-> CHOOSE p \in Party : inbox[q][i] \in due[p][q]]
  <2>1. inbox[q] \in Seq(M) /\ Len(inbox[q]) \in Nat /\ DOMAIN inbox[q] = 1 .. Len(inbox[q])
    BY DEF LinksTypeOK
  <2>2. \A i \in 1 .. Len(inbox[q]) : f[i] \in Party /\ inbox[q][i] \in due[f[i]][q]
    BY <2>1 DEF Carried
  <2>3. ASSUME NEW i \in 1 .. Len(inbox[q]), NEW j \in 1 .. Len(inbox[q]), f[i] = f[j]
        PROVE  i = j
    <3>1. Carries(outbox[f[i]][q], wire[f[i]][q], inbox[q], due[f[i]][q])
      BY <2>2 DEF Carried
    <3>2. inbox[q][i] \in due[f[i]][q] /\ inbox[q][j] \in due[f[i]][q]
      BY <2>2, <2>3
    <3>3. inbox[q][i] = inbox[q][j]
      BY <3>1, <3>2 DEF Carries
    <3>. QED BY <2>1, <3>3 DEF Carried
  <2>4. f \in Injection(1 .. Len(inbox[q]), S)
    <3>1. f \in [1 .. Len(inbox[q]) -> S]
      <4>1. \A i \in 1 .. Len(inbox[q]) : f[i] \in S
        BY <2>2
      <4>. QED BY <4>1
    <3>. HIDE DEF f
    <3>. QED BY <2>3, <3>1 DEF Injection, IsInjective
  <2>. HIDE DEF f
  <2>5. Cardinality(1 .. Len(inbox[q])) <= Cardinality(S) /\ IsFiniteSet(S)
    BY <2>4, FS_Injection
  <2>6. Cardinality(1 .. Len(inbox[q])) = Len(inbox[q])
    BY <2>1, FS_Interval
  <2>7. Cardinality(S) \in Nat /\ Cardinality(S) <= ChanCap
    BY <2>5, FS_CardinalityType
  <2>. HIDE DEF S
  <2>. QED BY <2>1, <2>5, <2>6, <2>7, ChanCapAssumption
<1>. QED BY <1>1, <1>2 DEF NeverFull

=============================================================================
