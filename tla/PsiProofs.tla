------------------------------ MODULE PsiProofs ------------------------------
(***************************************************************************)
(* Proofs about PsiMain, for all numbers of parties and workers.           *)
(***************************************************************************)
EXTENDS PsiInvariant, FiniteSetTheorems, SequenceTheorems, WellFoundedInduction, TLAPS

KeysProofs == INSTANCE CollectiveProofs WITH Parties <- N, Phases <- PsiPhases

-----------------------------------------------------------------------------
(* Recursive functions: Half and Width are what their equations say.       *)

\* A set of natural numbers has a least element.
LEMMA LeastNat ==
  ASSUME NEW S, S \subseteq Nat, S # {}
  PROVE  \E n \in S : \A m \in S : n <= m
<1>1. PICK n \in S : \A m \in S : ~(<<m, n>> \in OpToRel(<, Nat))
  BY NatLessThanWellFounded, WFMin
<1>2. \A m \in S : ~(m < n)
  BY <1>1 DEF OpToRel
<1>. QED BY <1>2

\* A first value and a step define a function on the natural numbers.
LEMMA Recursion ==
  ASSUME NEW V, NEW first \in V, NEW step \in [V -> V]
  PROVE  \E f \in [Nat -> V] : f[0] = first /\ \A n \in Nat : f[n + 1] = step[f[n]]
<1>. DEFINE Upto(n) == {f \in [0 .. n -> V] : /\ f[0] = first
                                              /\ \A i \in 0 .. n - 1 : f[i + 1] = step[f[i]]}
<1>1. ASSUME NEW n \in Nat PROVE Upto(n) # {}
  <2>. DEFINE Without == {m \in Nat : Upto(m) = {}}
  <2>. SUFFICES ASSUME Without # {} PROVE FALSE
    OBVIOUS
  <2>1. PICK m \in Without : \A k \in Without : m <= k
    BY LeastNat
  <2>2. CASE m = 0
    <3>1. [i \in 0 .. 0 |-> first] \in Upto(0)
      OBVIOUS
    <3>. QED BY <2>1, <2>2, <3>1
  <2>3. CASE m # 0
    <3>. m \in Nat /\ m - 1 \in Nat
      BY <2>3
    <3>1. m - 1 \notin Without
      <4>. HIDE DEF Without
      <4>. QED BY <2>1
    <3>2. PICK f \in Upto(m - 1) : TRUE
      BY <3>1
    <3>3. /\ f \in [0 .. m - 1 -> V] /\ f[0] = first
          /\ \A i \in 0 .. m - 2 : f[i + 1] = step[f[i]]
      BY <3>1, <3>2
    <3>. DEFINE g == [i \in 0 .. m |-> IF i < m THEN f[i] ELSE step[f[m - 1]]]
    <3>4. g \in [0 .. m -> V] /\ g[0] = first
      BY <3>1, <3>3
    <3>5. ASSUME NEW i \in 0 .. m - 1 PROVE g[i + 1] = step[g[i]]
      <4>1. CASE i = m - 1
        BY <3>1, <4>1
      <4>2. CASE i # m - 1
        <5>1. i \in 0 .. m - 2 /\ i \in 0 .. m /\ i + 1 \in 0 .. m /\ i < m /\ i + 1 < m
          BY <3>1, <4>2
        <5>. QED BY <3>3, <5>1
      <4>. QED BY <4>1, <4>2
    <3>6. g \in Upto(m)
      <4>. HIDE DEF g
      <4>. QED BY <3>4, <3>5
    <3>. QED BY <2>1, <3>6
  <2>. QED BY <2>2, <2>3
<1>2. ASSUME NEW m \in Nat, NEW n \in Nat, NEW f \in Upto(m), NEW g \in Upto(n),
             NEW i \in Nat, i <= m, i <= n
      PROVE  f[i] = g[i]
  <2>. DEFINE Unlike == {k \in Nat : k <= m /\ k <= n /\ f[k] # g[k]}
  <2>. SUFFICES ASSUME Unlike # {} PROVE FALSE
    BY <1>2
  <2>1. PICK k \in Unlike : \A j \in Unlike : k <= j
    BY LeastNat
  <2>2. k # 0
    BY <2>1
  <2>3. k - 1 \in Nat /\ k - 1 <= m /\ k - 1 <= n /\ k - 1 \notin Unlike
    BY <2>1, <2>2
  <2>4. f[k - 1] = g[k - 1]
    BY <2>3
  <2>5. k - 1 \in 0 .. m - 1 /\ k - 1 \in 0 .. n - 1 /\ (k - 1) + 1 = k
    BY <2>1, <2>2
  <2>6. f[k] = step[f[k - 1]] /\ g[k] = step[g[k - 1]]
    BY <2>5
  <2>. QED BY <2>1, <2>4, <2>6
<1>. DEFINE pick(n) == CHOOSE f : f \in Upto(n)
            h == [n \in Nat |-> pick(n)[n]]
<1>3. ASSUME NEW n \in Nat PROVE pick(n) \in Upto(n)
  BY <1>1
<1>. HIDE DEF pick
<1>4. h \in [Nat -> V] /\ h[0] = first
  <2>1. ASSUME NEW n \in Nat PROVE pick(n)[n] \in V
    BY <1>3
  <2>. QED BY <1>3, <2>1
<1>5. ASSUME NEW n \in Nat PROVE h[n + 1] = step[h[n]]
  <2>1. pick(n + 1) \in Upto(n + 1) /\ pick(n) \in Upto(n) /\ n + 1 \in Nat
    BY <1>3
  <2>2. pick(n + 1)[n + 1] = step[pick(n + 1)[n]]
    BY <2>1
  <2>3. pick(n + 1)[n] = pick(n)[n]
    <3>. HIDE DEF Upto
    <3>. QED BY <1>2, <2>1
  <2>. QED BY <2>2, <2>3
<1>. QED BY <1>4, <1>5

\* The inputs below a place double with each level.
LEMMA WidthFacts ==
  /\ Width \in [Nat -> Nat \ {0}]
  /\ Width[0] = 1
  /\ \A l \in Nat : Width[l + 1] = 2 * Width[l] /\ Width[l] > l
<1>. DEFINE Eq(g) == g = [l \in Nat |-> IF l = 0 THEN 1 ELSE 2 * g[l - 1]]
<1>1. \E g : Eq(g)
  <2>. DEFINE step == [x \in Nat \ {0} |-> 2 * x]
  <2>1. step \in [Nat \ {0} -> Nat \ {0}]
    OBVIOUS
  <2>2. PICK f \in [Nat -> Nat \ {0}] : f[0] = 1 /\ \A n \in Nat : f[n + 1] = step[f[n]]
    <3>. DEFINE V == Nat \ {0}
                first == 1
    <3>1. step \in [V -> V] /\ first \in V
      BY <2>1
    <3>. HIDE DEF step, V, first
    <3>2. \E f \in [Nat -> V] : f[0] = first /\ \A n \in Nat : f[n + 1] = step[f[n]]
      BY <3>1, Recursion
    <3>. QED BY <3>2 DEF V, first
  <2>3. ASSUME NEW l \in Nat PROVE f[l] = IF l = 0 THEN 1 ELSE 2 * f[l - 1]
    <3>1. CASE l # 0
      <4>1. l - 1 \in Nat /\ (l - 1) + 1 = l
        BY <3>1
      <4>. QED BY <2>2, <3>1, <4>1
    <3>. QED BY <2>2, <3>1
  <2>. QED BY <2>3
<1>2. Width = CHOOSE g : Eq(g)
  BY DEF Width
<1>3. Eq(Width)
  <2>. HIDE DEF Eq
  <2>. QED BY <1>1, <1>2
<1>4. /\ Width[0] = 1 /\ \A l \in Nat : Width[l + 1] = 2 * Width[l]
  BY <1>3
<1>5. ASSUME NEW l \in Nat PROVE Width[l] \in Nat \ {0} /\ Width[l] > l
  <2>. DEFINE Bad == {k \in Nat : ~(Width[k] \in Nat \ {0} /\ Width[k] > k)}
  <2>. SUFFICES ASSUME Bad # {} PROVE FALSE
    OBVIOUS
  <2>1. PICK k \in Bad : \A j \in Bad : k <= j
    BY LeastNat
  <2>2. k # 0
    BY <1>4, <2>1
  <2>3. k - 1 \in Nat /\ k - 1 \notin Bad
    BY <2>1, <2>2
  <2>4. Width[k] = 2 * Width[k - 1]
    BY <1>4, <2>2, <2>3
  <2>. QED BY <2>1, <2>3, <2>4
<1>6. Width = [l \in Nat |-> Width[l]]
  BY <1>3
<1>. QED BY <1>4, <1>5, <1>6

\* Each level is half the one before, down to nothing.
LEMMA HalfFacts ==
  /\ N \in Nat \ {0} /\ Half \in [0 .. N -> 0 .. N]
  /\ Half[0] = N
  /\ \A l \in 0 .. N - 1 : Half[l + 1] = Half[l] \div 2
<1>. DEFINE Eq(g) == g = [i \in 0 .. N |-> IF i = 0 THEN N ELSE g[i - 1] \div 2]
            step == [x \in 0 .. N |-> x \div 2]
<1>1. N \in Nat \ {0} /\ N \in 0 .. N
  BY NAssumption
<1>2. PICK f \in [Nat -> 0 .. N] : f[0] = N /\ \A n \in Nat : f[n + 1] = step[f[n]]
  <2>. DEFINE V == 0 .. N
              first == N
  <2>1. step \in [V -> V] /\ first \in V
    BY <1>1
  <2>. HIDE DEF step, V, first
  <2>2. \E f \in [Nat -> V] : f[0] = first /\ \A n \in Nat : f[n + 1] = step[f[n]]
    BY <2>1, Recursion
  <2>. QED BY <2>2 DEF V, first
<1>3. Eq([i \in 0 .. N |-> f[i]])
  <2>1. ASSUME NEW i \in 0 .. N, i # 0 PROVE f[i] = f[i - 1] \div 2 /\ i - 1 \in 0 .. N
    <3>1. i - 1 \in Nat /\ i - 1 \in 0 .. N /\ (i - 1) + 1 = i
      BY <1>1, <2>1
    <3>. QED BY <1>2, <3>1
  <2>. QED BY <1>1, <1>2, <2>1
<1>4. Eq(Half)
  <2>1. Half = CHOOSE g : Eq(g)
    BY DEF Half
  <2>. HIDE DEF Eq
  <2>. QED BY <1>3, <2>1
<1>5. Half[0] = N /\ \A l \in 0 .. N - 1 : Half[l + 1] = Half[l] \div 2
  <2>1. Half[0] = N
    BY <1>1, <1>4
  <2>2. ASSUME NEW l \in 0 .. N - 1 PROVE Half[l + 1] = Half[l] \div 2
    <3>1. l + 1 \in 0 .. N /\ l + 1 # 0 /\ (l + 1) - 1 = l
      BY <1>1
    <3>2. Half[l + 1] = Half[(l + 1) - 1] \div 2
      BY <1>4, <3>1
    <3>. QED BY <3>1, <3>2
  <2>. QED BY <2>1, <2>2
<1>6. ASSUME NEW l \in 0 .. N PROVE Half[l] \in 0 .. N
  <2>. DEFINE Bad == {k \in 0 .. N : Half[k] \notin 0 .. N}
  <2>. SUFFICES ASSUME Bad # {} PROVE FALSE
    OBVIOUS
  <2>1. PICK k \in Bad : \A j \in Bad : k <= j
    <3>1. Bad \subseteq Nat
      BY <1>1
    <3>. QED BY <3>1, LeastNat
  <2>2. k # 0
    BY <1>1, <1>5, <2>1
  <2>3. k - 1 \in 0 .. N - 1 /\ k - 1 \in 0 .. N /\ k - 1 \notin Bad
    BY <1>1, <2>1, <2>2
  <2>4. Half[(k - 1) + 1] = Half[k - 1] \div 2 /\ (k - 1) + 1 = k
    BY <1>1, <1>5, <2>1, <2>3
  <2>. QED BY <1>1, <2>1, <2>3, <2>4
<1>7. Half = [i \in 0 .. N |-> Half[i]]
  BY <1>4
<1>. QED BY <1>1, <1>5, <1>6, <1>7

\* There is a last level, of one ciphertext, and the levels after are empty.
LEMMA LastFacts ==
  /\ Last \in 0 .. N /\ Half[Last] = 1
  /\ \A l \in 0 .. N : l # Last => Half[l] # 1
<1>. USE HalfFacts
<1>1. \E l \in 0 .. N : Half[l] = 1
  <2>1. ASSUME NEW l \in 0 .. N PROVE Half[l] <= N - l
    <3>. DEFINE Bad == {k \in 0 .. N : ~(Half[k] <= N - k)}
    <3>. SUFFICES ASSUME Bad # {} PROVE FALSE
      OBVIOUS
    <3>1. PICK k \in Bad : \A j \in Bad : k <= j
      <4>1. Bad \subseteq Nat
        OBVIOUS
      <4>. QED BY <4>1, LeastNat
    <3>2. k - 1 \in 0 .. N - 1 /\ k - 1 \in 0 .. N /\ k - 1 \notin Bad
      BY <3>1
    <3>3. Half[(k - 1) + 1] = Half[k - 1] \div 2 /\ (k - 1) + 1 = k
      BY <3>1, <3>2
    <3>4. Half[k - 1] <= N - (k - 1) /\ Half[k - 1] \in Nat /\ Half[k] = Half[k - 1] \div 2
          /\ k \in 0 .. N
      BY <3>1, <3>2, <3>3
    <3>5. ASSUME NEW h \in Nat, NEW d \in Nat, h <= d + 1 PROVE h \div 2 <= d
      BY <3>5
    <3>6. N - k \in Nat /\ N - (k - 1) = (N - k) + 1
      BY <3>4
    <3>7. Half[k] <= N - k
      BY <3>4, <3>5, <3>6
    <3>. QED BY <3>1, <3>7
  <2>. DEFINE Empty == {k \in 0 .. N : Half[k] = 0}
  <2>2. N \in Empty
    BY <2>1
  <2>3. PICK k \in Empty : \A j \in Empty : k <= j
    <3>1. Empty \subseteq Nat
      OBVIOUS
    <3>. QED BY <2>2, <3>1, LeastNat
  <2>4. k - 1 \in 0 .. N - 1 /\ k - 1 \in 0 .. N /\ k - 1 \notin Empty
    BY <2>3
  <2>5. Half[(k - 1) + 1] = Half[k - 1] \div 2 /\ (k - 1) + 1 = k
    BY <2>3, <2>4
  <2>6. Half[k - 1] = 1
    BY <2>3, <2>4, <2>5
  <2>. QED BY <2>4, <2>6
<1>2. Last \in 0 .. N /\ Half[Last] = 1
  BY <1>1 DEF Last
<1>3. ASSUME NEW l \in 0 .. N, Half[l] = 1, NEW i \in 0 .. N, i > l PROVE Half[i] = 0
  <2>. DEFINE Bad == {k \in 0 .. N : k > l /\ Half[k] # 0}
  <2>. SUFFICES ASSUME Bad # {} PROVE FALSE
    BY <1>3
  <2>1. PICK k \in Bad : \A j \in Bad : k <= j
    <3>1. Bad \subseteq Nat
      OBVIOUS
    <3>. QED BY <3>1, LeastNat
  <2>2. k - 1 \in 0 .. N - 1 /\ k - 1 \in 0 .. N /\ k - 1 \notin Bad /\ k - 1 >= l
    BY <2>1
  <2>3. Half[(k - 1) + 1] = Half[k - 1] \div 2 /\ (k - 1) + 1 = k
    BY <2>1, <2>2
  <2>4. Half[k - 1] \in {0, 1}
    <3>1. CASE k - 1 = l
      BY <1>3, <3>1
    <3>2. CASE k - 1 # l
      BY <2>2, <3>2
    <3>. QED BY <3>1, <3>2
  <2>5. Half[k] = 0
    <3>1. 0 \div 2 = 0 /\ 1 \div 2 = 0
      OBVIOUS
    <3>2. Half[k] = Half[k - 1] \div 2
      BY ONLY <2>3
    <3>. QED BY ONLY <2>4, <3>1, <3>2
  <2>. QED BY <2>1, <2>5
<1>4. ASSUME NEW l \in 0 .. N, l # Last, Half[l] = 1 PROVE FALSE
  <2>1. l > Last \/ Last > l
    BY <1>2, <1>4
  <2>. QED BY <1>2, <1>3, <1>4, <2>1
<1>. QED BY <1>2, <1>4

\* If the number of parties is a power of two, the inputs fill the tree.
LEMMA PowerOfTwo ==
  ASSUME NEW m \in Nat, N = Width[m]
  PROVE  N = Width[Last]
<1>. USE HalfFacts, WidthFacts
<1>1. m \in 0 .. N
  OBVIOUS
<1>2. ASSUME NEW i \in 0 .. m PROVE Half[i] = Width[m - i]
  <2>. DEFINE Bad == {k \in 0 .. m : Half[k] # Width[m - k]}
  <2>. SUFFICES ASSUME Bad # {} PROVE FALSE
    OBVIOUS
  <2>1. PICK k \in Bad : \A j \in Bad : k <= j
    <3>1. Bad \subseteq Nat
      OBVIOUS
    <3>. QED BY <3>1, LeastNat
  <2>2. k # 0 /\ k \in 0 .. m /\ m \in 0 .. N
    BY <1>1, <2>1
  <2>3. k - 1 \in 0 .. N - 1 /\ k - 1 \in 0 .. m /\ k - 1 \notin Bad /\ m - k \in Nat
    <3>1. k - 1 \in 0 .. N - 1 /\ k - 1 \in 0 .. m /\ m - k \in Nat /\ ~(k <= k - 1)
      BY <2>2
    <3>. QED BY <2>1, <3>1
  <2>4. Half[(k - 1) + 1] = Half[k - 1] \div 2 /\ (k - 1) + 1 = k
    BY <2>2, <2>3
  <2>5. Width[(m - k) + 1] = 2 * Width[m - k] /\ (m - k) + 1 = m - (k - 1) /\ Width[m - k] \in Nat
    BY <2>1, <2>3
  <2>6. Half[k - 1] = Width[m - (k - 1)]
    BY <2>3
  <2>. QED BY <2>1, <2>4, <2>5, <2>6
<1>3. Half[m] = 1
  BY <1>2
<1>. QED BY <1>1, <1>3, LastFacts

-----------------------------------------------------------------------------
(* The tree of products.                                                   *)

\* The places of the tree: a level has half as many as the one before, so the
\* operands of a product exist.
LEMMA PlaceFacts ==
  /\ N \in Nat \ {0} /\ Last \in 0 .. N
  /\ \A p \in Places : p \in Level \X Input /\ p[1] \in 0 .. Last /\ p[2] \in Input /\ p = <<p[1], p[2]>>
  /\ \A i \in Input : <<0, i>> \in Places
  /\ <<Last, 0>> \in Places
  /\ \A l \in 0 .. Last - 1 : Length(l + 1) \in 0 .. N
  /\ \A l \in 0 .. Last - 1 : \A j \in Nat : j < Length(l + 1) =>
        /\ <<l + 1, j>> \in Places /\ j \in Input
        /\ Operand1(<<l + 1, j>>) = <<l, 2 * j>> /\ <<l, 2 * j>> \in Places
        /\ Operand2(<<l + 1, j>>) = <<l, 2 * j + 1>> /\ <<l, 2 * j + 1>> \in Places
<1>. USE HalfFacts, LastFacts DEF Length
<1>1. ASSUME NEW p \in Places
      PROVE  p \in Level \X Input /\ p[1] \in 0 .. Last /\ p[2] \in Input /\ p = <<p[1], p[2]>>
  BY DEF Places, Level
<1>2. ASSUME NEW i \in Input PROVE <<0, i>> \in Places
  <2>1. 0 \in Level /\ i < Half[0]
    BY DEF Input, Level
  <2>. QED BY <2>1 DEF Places
<1>3. <<Last, 0>> \in Places
  <2>1. Last \in Level /\ 0 \in Input /\ 0 < Half[Last]
    BY DEF Level, Input
  <2>. QED BY <2>1 DEF Places
<1>4. ASSUME NEW l \in 0 .. Last - 1
      PROVE  l \in 0 .. N - 1 /\ l \in 0 .. N /\ l + 1 \in 0 .. N /\ l \in Level /\ l + 1 \in Level /\ l + 1 - 1 = l
  BY DEF Level
<1>5. ASSUME NEW l \in 0 .. Last - 1, NEW j \in Nat, j < Length(l + 1)
      PROVE  /\ <<l + 1, j>> \in Places /\ j \in Input
             /\ Operand1(<<l + 1, j>>) = <<l, 2 * j>> /\ <<l, 2 * j>> \in Places
             /\ Operand2(<<l + 1, j>>) = <<l, 2 * j + 1>> /\ <<l, 2 * j + 1>> \in Places
  <2>1. /\ Half[l + 1] = Half[l] \div 2 /\ Half[l + 1] \in 0 .. N /\ Half[l] \in 0 .. N /\ j < Half[l + 1]
    BY <1>4, <1>5
  <2>2. 2 * j + 1 < Half[l] /\ 2 * j < Half[l]
    <3>1. ASSUME NEW h \in Nat, j < h \div 2 PROVE 2 * j + 1 < h /\ 2 * j < h
      BY ONLY <3>1, j \in Nat
    <3>2. Half[l] \in Nat /\ j < Half[l] \div 2
      BY ONLY <2>1, N \in Nat
    <3>. QED BY ONLY <3>1, <3>2
  <2>3. j \in Input /\ 2 * j \in Input /\ 2 * j + 1 \in Input
    BY <2>1, <2>2 DEF Input
  <2>4. <<l + 1, j>> \in Places /\ <<l, 2 * j>> \in Places /\ <<l, 2 * j + 1>> \in Places
    BY <1>4, <2>1, <2>2, <2>3 DEF Places
  <2>. QED BY <1>4, <2>3, <2>4 DEF Operand1, Operand2
<1>6. \A l \in 0 .. Last - 1 : Length(l + 1) \in 0 .. N
  BY <1>4
<1>. QED BY <1>1, <1>2, <1>3, <1>5, <1>6

\* The places of the products that were handed out.
LEMMA TaskPlaces ==
  ASSUME TypeOK, LevelInv, NEW w \in Worker, Working(w)
  PROVE  /\ level \in 0 .. Last - 1
         /\ \E j \in Nat : /\ j < next /\ j < Length(level + 1) /\ task[w] = <<level + 1, j>>
                           /\ task[w] \in Places
<1>1. PICK j \in 0 .. next - 1 : task[w] = <<level + 1, j>>
  BY DEF LevelInv
<1>2. level \in 0 .. Last - 1 /\ next <= Length(level + 1) /\ Length(level + 1) \in 0 .. N /\ next \in 0 .. N
  BY PlaceFacts DEF LevelInv, Products, TypeOK, Level
<1>3. j \in Nat /\ j < next /\ j < Length(level + 1)
  BY <1>2
<1>. QED BY <1>1, <1>2, <1>3, PlaceFacts

\* The inputs below a place are those below its operands.
LEMMA ProductOfOperands ==
  ASSUME NEW l \in Nat, NEW j \in Nat
  PROVE  [k \in Input |-> Product(<<l, 2 * j>>)[k] + Product(<<l, 2 * j + 1>>)[k]] = Product(<<l + 1, j>>)
<1>. DEFINE width == Width[l]
            x == j * width
<1>1. width \in Nat \ {0} /\ Width[l + 1] = 2 * width /\ x \in Nat
  BY WidthFacts
<1>. DEFINE a == (2 * j) * width
            b == (2 * j + 1) * width
            c == (2 * j + 1 + 1) * width
            d == j * (2 * width)
            e == (j + 1) * (2 * width)
<1>2. a = 2 * x /\ b = 2 * x + width /\ c = 2 * x + 2 * width /\ d = 2 * x /\ e = 2 * x + 2 * width
  <2>. HIDE DEF width
  <2>. QED BY <1>1
<1>3. /\ Below(<<l, 2 * j>>) = a .. b - 1
      /\ Below(<<l, 2 * j + 1>>) = b .. c - 1
      /\ Below(<<l + 1, j>>) = d .. e - 1
  BY <1>1 DEF Below
<1>. HIDE DEF a, b, c, d, e
<1>. HIDE DEF width, x
<1>4. ASSUME NEW k \in Input
      PROVE  Product(<<l, 2 * j>>)[k] + Product(<<l, 2 * j + 1>>)[k] = Product(<<l + 1, j>>)[k]
  <2>1. k \in Int
    BY PlaceFacts DEF Input
  <2>2. /\ k \in Below(<<l + 1, j>>) <=> k \in Below(<<l, 2 * j>>) \/ k \in Below(<<l, 2 * j + 1>>)
        /\ ~(k \in Below(<<l, 2 * j>>) /\ k \in Below(<<l, 2 * j + 1>>))
    BY <1>1, <1>2, <1>3, <2>1
  <2>. QED BY <2>2 DEF Product
<1>. QED BY <1>4 DEF Product

\* An input is the product of itself, and the last product is that of all
\* inputs if they fill the tree.
LEMMA ProductFacts ==
  /\ \A p : Product(p) \in [Input -> Nat]
  /\ \A i \in Input : Product(<<0, i>>) = Only(i)
  /\ N = Width[Last] => \A i \in Input : Product(<<Last, 0>>)[i] = 1
<1>1. ASSUME NEW i \in Input PROVE Product(<<0, i>>) = Only(i)
  <2>1. i \in Int /\ Below(<<0, i>>) = i .. i
    <3>1. i \in Int /\ i * 1 = i /\ (i + 1) * 1 - 1 = i
      BY PlaceFacts DEF Input
    <3>2. Below(<<0, i>>) = i * 1 .. (i + 1) * 1 - 1
      BY WidthFacts DEF Below
    <3>. QED BY <3>1, <3>2
  <2>2. \A k \in Input : k \in Int
    BY PlaceFacts DEF Input
  <2>. QED BY <2>1, <2>2 DEF Product, Only
<1>2. ASSUME N = Width[Last] PROVE \A i \in Input : Product(<<Last, 0>>)[i] = 1
  <2>1. 0 * N = 0 /\ (0 + 1) * N = N
    BY PlaceFacts
  <2>2. Below(<<Last, 0>>) = Input
    BY <1>2, <2>1 DEF Below, Input
  <2>. QED BY <2>2 DEF Product
<1>3. \A p : Product(p) \in [Input -> Nat]
  BY DEF Product
<1>. QED BY <1>1, <1>2, <1>3

\* The workers are finitely many.
LEMMA Workers ==
  /\ IsFiniteSet(Worker) /\ Cardinality(Worker) = NGoRoutine /\ NGoRoutine \in Nat \ {0}
  /\ \A S \in SUBSET Worker : IsFiniteSet(S) /\ Cardinality(S) \in 0 .. NGoRoutine
<1>1. NGoRoutine \in Nat \ {0} /\ IsFiniteSet(Worker) /\ Cardinality(Worker) = NGoRoutine
  BY NGoRoutineAssumption, FS_Interval DEF Worker
<1>2. ASSUME NEW S \in SUBSET Worker PROVE IsFiniteSet(S) /\ Cardinality(S) \in 0 .. NGoRoutine
  BY <1>1, FS_Subset, FS_CardinalityType
<1>. QED BY <1>1, <1>2

-----------------------------------------------------------------------------
(* The two properties of the pool, from the invariant.                     *)

\* No two workers share a ciphertext that one of them writes.
LEMMA NoneShared == TypeOK /\ LevelInv => NoSharedCiphertext
<1>. SUFFICES ASSUME TypeOK, LevelInv, NEW v \in Worker, NEW w \in Worker,
                     v # w, Working(v), Working(w)
              PROVE  task[v] \notin {task[w], Operand1(task[w]), Operand2(task[w])}
  BY DEF NoSharedCiphertext
<1>1. level \in 0 .. Last - 1 /\ Last \in Nat
  BY TaskPlaces, PlaceFacts
<1>2. PICK i \in Nat : task[v] = <<level + 1, i>>
  BY TaskPlaces
<1>3. PICK j \in Nat : j < Length(level + 1) /\ task[w] = <<level + 1, j>>
  BY TaskPlaces
<1>4. Operand1(task[w]) = <<level, 2 * j>> /\ Operand2(task[w]) = <<level, 2 * j + 1>>
  BY <1>1, <1>3, PlaceFacts
<1>5. level + 1 # level
  BY <1>1
<1>6. task[v] # task[w]
  BY DEF LevelInv
<1>. QED BY <1>2, <1>4, <1>5, <1>6

\* What a worker is about to multiply is finished.
LEMMA OperandsOfTask ==
  ASSUME EvalInv, encInputs = N, NEW w \in Worker, stage[w] = "multiply"
  PROVE  /\ Operand1(task[w]) \in Places /\ Finished(Operand1(task[w]))
         /\ Operand2(task[w]) \in Places /\ Finished(Operand2(task[w]))
<1>1. TypeOK /\ LevelInv /\ Working(w)
  BY DEF EvalInv, Working
<1>2. level \in 0 .. Last - 1 /\ Last \in Nat
  BY <1>1, TaskPlaces, PlaceFacts
<1>3. PICK j \in Nat : j < Length(level + 1) /\ task[w] = <<level + 1, j>>
  BY <1>1, TaskPlaces
<1>4. /\ Operand1(task[w]) = <<level, 2 * j>> /\ <<level, 2 * j>> \in Places
      /\ Operand2(task[w]) = <<level, 2 * j + 1>> /\ <<level, 2 * j + 1>> \in Places
  BY <1>2, <1>3, PlaceFacts
<1>5. ASSUME NEW p \in Places, p[1] = level PROVE Finished(p)
  <2>1. p[2] < encInputs
    BY PlaceFacts DEF Input
  <2>2. level = 0 \/ level \in 1 .. level
    BY <1>2
  <2>. QED BY <1>5, <2>1, <2>2 DEF EvalInv, DataInv
<1>. QED BY <1>4, <1>5

-----------------------------------------------------------------------------
(* The steps of the evaluation.                                            *)

\* A task that worker w takes or gives up counts.
LEMMA OneWorker ==
  ASSUME NEW S \in SUBSET Worker, NEW T \in SUBSET Worker, NEW w \in Worker
  PROVE  /\ w \notin S /\ T = S \cup {w} => Cardinality(T) = Cardinality(S) + 1
         /\ w \in S /\ T = S \ {w} => Cardinality(T) = Cardinality(S) - 1
         /\ Cardinality(S) = 0 <=> S = {}
         /\ Cardinality(S) \in 0 .. NGoRoutine
BY Workers, FS_AddElement, FS_RemoveElement, FS_EmptySet

\* A product is handed to a worker that waits.
LEMMA HandStep ==
  ASSUME EvalInv, NEW w \in Worker, Hand(w), UNCHANGED encInputs
  PROVE  EvalInv'
<1>. DEFINE S == {v \in Worker : Working(v)}
            T == {v \in Worker : Working(v)'}
            place == <<level + 1, next>>
<1>1. /\ TypeOK /\ level \in 0 .. Last - 1 /\ level < Last /\ next \in 0 .. N /\ next < Length(level + 1)
      /\ stage[w] = "receive" /\ next' = next + 1
      /\ task' = [task EXCEPT ![w] = place] /\ stage' = [stage EXCEPT ![w] = "multiply"]
      /\ UNCHANGED <<level, wg, open, workers, returned, factors, degree, encInputs>>
  BY PlaceFacts DEF EvalInv, TypeOK, Hand, Level
<1>2. place \in Places /\ Products = Length(level + 1) /\ Products' = Products
      /\ Products \in 0 .. N /\ next + 1 <= Products /\ next + 1 \in 0 .. N
  <2>1. Products = Length(level + 1) /\ Products' = Products
    BY <1>1 DEF Products, Length
  <2>2. Length(level + 1) \in 0 .. N /\ N \in Nat
    BY <1>1, PlaceFacts
  <2>3. next \in Nat /\ place \in Places
    <3>1. next \in Nat
      BY <1>1, <2>2
    <3>. QED BY <1>1, <3>1, PlaceFacts
  <2>4. next + 1 <= Length(level + 1) /\ next + 1 \in 0 .. N
    BY <1>1, <2>2, <2>3
  <2>. QED BY <2>1, <2>2, <2>3, <2>4
<1>3. /\ \A v \in Worker : v # w => stage'[v] = stage[v] /\ task'[v] = task[v]
      /\ stage'[w] = "multiply" /\ task'[w] = place
  BY <1>1 DEF TypeOK
<1>4. /\ ~Working(w) /\ Working(w)'
      /\ \A v \in Worker : v # w => (Working(v)' <=> Working(v))
  BY <1>1, <1>3 DEF Working
<1>5. TypeOK'
  BY <1>1, <1>2 DEF TypeOK
<1>6. LevelInv'
  <2>1. ASSUME NEW v \in Worker
        PROVE  /\ Working(v)' => \E j \in 0 .. next' - 1 : task'[v] = <<level' + 1, j>>
               /\ ~Working(v)' => task'[v] = Idle
    <3>1. CASE v = w
      BY <1>1, <1>3, <1>4, <3>1
    <3>2. CASE v # w
      <4>1. Working(v) => \E j \in 0 .. next - 1 : task[v] = <<level + 1, j>>
        BY DEF EvalInv, LevelInv
      <4>2. 0 .. next - 1 \subseteq 0 .. next' - 1
        BY <1>1
      <4>. QED BY <1>1, <1>3, <1>4, <3>2, <4>1, <4>2 DEF EvalInv, LevelInv
    <3>. QED BY <3>1, <3>2
  <2>2. ASSUME NEW v \in Worker, v # w, Working(v) PROVE task[v] # place
    <3>1. PICK j \in 0 .. next - 1 : task[v] = <<level + 1, j>>
      BY <2>2 DEF EvalInv, LevelInv
    <3>2. j # next
      BY <1>1
    <3>. QED BY <3>1, <3>2
  <2>3. ASSUME NEW u \in Worker, NEW v \in Worker, u # v, Working(u)', Working(v)'
        PROVE  task'[u] # task'[v]
    <3>. HIDE DEF place
    <3>1. u # w /\ v # w => task[u] # task[v]
      BY <1>4, <2>3 DEF EvalInv, LevelInv
    <3>. QED BY <1>3, <1>4, <2>2, <2>3, <3>1
  <2>4. wg' = Products' - next' + Cardinality(T)
    <3>1. T = S \cup {w} /\ w \notin S
      BY <1>4
    <3>. HIDE DEF T, S
    <3>2. S \in SUBSET Worker /\ T \in SUBSET Worker
      BY DEF S, T
    <3>3. Cardinality(T) = Cardinality(S) + 1 /\ Cardinality(S) \in Nat
      BY <3>1, <3>2, OneWorker
    <3>4. wg = Products - next + Cardinality(S)
      BY DEF EvalInv, LevelInv, S
    <3>. QED BY <1>1, <1>2, <3>3, <3>4
  <2>. QED BY <1>1, <1>2, <2>1, <2>3, <2>4 DEF LevelInv
<1>7. DataInv'
  <2>1. ASSUME NEW p \in Places PROVE Finished(p)' <=> Finished(p)
    BY <1>1 DEF Finished
  <2>2. ASSUME NEW p \in Places, p[1] = level + 1, p[2] < next + 1
        PROVE  Finished(p) \/ \E v \in Worker : stage'[v] \in {"multiply", "relinearize"} /\ task'[v] = p
    <3>1. CASE p[2] < next
      <4>1. Finished(p) \/ \E v \in Worker : stage[v] \in {"multiply", "relinearize"} /\ task[v] = p
        BY <2>2, <3>1 DEF EvalInv, DataInv
      <4>2. ASSUME NEW v \in Worker, stage[v] \in {"multiply", "relinearize"}
            PROVE  stage'[v] = stage[v] /\ task'[v] = task[v]
        BY <1>1, <1>3, <4>2
      <4>. QED BY <4>1, <4>2
    <3>2. CASE ~(p[2] < next)
      <4>1. p[2] \in Nat
        BY PlaceFacts DEF Input
      <4>2. p[2] = next
        BY <1>1, <2>2, <3>2, <4>1
      <4>3. p = place
        BY <2>2, <4>2, PlaceFacts
      <4>. QED BY <1>3, <4>3
    <3>. QED BY <3>1, <3>2
  <2>3. ASSUME NEW v \in Worker, stage'[v] = "relinearize" PROVE factors'[task'[v]] = Product(task'[v])
    <3>1. v # w
      BY <1>3, <2>3
    <3>2. stage[v] = "relinearize" /\ task'[v] = task[v] /\ factors' = factors
      BY <1>1, <1>3, <2>3, <3>1
    <3>. QED BY <3>2 DEF EvalInv, DataInv
  <2>. QED BY <1>1, <2>1, <2>2, <2>3 DEF EvalInv, DataInv, Product, Below
<1>8. PoolInv'
  <2>1. {v \in Worker : stage'[v] # "down"} = {v \in Worker : stage[v] # "down"}
    BY <1>1, <1>3
  <2>. QED BY <1>1, <1>3, <2>1 DEF EvalInv, PoolInv
<1>. QED BY <1>5, <1>6, <1>7, <1>8 DEF EvalInv

\* The main goroutine goes on to the next level: this one is finished.
LEMMA NextLevelStep ==
  ASSUME EvalInv, NextLevel, UNCHANGED encInputs
  PROVE  EvalInv'
<1>. DEFINE S == {v \in Worker : Working(v)}
<1>1. /\ TypeOK /\ level \in 0 .. Last - 1 /\ level < Last /\ level' = level + 1 /\ next' = 0
      /\ next = Length(level + 1) /\ wg = 0 /\ wg' = Products'
      /\ UNCHANGED <<task, stage, open, workers, returned, factors, degree, encInputs>>
  <2>1. /\ TypeOK /\ level \in 0 .. Last - 1 /\ level < Last /\ level' = level + 1 /\ next' = 0
        /\ next = Length(level + 1) /\ wg = 0
        /\ wg' = IF level + 1 < Last THEN Length(level + 2) ELSE 0
        /\ UNCHANGED <<task, stage, open, workers, returned, factors, degree, encInputs>>
    BY PlaceFacts DEF EvalInv, TypeOK, NextLevel, Level
  <2>2. level + 2 = level' + 1
    BY <2>1
  <2>3. Products' = IF level' < Last THEN Length(level' + 1) ELSE 0
    BY DEF Products, Length
  <2>. QED BY <2>1, <2>2, <2>3
<1>2. Products = next /\ next \in 0 .. N
  BY <1>1 DEF Products, TypeOK
<1>3. \A v \in Worker : ~Working(v)
  <2>1. Cardinality(S) = 0
    <3>1. Cardinality(S) \in Nat
      BY Workers
    <3>2. wg = Products - next + Cardinality(S)
      BY DEF EvalInv, LevelInv
    <3>. QED BY <1>1, <1>2, <3>1, <3>2
  <2>2. S = {}
    BY <2>1, Workers, FS_EmptySet
  <2>. QED BY <2>2
<1>4. level' \in Level /\ Products' \in 0 .. N
  <2>1. level' \in 0 .. Last
    BY <1>1, PlaceFacts
  <2>2. level' < Last => level' \in 0 .. Last - 1
    BY <2>1, PlaceFacts
  <2>. QED BY <2>1, <2>2, PlaceFacts DEF Products, Level, Length
<1>5. TypeOK'
  BY <1>1, <1>4, PlaceFacts DEF TypeOK
<1>6. LevelInv'
  <2>1. \A v \in Worker : ~Working(v)' /\ task'[v] = Idle
    BY <1>1, <1>3 DEF EvalInv, LevelInv, Working
  <2>2. {v \in Worker : Working(v)'} = {}
    BY <2>1
  <2>3. Cardinality({v \in Worker : Working(v)'}) = 0
    BY <2>2, FS_EmptySet
  <2>4. wg' = Products' - next' + Cardinality({v \in Worker : Working(v)'})
    <3>1. \A m \in Nat : m = m - 0 + 0
      OBVIOUS
    <3>2. Products' \in Nat
      BY <1>4
    <3>. QED BY <1>1, <2>3, <3>1, <3>2
  <2>. QED BY <1>1, <1>4, <2>1, <2>4 DEF LevelInv
<1>7. DataInv'
  <2>1. ASSUME NEW p \in Places PROVE Finished(p)' <=> Finished(p)
    BY <1>1 DEF Finished
  <2>2. ASSUME NEW p \in Places, p[1] \in 1 .. level + 1 PROVE Finished(p)
    <3>1. CASE p[1] = level + 1
      <4>1. p[2] < next
        BY <1>1, <3>1 DEF Places
      <4>2. \A v \in Worker : stage[v] \notin {"multiply", "relinearize"}
        BY <1>3 DEF Working
      <4>. QED BY <3>1, <4>1, <4>2 DEF EvalInv, DataInv
    <3>2. CASE p[1] # level + 1
      <4>1. p[1] \in 1 .. level
        BY <1>1, <2>2, <3>2
      <4>. QED BY <4>1 DEF EvalInv, DataInv
    <3>. QED BY <3>1, <3>2
  <2>3. \A p \in Places : ~(p[2] < 0)
    BY PlaceFacts DEF Input
  <2>4. \A v \in Worker : stage'[v] # "relinearize"
    BY <1>1, <1>3 DEF Working
  <2>. QED BY <1>1, <2>1, <2>2, <2>3, <2>4 DEF EvalInv, DataInv
<1>8. PoolInv'
  <2>1. open
    BY <1>1, PlaceFacts DEF EvalInv, PoolInv
  <2>. QED BY <1>1, <2>1 DEF EvalInv, PoolInv
<1>. QED BY <1>5, <1>6, <1>7, <1>8 DEF EvalInv

\* A step that leaves the workers and the ciphertexts alone keeps what the
\* invariant says of them.
LEMMA LevelFrame ==
  ASSUME EvalInv, UNCHANGED <<level, next, wg, task, stage, factors, degree, encInputs>>
  PROVE  LevelInv' /\ DataInv'
BY DEF EvalInv, LevelInv, DataInv, Products, Working, Finished, Product, Below, Length

\* The channel is closed, and evalPhase returns.
LEMMA EndStep ==
  ASSUME EvalInv, CloseTasks \/ Return, UNCHANGED encInputs
  PROVE  EvalInv'
<1>1. /\ UNCHANGED <<level, next, wg, task, stage, factors, degree, workers, encInputs>>
      /\ open' \in BOOLEAN /\ returned' \in BOOLEAN
      /\ open' = FALSE \/ open' = open
      /\ ~open' => level = Last
      /\ returned' => ~open'
  <2>1. CASE CloseTasks
    BY <2>1 DEF EvalInv, TypeOK, PoolInv, CloseTasks
  <2>2. CASE Return
    BY <2>2 DEF EvalInv, TypeOK, PoolInv, Return
  <2>. QED BY <2>1, <2>2
<1>2. LevelInv' /\ DataInv'
  BY <1>1, LevelFrame
<1>3. TypeOK'
  BY <1>1 DEF EvalInv, TypeOK
<1>4. PoolInv'
  BY <1>1 DEF EvalInv, PoolInv, TypeOK
<1>. QED BY <1>2, <1>3, <1>4 DEF EvalInv

\* evaluator.Mul: the product of two finished operands.
LEMMA MultiplyStep ==
  ASSUME EvalInv, encInputs = N, NEW w \in Worker, Multiply(w), UNCHANGED encInputs
  PROVE  EvalInv'
<1>. DEFINE res == task[w]
            sum == [k \in Input |-> factors[Operand1(res)][k] + factors[Operand2(res)][k]]
<1>1. /\ TypeOK /\ stage[w] = "multiply"
      /\ factors' = [factors EXCEPT ![res] = sum] /\ degree' = [degree EXCEPT ![res] = 2]
      /\ stage' = [stage EXCEPT ![w] = "relinearize"]
      /\ UNCHANGED <<level, next, wg, task, open, workers, returned>>
  BY DEF EvalInv, Multiply
<1>2. /\ \A v \in Worker : v # w => stage'[v] = stage[v]
      /\ stage'[w] = "relinearize"
  BY <1>1 DEF TypeOK
<1>3. \A v \in Worker : Working(v)' <=> Working(v)
  BY <1>1, <1>2 DEF Working
<1>4. /\ level \in 0 .. Last - 1 /\ res \in Places
      /\ \E j \in Nat : j < next /\ j < Length(level + 1) /\ res = <<level + 1, j>>
  BY <1>1, TaskPlaces DEF EvalInv, Working
<1>5. sum = Product(res)
  <2>1. PICK j \in Nat : j < Length(level + 1) /\ res = <<level + 1, j>>
    BY <1>4
  <2>2. Operand1(res) = <<level, 2 * j>> /\ Operand2(res) = <<level, 2 * j + 1>>
    BY <1>4, <2>1, PlaceFacts
  <2>3. factors[Operand1(res)] = Product(Operand1(res)) /\ factors[Operand2(res)] = Product(Operand2(res))
    BY <1>1, OperandsOfTask DEF Finished
  <2>4. level \in Nat
    BY <1>4, PlaceFacts
  <2>5. sum = [k \in Input |-> Product(<<level, 2 * j>>)[k] + Product(<<level, 2 * j + 1>>)[k]]
    BY <2>2, <2>3
  <2>. QED BY <2>1, <2>4, <2>5, ProductOfOperands
<1>. HIDE DEF sum
<1>6. factors'[res] = Product(res)
      /\ \A p \in Places : p # res => factors'[p] = factors[p] /\ degree'[p] = degree[p]
  BY <1>1, <1>4, <1>5 DEF TypeOK
<1>7. TypeOK'
  <2>1. factors' \in [Places -> [Input -> Nat]]
    BY <1>1, <1>4, <1>5, ProductFacts DEF TypeOK
  <2>2. degree' \in [Places -> 0 .. 2] /\ stage' \in [Worker -> {"receive", "multiply", "relinearize", "done", "down"}]
    BY <1>1, <1>4 DEF TypeOK
  <2>. QED BY <1>1, <2>1, <2>2 DEF TypeOK
<1>8. LevelInv'
  <2>1. {v \in Worker : Working(v)'} = {v \in Worker : Working(v)}
    BY <1>3
  <2>2. Products' = Products
    BY <1>1 DEF Products, Length
  <2>. QED BY <1>1, <1>3, <2>1, <2>2 DEF EvalInv, LevelInv
<1>9. DataInv'
  <2>1. ASSUME NEW p \in Places, p # res, Finished(p) PROVE Finished(p)'
    BY <1>6, <2>1 DEF Finished, Product, Below
  <2>2. res[1] = level + 1 /\ res[1] # 0 /\ res[1] \notin 1 .. level
    BY <1>4
  <2>3. ASSUME NEW p \in Places, p[1] = level + 1, p[2] < next
        PROVE  Finished(p)' \/ \E v \in Worker : stage'[v] \in {"multiply", "relinearize"} /\ task'[v] = p
    <3>1. CASE p = res
      BY <1>1, <1>2, <3>1
    <3>2. CASE p # res
      <4>1. Finished(p) \/ \E v \in Worker : stage[v] \in {"multiply", "relinearize"} /\ task[v] = p
        BY <2>3 DEF EvalInv, DataInv
      <4>2. ASSUME NEW v \in Worker, task[v] = p PROVE stage'[v] = stage[v] /\ task'[v] = task[v]
        BY <1>1, <1>2, <3>2, <4>2
      <4>. QED BY <2>1, <3>2, <4>1, <4>2
    <3>. QED BY <3>1, <3>2
  <2>4. ASSUME NEW v \in Worker, stage'[v] = "relinearize" PROVE factors'[task'[v]] = Product(task'[v])
    <3>1. CASE v = w
      BY <1>1, <1>6, <3>1
    <3>2. CASE v # w
      <4>1. stage[v] = "relinearize" /\ Working(v) /\ Working(w) /\ task'[v] = task[v]
        BY <1>1, <1>2, <2>4, <3>2 DEF Working
      <4>2. task[v] # res /\ task[v] \in Places
        BY <1>1, <3>2, <4>1, TaskPlaces DEF EvalInv, LevelInv
      <4>. QED BY <1>6, <4>1, <4>2 DEF EvalInv, DataInv
    <3>. QED BY <3>1, <3>2
  <2>. HIDE DEF res
  <2>5. \A p \in Places : /\ p[1] = 0 /\ p[2] < encInputs' => Finished(p)'
                          /\ p[1] \in 1 .. level' => Finished(p)'
    BY <1>1, <2>1, <2>2 DEF EvalInv, DataInv
  <2>. QED BY <1>1, <2>3, <2>4, <2>5 DEF DataInv, Product, Below
<1>10. PoolInv'
  <2>1. {v \in Worker : stage'[v] # "down"} = {v \in Worker : stage[v] # "down"}
    BY <1>1, <1>2
  <2>. QED BY <1>1, <1>2, <2>1 DEF EvalInv, PoolInv
<1>. QED BY <1>7, <1>8, <1>9, <1>10 DEF EvalInv

\* evaluator.Relinearize: the product is finished.
LEMMA RelinearizeStep ==
  ASSUME EvalInv, NEW w \in Worker, Relinearize(w), UNCHANGED encInputs
  PROVE  EvalInv'
<1>. DEFINE res == task[w]
<1>1. /\ TypeOK /\ stage[w] = "relinearize"
      /\ degree' = [degree EXCEPT ![res] = 1] /\ stage' = [stage EXCEPT ![w] = "done"]
      /\ UNCHANGED <<level, next, wg, task, open, workers, returned, factors>>
  BY DEF EvalInv, Relinearize
<1>2. /\ \A v \in Worker : v # w => stage'[v] = stage[v]
      /\ stage'[w] = "done"
  BY <1>1 DEF TypeOK
<1>3. \A v \in Worker : Working(v)' <=> Working(v)
  BY <1>1, <1>2 DEF Working
<1>4. res \in Places
  BY <1>1, TaskPlaces DEF EvalInv, Working
<1>5. degree'[res] = 1 /\ \A p \in Places : p # res => degree'[p] = degree[p]
  BY <1>1, <1>4 DEF TypeOK
<1>6. TypeOK'
  <2>1. degree' \in [Places -> 0 .. 2] /\ stage' \in [Worker -> {"receive", "multiply", "relinearize", "done", "down"}]
    BY <1>1, <1>4 DEF TypeOK
  <2>. QED BY <1>1, <2>1 DEF TypeOK
<1>7. LevelInv'
  <2>1. {v \in Worker : Working(v)'} = {v \in Worker : Working(v)}
    BY <1>3
  <2>2. Products' = Products
    BY <1>1 DEF Products, Length
  <2>. QED BY <1>1, <1>3, <2>1, <2>2 DEF EvalInv, LevelInv
<1>8. DataInv'
  <2>1. degree'[res] = 1 /\ factors'[res] = Product(res)
    BY <1>1, <1>5 DEF EvalInv, DataInv
  <2>2. ASSUME NEW p \in Places, Finished(p) PROVE Finished(p)'
    BY <1>1, <1>5, <2>1, <2>2 DEF Finished, Product, Below
  <2>3. ASSUME NEW p \in Places, p[1] = level + 1, p[2] < next
        PROVE  Finished(p)' \/ \E v \in Worker : stage'[v] \in {"multiply", "relinearize"} /\ task'[v] = p
    <3>1. CASE p = res
      BY <2>1, <3>1 DEF Finished, Product, Below
    <3>2. CASE p # res
      <4>1. Finished(p) \/ \E v \in Worker : stage[v] \in {"multiply", "relinearize"} /\ task[v] = p
        BY <2>3 DEF EvalInv, DataInv
      <4>2. ASSUME NEW v \in Worker, task[v] = p PROVE stage'[v] = stage[v] /\ task'[v] = task[v]
        BY <1>1, <1>2, <3>2, <4>2
      <4>. QED BY <2>2, <4>1, <4>2
    <3>. QED BY <3>1, <3>2
  <2>4. ASSUME NEW v \in Worker, stage'[v] = "relinearize" PROVE factors'[task'[v]] = Product(task'[v])
    BY <1>1, <1>2, <2>4 DEF EvalInv, DataInv
  <2>. HIDE DEF res
  <2>5. \A p \in Places : /\ p[1] = 0 /\ p[2] < encInputs' => Finished(p)'
                          /\ p[1] \in 1 .. level' => Finished(p)'
    BY <1>1, <2>2 DEF EvalInv, DataInv
  <2>. QED BY <1>1, <2>3, <2>4, <2>5 DEF DataInv, Product, Below
<1>9. PoolInv'
  <2>1. {v \in Worker : stage'[v] # "down"} = {v \in Worker : stage[v] # "down"}
    BY <1>1, <1>2
  <2>. QED BY <1>1, <1>2, <2>1 DEF EvalInv, PoolInv
<1>. QED BY <1>6, <1>7, <1>8, <1>9 DEF EvalInv

\* task.wg.Done()
LEMMA DoneStep ==
  ASSUME EvalInv, NEW w \in Worker, Done(w), UNCHANGED encInputs
  PROVE  EvalInv'
<1>. DEFINE S == {v \in Worker : Working(v)}
            T == {v \in Worker : Working(v)'}
<1>1. /\ TypeOK /\ stage[w] = "done" /\ wg' = wg - 1
      /\ task' = [task EXCEPT ![w] = Idle] /\ stage' = [stage EXCEPT ![w] = "receive"]
      /\ UNCHANGED <<level, next, open, workers, returned, factors, degree, encInputs>>
  BY DEF EvalInv, Done
<1>2. /\ \A v \in Worker : v # w => stage'[v] = stage[v] /\ task'[v] = task[v]
      /\ stage'[w] = "receive" /\ task'[w] = Idle
  BY <1>1 DEF TypeOK
<1>3. /\ Working(w) /\ ~Working(w)'
      /\ \A v \in Worker : v # w => (Working(v)' <=> Working(v))
  BY <1>1, <1>2 DEF Working
<1>4. Products' = Products /\ Products \in Nat /\ next \in Nat /\ next <= Products /\ wg \in 0 .. N
      /\ N \in Nat
  <2>1. Products' = Products
    BY <1>1 DEF Products, Length
  <2>2. level < Last => level \in 0 .. Last - 1
    BY <1>1, PlaceFacts DEF TypeOK, Level
  <2>3. Products \in Nat
    BY <2>2, PlaceFacts DEF Products
  <2>. QED BY <1>1, <2>1, <2>3, PlaceFacts DEF EvalInv, LevelInv, TypeOK
<1>5. wg' = Products' - next' + Cardinality(T) /\ wg' \in 0 .. N
  <2>1. T = S \ {w} /\ w \in S
    BY <1>3
  <2>. HIDE DEF T, S
  <2>2. S \in SUBSET Worker /\ T \in SUBSET Worker
    BY DEF S, T
  <2>3. Cardinality(T) = Cardinality(S) - 1 /\ Cardinality(S) \in Nat /\ Cardinality(T) \in Nat
    BY <2>1, <2>2, OneWorker
  <2>4. wg = Products - next + Cardinality(S)
    BY DEF EvalInv, LevelInv, S
  <2>. QED BY <1>1, <1>4, <2>3, <2>4
<1>6. TypeOK'
  BY <1>1, <1>5 DEF TypeOK
<1>7. LevelInv'
  <2>1. ASSUME NEW v \in Worker
        PROVE  /\ Working(v)' => /\ level' < Last
                                 /\ \E j \in 0 .. next' - 1 : task'[v] = <<level' + 1, j>>
               /\ ~Working(v)' => task'[v] = Idle
    BY <1>1, <1>2, <1>3 DEF EvalInv, LevelInv
  <2>2. ASSUME NEW u \in Worker, NEW v \in Worker, u # v, Working(u)', Working(v)'
        PROVE  task'[u] # task'[v]
    BY <1>2, <1>3, <2>2 DEF EvalInv, LevelInv
  <2>. QED BY <1>1, <1>4, <1>5, <2>1, <2>2 DEF LevelInv
<1>8. DataInv'
  <2>1. ASSUME NEW p \in Places PROVE Finished(p)' <=> Finished(p)
    BY <1>1 DEF Finished, Product, Below
  <2>2. \A v \in Worker : stage'[v] \in {"multiply", "relinearize"} <=> stage[v] \in {"multiply", "relinearize"}
    BY <1>1, <1>2
  <2>3. \A v \in Worker : stage[v] \in {"multiply", "relinearize"} => v # w
    BY <1>1
  <2>4. ASSUME NEW p \in Places, p[1] = level + 1, p[2] < next
        PROVE  Finished(p)' \/ \E v \in Worker : stage'[v] \in {"multiply", "relinearize"} /\ task'[v] = p
    <3>1. Finished(p) \/ \E v \in Worker : stage[v] \in {"multiply", "relinearize"} /\ task[v] = p
      BY <2>4 DEF EvalInv, DataInv
    <3>. QED BY <1>2, <2>1, <2>2, <2>3, <3>1
  <2>5. ASSUME NEW v \in Worker, stage'[v] = "relinearize" PROVE factors'[task'[v]] = Product(task'[v])
    <3>1. v # w
      BY <1>2, <2>5
    <3>. QED BY <1>1, <1>2, <2>5, <3>1 DEF EvalInv, DataInv
  <2>. QED BY <1>1, <2>1, <2>4, <2>5 DEF EvalInv, DataInv, Product, Below
<1>9. PoolInv'
  <2>1. {v \in Worker : stage'[v] # "down"} = {v \in Worker : stage[v] # "down"}
    BY <1>1, <1>2
  <2>. QED BY <1>1, <1>2, <2>1 DEF EvalInv, PoolInv
<1>. QED BY <1>6, <1>7, <1>8, <1>9 DEF EvalInv

\* A worker leaves its loop.
LEMMA DownStep ==
  ASSUME EvalInv, NEW w \in Worker, Down(w), UNCHANGED encInputs
  PROVE  EvalInv'
<1>. DEFINE S == {v \in Worker : stage[v] # "down"}
            T == {v \in Worker : stage'[v] # "down"}
<1>1. /\ TypeOK /\ stage[w] = "receive" /\ ~open
      /\ stage' = [stage EXCEPT ![w] = "down"] /\ workers' = workers - 1
      /\ UNCHANGED <<level, next, wg, task, open, returned, factors, degree, encInputs>>
  BY DEF EvalInv, Down
<1>2. /\ \A v \in Worker : v # w => stage'[v] = stage[v]
      /\ stage'[w] = "down"
  BY <1>1 DEF TypeOK
<1>3. workers' = Cardinality(T) /\ workers' \in 0 .. NGoRoutine
  <2>1. T = S \ {w} /\ w \in S
    BY <1>1, <1>2
  <2>2. workers = Cardinality(S)
    BY DEF EvalInv, PoolInv
  <2>. HIDE DEF S, T
  <2>3. S \in SUBSET Worker /\ T \in SUBSET Worker
    BY DEF S, T
  <2>4. Cardinality(T) = Cardinality(S) - 1 /\ Cardinality(T) \in 0 .. NGoRoutine
    BY <2>1, <2>3, OneWorker
  <2>. QED BY <1>1, <2>2, <2>4
<1>4. TypeOK'
  BY <1>1, <1>3 DEF TypeOK
<1>5. /\ \A v \in Worker : Working(v)' <=> Working(v)
      /\ \A v \in Worker : stage'[v] \in {"multiply", "relinearize"} <=> stage[v] \in {"multiply", "relinearize"}
      /\ \A v \in Worker : stage'[v] = "relinearize" => stage[v] = "relinearize"
  BY <1>1, <1>2 DEF Working
<1>6. LevelInv'
  <2>1. {v \in Worker : Working(v)'} = {v \in Worker : Working(v)}
    BY <1>5
  <2>2. Products' = Products
    BY <1>1 DEF Products, Length
  <2>. QED BY <1>1, <1>5, <2>1, <2>2 DEF EvalInv, LevelInv
<1>7. DataInv'
  <2>1. ASSUME NEW p \in Places PROVE Finished(p)' <=> Finished(p)
    BY <1>1 DEF Finished, Product, Below
  <2>. QED BY <1>1, <1>5, <2>1 DEF EvalInv, DataInv, Product, Below
<1>8. PoolInv'
  BY <1>1, <1>2, <1>3 DEF EvalInv, PoolInv
<1>. QED BY <1>4, <1>6, <1>7, <1>8 DEF EvalInv

\* Every step of the evaluation keeps its invariant.
LEMMA EvalStep ==
  ASSUME EvalInv, encInputs = N, Next, UNCHANGED encInputs
  PROVE  EvalInv'
BY NextLevelStep, EndStep, HandStep, MultiplyStep, RelinearizeStep, DoneStep, DownStep DEF Next, Step

-----------------------------------------------------------------------------
(* The collective phases and main.                                         *)

\* The phases of the program are as the lemmas about them ask.
LEMMA PsiPhasesOK ==
  /\ Len(PsiPhases) = 4 /\ DOMAIN PsiPhases = 1 .. 4
  /\ PsiPhases[1].first = 0
  /\ KeysProofs!PhasesOK
<1>1. Len(PsiPhases) = 4 /\ DOMAIN PsiPhases = 1 .. 4
  BY DEF PsiPhases
<1>2. \A k \in 1 .. 4 : PsiPhases[k].first = 0 /\ PsiPhases[k].from = IF k = 3 THEN 2 ELSE 0
  BY DEF PsiPhases
<1>3. \A k \in 1 .. 4 : PsiPhases[k].first \in 0 .. N /\ PsiPhases[k].from \in 0 .. k - 1
  BY <1>2, NAssumption
<1>. QED BY <1>1, <1>2, <1>3, NAssumption DEF KeysProofs!PhasesOK, KeysProofs!PhaseNumber

\* The lemmas speak of the same phases as the program.
LEMMA SamePhases ==
  /\ Keys!CollectiveInit <=> KeysProofs!CollectiveInit
  /\ Keys!CollectiveTypeOK <=> KeysProofs!CollectiveTypeOK
  /\ Keys!CollectiveTypeOK' <=> KeysProofs!CollectiveTypeOK'
  /\ Keys!CollectiveInv <=> KeysProofs!CollectiveInv
  /\ Keys!CollectiveInv' <=> KeysProofs!CollectiveInv'
  /\ Keys!CollectiveStep <=> KeysProofs!CollectiveStep
<1>1. /\ Keys!PhaseNumber = KeysProofs!PhaseNumber /\ Keys!Member = KeysProofs!Member
      /\ Keys!Kind = KeysProofs!Kind /\ Keys!Shares = KeysProofs!Shares
  BY DEF Keys!PhaseNumber, KeysProofs!PhaseNumber, Keys!Member, KeysProofs!Member,
         Keys!Kind, KeysProofs!Kind, Keys!Shares, KeysProofs!Shares
<1>2. Keys!CollectiveInit <=> KeysProofs!CollectiveInit
  BY <1>1 DEF Keys!CollectiveInit, KeysProofs!CollectiveInit, Keys!Allocated, KeysProofs!Allocated
<1>3. /\ Keys!CollectiveTypeOK <=> KeysProofs!CollectiveTypeOK
      /\ Keys!CollectiveTypeOK' <=> KeysProofs!CollectiveTypeOK'
  BY <1>1 DEF Keys!CollectiveTypeOK, KeysProofs!CollectiveTypeOK
<1>4. /\ Keys!CollectiveInv <=> KeysProofs!CollectiveInv
      /\ Keys!CollectiveInv' <=> KeysProofs!CollectiveInv'
  BY <1>1 DEF Keys!CollectiveInv, KeysProofs!CollectiveInv, Keys!PhaseUnderWay, KeysProofs!PhaseUnderWay,
              Keys!ReadyBelow, KeysProofs!ReadyBelow, Keys!Exact, KeysProofs!Exact,
              Keys!Due, KeysProofs!Due, Keys!Allocated, KeysProofs!Allocated
<1>5. Keys!CollectiveStep <=> KeysProofs!CollectiveStep
  BY <1>1 DEF Keys!CollectiveStep, KeysProofs!CollectiveStep, Keys!GenShare, KeysProofs!GenShare,
              Keys!Aggregate, KeysProofs!Aggregate, Keys!AddShare, KeysProofs!AddShare,
              Keys!EndPhase, KeysProofs!EndPhase, Keys!Exact, KeysProofs!Exact, Keys!Due, KeysProofs!Due
<1>. QED BY <1>2, <1>3, <1>4, <1>5

\* A step of a phase moves to the next one at most.
LEMMA KeysStep ==
  ASSUME Keys!CollectiveTypeOK, Keys!CollectiveInv, Keys!CollectiveStep
  PROVE  /\ Keys!CollectiveTypeOK' /\ Keys!CollectiveInv'
         /\ phase \in 1 .. 4 /\ phase' \in {phase, phase + 1}
<1>1. Keys!CollectiveTypeOK' /\ Keys!CollectiveInv'
  BY SamePhases, PsiPhasesOK, KeysProofs!CollectiveTypeStep, KeysProofs!CollectiveInvStep
<1>2. phase \in 1 .. 4 /\ phase' \in {phase, phase + 1}
  BY PsiPhasesOK DEF Keys!CollectiveStep, Keys!GenShare, Keys!Aggregate, Keys!AddShare, Keys!EndPhase,
                     Keys!PhaseNumber
<1>. QED BY <1>1, <1>2

\* The initial state of the program: nothing is encrypted.
LEMMA MainInitInv == MainInit => IInv
<1>. SUFFICES ASSUME MainInit PROVE IInv
  OBVIOUS
<1>1. /\ level = 0 /\ next = 0 /\ wg = IF Last > 0 THEN Length(1) ELSE 0
      /\ task = [w \in Worker |-> Idle] /\ stage = [w \in Worker |-> "receive"]
      /\ open = TRUE /\ workers = NGoRoutine /\ returned = FALSE
      /\ factors = [p \in Places |-> None] /\ degree = [p \in Places |-> 0]
      /\ now = "setup" /\ encInputs = 0 /\ verdict = "none" /\ phase = 1
      /\ input \in [Input -> {0, 1}]
      /\ expRes = IF \A i \in Input : input[i] = 1 THEN 1 ELSE 0
  BY DEF MainInit, PoolInit, Keys!CollectiveInit
<1>2. N \in Nat \ {0} /\ Last \in 0 .. N /\ NGoRoutine \in Nat \ {0}
  BY PlaceFacts, Workers
<1>3. wg = Products /\ wg \in 0 .. N
  <2>1. Last > 0 => 0 \in 0 .. Last - 1
    BY <1>2
  <2>2. Last > 0 => Length(0 + 1) \in 0 .. N
    BY <2>1, PlaceFacts
  <2>3. 0 + 1 = 1 /\ (Last > 0 <=> 0 < Last)
    BY <1>2
  <2>. QED BY <1>1, <1>2, <2>2, <2>3 DEF Products
<1>4. TypeOK
  <2>1. factors \in [Places -> [Input -> Nat]] /\ degree \in [Places -> 0 .. 2]
    BY <1>1 DEF None
  <2>2. 0 \in Level /\ 0 \in 0 .. N /\ NGoRoutine \in 0 .. NGoRoutine
    BY <1>2 DEF Level
  <2>. QED BY <1>1, <1>3, <2>1, <2>2 DEF TypeOK
<1>5. \A w \in Worker : ~Working(w) /\ task[w] = Idle
  BY <1>1 DEF Working
<1>6. LevelInv
  <2>1. {w \in Worker : Working(w)} = {}
    BY <1>5
  <2>2. Cardinality({w \in Worker : Working(w)}) = 0
    BY <2>1, FS_EmptySet
  <2>3. wg = Products - next + Cardinality({w \in Worker : Working(w)})
    BY <1>1, <1>2, <1>3, <2>2
  <2>. QED BY <1>1, <1>2, <1>3, <1>5, <2>3 DEF LevelInv
<1>7. DataInv
  <2>1. \A p \in Places : ~(p[2] < 0)
    BY PlaceFacts DEF Input
  <2>. QED BY <1>1, <2>1 DEF DataInv
<1>8. PoolInv
  <2>1. {w \in Worker : stage[w] # "down"} = Worker
    BY <1>1
  <2>. QED BY <1>1, <2>1, Workers DEF PoolInv
<1>9. Keys!CollectiveTypeOK /\ Keys!CollectiveInv
  BY SamePhases, PsiPhasesOK, KeysProofs!CollectiveInitOK DEF MainInit
<1>10. MainTypeOK
  BY <1>1, <1>2, <1>4, <1>9 DEF MainTypeOK
<1>11. PhaseInv /\ VerdictInv
  BY <1>1, <1>2, <1>5 DEF PhaseInv, VerdictInv, SetupPhases
<1>. QED BY <1>4, <1>6, <1>7, <1>8, <1>9, <1>10, <1>11 DEF IInv, EvalInv

\* A step that leaves the evaluation alone keeps its invariant, and one that
\* leaves the collective phases alone keeps theirs.
LEMMA EvalFrame ==
  ASSUME EvalInv, UNCHANGED vars, UNCHANGED encInputs
  PROVE  EvalInv'
<1>1. UNCHANGED <<level, next, wg, task, stage, open, workers, returned, factors, degree>>
  BY DEF vars, pool
<1>2. LevelInv' /\ DataInv'
  BY <1>1, LevelFrame
<1>. QED BY <1>1, <1>2 DEF EvalInv, TypeOK, PoolInv

LEMMA CollectiveFrame ==
  ASSUME Keys!CollectiveTypeOK, Keys!CollectiveInv, UNCHANGED collective
  PROVE  Keys!CollectiveTypeOK' /\ Keys!CollectiveInv'
BY DEF collective, Keys!CollectiveTypeOK, Keys!CollectiveInv, Keys!PhaseUnderWay, Keys!ReadyBelow,
       Keys!Exact, Keys!Due, Keys!Allocated

\* An input is encrypted: no worker is there yet to read it.
LEMMA EncryptStep ==
  ASSUME EvalInv, encInputs \in 0 .. N, encInputs < N, level = 0, next = 0,
         \A w \in Worker : ~Working(w), Encrypt
  PROVE  EvalInv'
<1>. DEFINE place == <<0, encInputs>>
<1>1. /\ TypeOK /\ factors' = [factors EXCEPT ![place] = Only(encInputs)]
      /\ degree' = [degree EXCEPT ![place] = 1] /\ encInputs' = encInputs + 1
      /\ UNCHANGED <<level, next, wg, task, stage, open, workers, returned>>
  BY DEF EvalInv, Encrypt, pool
<1>2. encInputs \in Input /\ place \in Places /\ N \in Nat
  <2>1. encInputs \in Input /\ N \in Nat
    BY PlaceFacts DEF Input
  <2>. QED BY <2>1, PlaceFacts
<1>3. Only(encInputs) = Product(place) /\ Only(encInputs) \in [Input -> Nat]
  BY <1>2, ProductFacts
<1>4. TypeOK'
  <2>1. factors' \in [Places -> [Input -> Nat]] /\ degree' \in [Places -> 0 .. 2]
    BY <1>1, <1>2, <1>3 DEF TypeOK
  <2>. QED BY <1>1, <2>1 DEF TypeOK
<1>5. LevelInv'
  <2>1. \A w \in Worker : Working(w)' <=> Working(w)
    BY <1>1 DEF Working
  <2>2. {w \in Worker : Working(w)'} = {w \in Worker : Working(w)}
    BY <2>1
  <2>3. Products' = Products
    BY <1>1 DEF Products, Length
  <2>. QED BY <1>1, <2>1, <2>2, <2>3 DEF EvalInv, LevelInv
<1>6. DataInv'
  <2>1. ASSUME NEW p \in Places, p[1] = 0, p[2] < encInputs + 1 PROVE degree'[p] = 1 /\ factors'[p] = Product(p)
    <3>1. CASE p = place
      BY <1>1, <1>2, <1>3, <3>1 DEF TypeOK
    <3>2. CASE p # place
      <4>1. p[2] \in Int /\ p[2] # encInputs
        BY <2>1, <3>2, PlaceFacts DEF Input
      <4>2. p[2] < encInputs
        BY <1>2, <2>1, <4>1 DEF Input
      <4>3. Finished(p)
        BY <2>1, <4>2 DEF EvalInv, DataInv
      <4>. HIDE DEF place
      <4>. QED BY <1>1, <3>2, <4>3 DEF TypeOK, Finished
    <3>. QED BY <3>1, <3>2
  <2>2. \A p \in Places : ~(p[2] < 0)
    BY PlaceFacts DEF Input
  <2>3. \A w \in Worker : stage'[w] # "relinearize"
    BY <1>1 DEF Working
  <2>. HIDE DEF place
  <2>. QED BY <1>1, <2>1, <2>2, <2>3 DEF DataInv, Finished, Product, Below
<1>7. PoolInv'
  BY <1>1 DEF EvalInv, PoolInv
<1>. QED BY <1>4, <1>5, <1>6, <1>7 DEF EvalInv

\* What is decrypted after all phases is the expected result, if the inputs
\* fill the tree.
LEMMA DecryptedRight ==
  ASSUME IInv, now = "check", N = Width[Last]
  PROVE  Decrypted = expRes
<1>1. /\ EvalInv /\ encInputs = N /\ phase = 5 /\ level = Last /\ Keys!CollectiveInv
      /\ expRes = IF \A i \in Input : input[i] = 1 THEN 1 ELSE 0
  BY DEF IInv, EvalInv, PhaseInv, PoolInv, VerdictInv
<1>2. Finished(<<Last, 0>>)
  <2>. DEFINE p == <<Last, 0>>
  <2>1. p \in Places /\ p[1] = Last /\ p[2] = 0 /\ Last \in Nat /\ N \in Nat \ {0}
    BY PlaceFacts
  <2>. HIDE DEF p
  <2>2. (p[1] = 0 /\ p[2] < encInputs) \/ p[1] \in 1 .. level
    BY <1>1, <2>1
  <2>3. Finished(p)
    BY <1>1, <2>1, <2>2 DEF EvalInv, DataInv
  <2>. QED BY <2>3 DEF p
<1>3. \A k \in Keys!PhaseNumber : Keys!Exact(k)
  <2>1. \A k \in Keys!PhaseNumber : k < phase
    BY <1>1, PsiPhasesOK DEF Keys!PhaseNumber
  <2>. QED BY <1>1, <2>1 DEF Keys!CollectiveInv
<1>4. \A i \in Input : factors[<<Last, 0>>][i] = 1
  BY <1>2, ProductFacts DEF Finished
<1>5. degree[<<Last, 0>>] = 1
  BY <1>2 DEF Finished
<1>. QED BY <1>1, <1>3, <1>4, <1>5 DEF Decrypted

\* Every step of the program keeps the invariant.
LEMMA MainStep ==
  ASSUME IInv, [MainNext]_mainVars
  PROVE  IInv'
<1>1. /\ N \in Nat \ {0} /\ EvalInv /\ encInputs \in 0 .. N
      /\ Keys!CollectiveTypeOK /\ Keys!CollectiveInv /\ phase \in Nat
  BY NAssumption DEF IInv, MainTypeOK, Keys!CollectiveTypeOK
<1>2. CASE Setup
  <2>1. /\ now = "setup" /\ Keys!CollectiveStep
        /\ now' = IF phase' \in SetupPhases THEN now ELSE "encrypt"
        /\ UNCHANGED <<vars, input, expRes, encInputs, verdict>>
    BY <1>2 DEF Setup, data
  <2>2. /\ Keys!CollectiveTypeOK' /\ Keys!CollectiveInv'
        /\ phase \in 1 .. 3 /\ phase' \in {phase, phase + 1}
    BY <1>1, <2>1, KeysStep DEF IInv, PhaseInv, SetupPhases
  <2>3. EvalInv'
    BY <1>1, <2>1, EvalFrame
  <2>4. MainTypeOK' /\ VerdictInv'
    BY <2>1, <2>2, <2>3 DEF IInv, MainTypeOK, EvalInv, VerdictInv
  <2>5. PhaseInv'
    <3>1. now' \in {"setup", "encrypt"} /\ (now' = "setup" => phase' \in SetupPhases)
          /\ (now' = "encrypt" => phase' = 4)
      BY <2>1, <2>2 DEF SetupPhases
    <3>2. /\ encInputs' = 0 /\ encInputs' < N /\ level' = 0 /\ next' = 0
          /\ \A w \in Worker : ~Working(w)'
      BY <2>1 DEF IInv, PhaseInv, vars, pool, Working
    <3>. QED BY <3>1, <3>2 DEF PhaseInv
  <2>. QED BY <2>2, <2>3, <2>4, <2>5 DEF IInv
<1>3. CASE Encrypt
  <2>1. /\ now = "encrypt" /\ encInputs' = encInputs + 1
        /\ now' = IF encInputs' < N THEN now ELSE "eval"
        /\ UNCHANGED <<pool, input, expRes, verdict, collective>>
    BY <1>3 DEF Encrypt, data
  <2>2. encInputs < N /\ level = 0 /\ next = 0 /\ \A w \in Worker : ~Working(w)
    BY <2>1 DEF IInv, PhaseInv
  <2>3. EvalInv'
    BY <1>1, <1>3, <2>2, EncryptStep
  <2>4. Keys!CollectiveTypeOK' /\ Keys!CollectiveInv'
    BY <1>1, <2>1, CollectiveFrame
  <2>5. encInputs' \in 0 .. N /\ (~(encInputs' < N) => encInputs' = N)
    BY <1>1, <2>1, <2>2
  <2>6. MainTypeOK' /\ VerdictInv'
    BY <2>1, <2>3, <2>4, <2>5 DEF IInv, MainTypeOK, EvalInv, VerdictInv
  <2>7. PhaseInv'
    <3>1. phase' = 4 /\ level' = 0 /\ next' = 0 /\ \A w \in Worker : ~Working(w)'
      BY <2>1, <2>2 DEF IInv, PhaseInv, pool, collective, Working
    <3>. QED BY <2>1, <2>5, <3>1 DEF PhaseInv
  <2>. QED BY <2>3, <2>4, <2>6, <2>7 DEF IInv
<1>4. CASE InEval(Next)
  <2>1. /\ now = "eval" /\ Next
        /\ UNCHANGED <<now, input, expRes, encInputs, verdict, collective>>
    BY <1>4 DEF InEval, data
  <2>2. encInputs = N
    BY <2>1 DEF IInv, PhaseInv
  <2>3. EvalInv' /\ Keys!CollectiveTypeOK' /\ Keys!CollectiveInv'
    BY <1>1, <2>1, <2>2, EvalStep, CollectiveFrame
  <2>4. MainTypeOK' /\ VerdictInv'
    BY <2>1, <2>3 DEF IInv, MainTypeOK, EvalInv, VerdictInv
  <2>5. PhaseInv'
    BY <2>1 DEF IInv, PhaseInv, collective
  <2>. QED BY <2>3, <2>4, <2>5 DEF IInv
<1>5. CASE EvalDone
  <2>1. /\ now = "eval" /\ now' = "switch" /\ returned
        /\ UNCHANGED <<vars, input, expRes, encInputs, verdict, collective>>
    BY <1>5 DEF EvalDone, Goto, data
  <2>2. EvalInv' /\ Keys!CollectiveTypeOK' /\ Keys!CollectiveInv'
    BY <1>1, <2>1, EvalFrame, CollectiveFrame
  <2>3. MainTypeOK' /\ VerdictInv'
    BY <2>1, <2>2 DEF IInv, MainTypeOK, EvalInv, VerdictInv
  <2>4. PhaseInv'
    BY <2>1 DEF IInv, PhaseInv, vars, pool, collective
  <2>. QED BY <2>2, <2>3, <2>4 DEF IInv
<1>6. CASE Switch
  <2>1. /\ now = "switch" /\ Keys!CollectiveStep
        /\ now' = IF phase' \in 1 .. 4 THEN now ELSE "check"
        /\ UNCHANGED <<vars, input, expRes, encInputs, verdict>>
    BY <1>6, PsiPhasesOK DEF Switch, data, Keys!PhaseNumber
  <2>2. /\ Keys!CollectiveTypeOK' /\ Keys!CollectiveInv'
        /\ phase = 4 /\ phase' \in {phase, phase + 1}
    BY <1>1, <2>1, KeysStep DEF IInv, PhaseInv
  <2>3. EvalInv'
    BY <1>1, <2>1, EvalFrame
  <2>4. MainTypeOK' /\ VerdictInv'
    BY <2>1, <2>2, <2>3 DEF IInv, MainTypeOK, EvalInv, VerdictInv
  <2>5. PhaseInv'
    BY <2>1, <2>2 DEF IInv, PhaseInv, vars, pool
  <2>. QED BY <2>2, <2>3, <2>4, <2>5 DEF IInv
<1>7. CASE Check
  <2>1. /\ now = "check" /\ now' = "finished"
        /\ verdict' = IF Decrypted = expRes THEN "correct" ELSE "incorrect"
        /\ UNCHANGED <<vars, input, expRes, encInputs, collective>>
    BY <1>7 DEF Check, Goto, data
  <2>2. EvalInv' /\ Keys!CollectiveTypeOK' /\ Keys!CollectiveInv'
    BY <1>1, <2>1, EvalFrame, CollectiveFrame
  <2>3. MainTypeOK'
    BY <2>1, <2>2 DEF IInv, MainTypeOK, EvalInv
  <2>4. VerdictInv'
    <3>1. N = Width[Last] => verdict' # "incorrect"
      BY <2>1, DecryptedRight
    <3>. QED BY <2>1, <3>1 DEF IInv, VerdictInv
  <2>5. PhaseInv'
    BY <2>1 DEF IInv, PhaseInv, vars, pool, collective
  <2>. QED BY <2>2, <2>3, <2>4, <2>5 DEF IInv
<1>8. CASE UNCHANGED mainVars
  <2>1. UNCHANGED <<vars, now, input, expRes, encInputs, verdict, collective>>
    BY <1>8 DEF mainVars, data
  <2>2. EvalInv' /\ Keys!CollectiveTypeOK' /\ Keys!CollectiveInv'
    BY <1>1, <2>1, EvalFrame, CollectiveFrame
  <2>3. MainTypeOK' /\ VerdictInv'
    BY <2>1, <2>2 DEF IInv, MainTypeOK, EvalInv, VerdictInv
  <2>4. PhaseInv'
    BY <2>1 DEF IInv, PhaseInv, vars, pool, collective, Working
  <2>. QED BY <2>2, <2>3, <2>4 DEF IInv
<1>. QED BY <1>2, <1>3, <1>4, <1>5, <1>6, <1>7, <1>8 DEF MainNext

-----------------------------------------------------------------------------
(* The theorems.                                                           *)

\* The inductive invariant holds throughout.
THEOREM Invariance == MainSpec => []IInv
BY MainInitInv, MainStep, PTL DEF MainSpec

\* The types of the program's state.
THEOREM MainTypeCorrect == MainSpec => []MainTypeOK
<1>1. IInv => MainTypeOK
  BY DEF IInv
<1>. QED BY <1>1, Invariance, PTL

\* No two workers of the pool share a ciphertext that one of them writes,
\* however the products of a level are spread over them.
THEOREM NoneIsShared == MainSpec => []NoSharedCiphertext
<1>1. IInv => NoSharedCiphertext
  BY NoneShared DEF IInv, EvalInv
<1>. QED BY <1>1, Invariance, PTL

\* The WaitGroup of a level is enough: no worker multiplies a ciphertext that
\* another one has not finished.
THEOREM OperandsAreFinished == MainSpec => []OperandsFinished
<1>1. IInv => OperandsFinished
  <2>. SUFFICES ASSUME IInv, NEW w \in Worker, stage[w] = "multiply"
                PROVE  Finished(Operand1(task[w])) /\ Finished(Operand2(task[w]))
    BY DEF OperandsFinished
  <2>1. Working(w) /\ encInputs = N
    BY DEF IInv, MainTypeOK, PhaseInv, Working
  <2>. QED BY <2>1, OperandsOfTask DEF IInv
<1>. QED BY <1>1, Invariance, PTL

\* With a power of two of parties, main prints "correct", whatever the inputs.
THEOREM AlwaysCorrect ==
  ASSUME \E m \in Nat : N = Width[m]
  PROVE  MainSpec => []VerdictCorrect
<1>1. N = Width[Last]
  BY PowerOfTwo
<1>2. IInv => VerdictCorrect
  BY <1>1 DEF IInv, VerdictInv, VerdictCorrect
<1>. QED BY <1>2, Invariance, PTL
=============================================================================
