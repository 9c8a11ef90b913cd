------------------------- MODULE FoundationsLemmas --------------------------
(***************************************************************************)
(* What the parts the ORAM classes are built on compute: what the client's *)
(* placement test and the server's flat array rely on, for a tree of any   *)
(* height, and the swap network, for any number of places.  All of it is   *)
(* computed by loops: the recursive functions behind them exist, and so    *)
(* satisfy their defining equations; induction is by a minimal             *)
(* counterexample.                                                         *)
(***************************************************************************)
EXTENDS Tree, SwapNetwork, TLAPS, WellFoundedInduction, FiniteSetTheorems

\* A non-empty set of natural numbers has a least element: the form in which
\* the later proofs use induction.
LEMMA LeastNatural ==
    ASSUME NEW T, T \subseteq Nat, T # {}
    PROVE  \E m \in T : \A k \in T : m <= k
<1>1. PICK x \in T : \A y \in T : ~ (<<y, x>> \in OpToRel(<, Nat))
  BY NatLessThanWellFounded, WFMin, Zenon
<1>2. \A y \in T : ~ (y < x)
  <2> TAKE y \in T
  <2>1. ~ (<<y, x>> \in OpToRel(<, Nat))
    BY <1>1
  <2>2. x \in Nat /\ y \in Nat
    OBVIOUS
  <2>3. y < x => <<y, x>> \in OpToRel(<, Nat)
    BY <2>2 DEF OpToRel
  <2> QED  BY <2>1, <2>3
<1> QED  BY <1>2, SMT

\* h holds the first n + 1 iterates.
Prefix(g, a, n, h) ==
    /\ h[0] = a
    /\ \A k \in 1..n : h[k] = g[h[k - 1]]

LEMMA PrefixUnique ==
    ASSUME NEW g, NEW a, NEW m \in Nat, NEW n \in Nat, m <= n, NEW h, NEW hh,
           Prefix(g, a, m, h), Prefix(g, a, n, hh)
    PROVE  h[m] = hh[m]
<1> DEFINE T == {k \in 0..m : h[k] # hh[k]}
<1> SUFFICES ASSUME T # {} PROVE FALSE
  OBVIOUS
<1>1. PICK k \in T : \A j \in T : k <= j
  BY LeastNatural, T \subseteq Nat
<1> HIDE DEF T
<1>2. k \in 0..m /\ h[k] # hh[k]
  BY DEF T
<1>3. CASE k = 0
  BY <1>2, <1>3 DEF Prefix
<1>4. CASE k # 0
  <2>1. k \in 1..m /\ k \in 1..n /\ k - 1 \in 0..m /\ k - 1 < k
    BY <1>2, <1>4
  <2>2. k - 1 \notin T
    BY <1>1, <1>2, <2>1
  <2>3. h[k - 1] = hh[k - 1]
    BY <2>1, <2>2 DEF T
  <2> QED  BY <1>2, <2>1, <2>3 DEF Prefix
<1> QED  BY <1>3, <1>4

LEMMA PrefixExists ==
    ASSUME NEW g, NEW a
    PROVE  \A n \in Nat : \E h : Prefix(g, a, n, h)
<1> DEFINE T == {n \in Nat : ~ \E h : Prefix(g, a, n, h)}
<1> SUFFICES ASSUME T # {} PROVE FALSE
  OBVIOUS
<1>1. PICK n \in T : \A j \in T : n <= j
  BY LeastNatural, T \subseteq Nat
<1> HIDE DEF T
<1>2. n \in Nat /\ ~ \E h : Prefix(g, a, n, h)
  BY DEF T
<1>3. CASE n = 0
  <2>1. Prefix(g, a, n, [k \in {0} |-> a])
    BY <1>3 DEF Prefix
  <2> QED  BY <1>2, <2>1
<1>4. CASE n # 0
  <2>1. n - 1 \in Nat /\ n - 1 \notin T
    BY <1>1, <1>2, <1>4
  <2>2. PICK h : Prefix(g, a, n - 1, h)
    BY <2>1 DEF T
  <2> DEFINE hh == [k \in 0..n |-> IF k = n THEN g[h[n - 1]] ELSE h[k]]
  <2>3. Prefix(g, a, n, hh)
    BY <1>2, <1>4, <2>2 DEF Prefix
  <2> QED  BY <1>2, <2>3
<1> QED  BY <1>3, <1>4

LEMMA IteratesDefined ==
    ASSUME NEW g, NEW a
    PROVE  Iterates(g, a) = [k \in Nat |-> IF k = 0 THEN a ELSE g[Iterates(g, a)[k - 1]]]
<1> DEFINE F(n) == CHOOSE h : Prefix(g, a, n, h)
           f == [n \in Nat |-> F(n)[n]]
<1>1. \A n \in Nat : Prefix(g, a, n, F(n))
  BY PrefixExists
<1>2. f[0] = a
  BY <1>1 DEF Prefix
<1>3. ASSUME NEW n \in Nat, n # 0 PROVE f[n] = g[f[n - 1]]
  <2>1. n - 1 \in Nat /\ n - 1 <= n /\ n \in 1..n
    BY <1>3
  <2> HIDE DEF F
  <2>2. F(n - 1)[n - 1] = F(n)[n - 1]
    <3>1. Prefix(g, a, n - 1, F(n - 1)) /\ Prefix(g, a, n, F(n))
      BY <1>1, <2>1
    <3> DEFINE m == n - 1
               h == F(m)
               hh == F(n)
    <3>2. m \in Nat /\ m <= n /\ Prefix(g, a, m, h) /\ Prefix(g, a, n, hh)
      BY <2>1, <3>1
    <3> HIDE DEF m, h, hh
    <3>3. h[m] = hh[m]
      BY <3>2, PrefixUnique
    <3> QED  BY <3>3 DEF m, h, hh
  <2>3. F(n)[n] = g[F(n)[n - 1]]
    BY <1>1, <2>1 DEF Prefix
  <2> QED  BY <2>1, <2>2, <2>3
<1>4. f = [k \in Nat |-> IF k = 0 THEN a ELSE g[f[k - 1]]]
  <2> HIDE DEF F
  <2>1. ASSUME NEW k \in Nat PROVE f[k] = IF k = 0 THEN a ELSE g[f[k - 1]]
    BY <1>2, <1>3
  <2> QED  BY <2>1, Zenon
<1> HIDE DEF f
<1>5. \E ff : ff = [k \in Nat |-> IF k = 0 THEN a ELSE g[ff[k - 1]]]
  BY <1>4
<1> QED  BY <1>5, Zenon DEF Iterates

\* What the source's loops compute, one turn at a time: nothing before the
\* first turn, then the body applied to what the turns before it left.
THEOREM IterateStep ==
    ASSUME NEW g, NEW a
    PROVE  /\ Iterate(g, a, 0) = a
           /\ \A n \in Nat : Iterate(g, a, n + 1) = g[Iterate(g, a, n)]
<1>1. \A k \in Nat : Iterates(g, a)[k] = IF k = 0 THEN a ELSE g[Iterates(g, a)[k - 1]]
  <2> DEFINE It == Iterates(g, a)
  <2>1. It = [k \in Nat |-> IF k = 0 THEN a ELSE g[It[k - 1]]]
    BY IteratesDefined
  <2> HIDE DEF It
  <2>2. \A k \in Nat : It[k] = IF k = 0 THEN a ELSE g[It[k - 1]]
    BY <2>1
  <2> QED  BY <2>2 DEF It
<1>2. Iterate(g, a, 0) = a
  BY <1>1 DEF Iterate
<1>3. ASSUME NEW n \in Nat PROVE Iterate(g, a, n + 1) = g[Iterate(g, a, n)]
  <2>1. n + 1 \in Nat /\ n + 1 # 0 /\ (n + 1) - 1 = n
    OBVIOUS
  <2> QED  BY <1>1, <2>1 DEF Iterate
<1> QED  BY <1>2, <1>3

\* A set that holds the start and is closed under the body holds every iterate.
LEMMA IterateType ==
    ASSUME NEW g, NEW a, NEW S, a \in S, \A x \in S : g[x] \in S
    PROVE  \A n \in Nat : Iterate(g, a, n) \in S
<1> DEFINE T == {n \in Nat : Iterate(g, a, n) \notin S}
<1> SUFFICES ASSUME T # {} PROVE FALSE
  OBVIOUS
<1>1. PICK n \in T : \A j \in T : n <= j
  BY LeastNatural, T \subseteq Nat
<1> HIDE DEF T
<1>2. n \in Nat /\ Iterate(g, a, n) \notin S
  BY DEF T
<1>3. CASE n = 0
  BY <1>2, <1>3, IterateStep
<1>4. CASE n # 0
  <2>1. n - 1 \in Nat /\ n - 1 \notin T /\ (n - 1) + 1 = n
    BY <1>1, <1>2, <1>4
  <2>2. Iterate(g, a, n - 1) \in S
    BY <2>1 DEF T
  <2>3. Iterate(g, a, (n - 1) + 1) = g[Iterate(g, a, n - 1)]
    <3>1. \A m \in Nat : Iterate(g, a, m + 1) = g[Iterate(g, a, m)]
      BY IterateStep, Zenon
    <3> QED  BY <2>1, <3>1, Zenon
  <2> QED  BY <1>2, <2>1, <2>2, <2>3
<1> QED  BY <1>3, <1>4

\* Primitive recursion, the turn's number being known to the body: iterate on
\* pairs of the number and the value.
Recursion(f, S, a, g) ==
    /\ f \in [Nat -> S]
    /\ f[0] = a
    /\ \A n \in Nat : f[n + 1] = g[<<n, f[n]>>]

LEMMA RecursionExists ==
    ASSUME NEW S, NEW a \in S, NEW g \in [Nat \X S -> S]
    PROVE  \E f : Recursion(f, S, a, g)
<1> DEFINE gg == [p \in Nat \X S |-> <<p[1] + 1, g[p]>>]
           P(n) == Iterate(gg, <<0, a>>, n)
           f == [n \in Nat |-> P(n)[2]]
<1>1. P(0) = <<0, a>> /\ \A n \in Nat : P(n + 1) = gg[P(n)]
  <2> HIDE DEF gg
  <2> QED  BY IterateStep
<1>2. \A n \in Nat : P(n) \in Nat \X S
  <2>1. <<0, a>> \in Nat \X S /\ \A p \in Nat \X S : gg[p] \in Nat \X S
    OBVIOUS
  <2> HIDE DEF gg
  <2> QED  BY <2>1, IterateType
<1>3. \A n \in Nat : P(n + 1) = <<P(n)[1] + 1, g[P(n)]>>
  <2> TAKE n \in Nat
  <2>1. gg[P(n)] = <<P(n)[1] + 1, g[P(n)]>>
    BY <1>2
  <2> QED  BY <1>1, <2>1
<1> HIDE DEF P, gg
<1>4. \A n \in Nat : P(n)[1] = n
  <2> DEFINE T == {n \in Nat : P(n)[1] # n}
  <2> SUFFICES ASSUME T # {} PROVE FALSE
    OBVIOUS
  <2>1. PICK n \in T : \A j \in T : n <= j
    BY LeastNatural, T \subseteq Nat
  <2>2. n \in Nat /\ n # 0
    BY <1>1
  <2>3. n - 1 \in Nat /\ n - 1 \notin T /\ (n - 1) + 1 = n
    BY <2>1, <2>2
  <2>4. P(n - 1)[1] = n - 1
    BY <2>3
  <2>5. P((n - 1) + 1) = <<P(n - 1)[1] + 1, g[P(n - 1)]>>
    BY <1>3, <2>3, Zenon
  <2> QED  BY <2>3, <2>4, <2>5
<1>5. f \in [Nat -> S] /\ f[0] = a
  BY <1>1, <1>2
<1>6. ASSUME NEW n \in Nat PROVE f[n + 1] = g[<<n, f[n]>>]
  <2>1. P(n) = <<n, P(n)[2]>>
    BY <1>2, <1>4
  <2>2. f[n + 1] = g[P(n)]
    BY <1>3
  <2>3. f[n] = P(n)[2]
    OBVIOUS
  <2> HIDE DEF f
  <2> QED  BY <2>1, <2>2, <2>3
<1> HIDE DEF f
<1>7. Recursion(f, S, a, g)
  BY <1>5, <1>6 DEF Recursion
<1> QED  BY <1>7

-----------------------------------------------------------------------------
LEMMA Pow2Step ==
    /\ Pow2(0) = 1
    /\ \A n \in Nat : Pow2(n) \in Nat /\ Pow2(n) >= 1 /\ Pow2(n + 1) = 2 * Pow2(n)
<1> DEFINE S == Nat \ {0}
<1>1. Pow2(0) = 1 /\ \A n \in Nat : Pow2(n + 1) = Double[Pow2(n)]
  BY IterateStep DEF Pow2
<1>2. \A n \in Nat : Pow2(n) \in S
  <2>1. 1 \in S /\ \A x \in S : Double[x] \in S
    BY DEF Double
  <2> HIDE DEF S
  <2> QED  BY <2>1, IterateType DEF Pow2
<1>3. \A n \in Nat : Pow2(n + 1) = 2 * Pow2(n)
  <2> TAKE n \in Nat
  <2>1. Pow2(n) \in Nat
    BY <1>2
  <2>2. Double[Pow2(n)] = 2 * Pow2(n)
    BY <2>1 DEF Double
  <2> QED  BY <1>1, <2>2
<1> QED  BY <1>1, <1>2, <1>3

LEMMA ShiftRightStep ==
    ASSUME NEW x \in Nat
    PROVE  /\ ShiftRight(x, 0) = x
           /\ \A n \in Nat : /\ ShiftRight(x, n) \in Nat
                             /\ ShiftRight(x, n + 1) = ShiftRight(x, n) \div 2
<1>1. ShiftRight(x, 0) = x /\ \A n \in Nat : ShiftRight(x, n + 1) = Halve[ShiftRight(x, n)]
  BY IterateStep DEF ShiftRight
<1>2. \A n \in Nat : ShiftRight(x, n) \in Nat
  <2>1. x \in Nat /\ \A y \in Nat : Halve[y] \in Nat
    BY DEF Halve
  <2> QED  BY <2>1, IterateType DEF ShiftRight
<1>3. \A n \in Nat : ShiftRight(x, n + 1) = ShiftRight(x, n) \div 2
  <2> TAKE n \in Nat
  <2>1. Halve[ShiftRight(x, n)] = ShiftRight(x, n) \div 2
    BY <1>2 DEF Halve
  <2> QED  BY <1>1, <2>1
<1> QED  BY <1>1, <1>2, <1>3

LEMMA PathNodeStep ==
    ASSUME NEW leaf \in Leaves
    PROVE  /\ PathNode(leaf, 0) = LeafOffset + leaf
           /\ \A i \in Nat : PathNode(leaf, i) \in Nat
           /\ \A i \in Nat : PathNode(leaf, i) # 0 =>
                  PathNode(leaf, i + 1) = (PathNode(leaf, i) - 1) \div 2
<1>0. LeafOffset + leaf \in Nat
  BY Pow2Step, TreeHeightAssumption DEF LeafOffset, Leaves, NumLeaves
<1>1. /\ PathNode(leaf, 0) = LeafOffset + leaf
      /\ \A i \in Nat : PathNode(leaf, i + 1) = Parent[PathNode(leaf, i)]
  BY IterateStep DEF PathNode
<1>2. \A i \in Nat : PathNode(leaf, i) \in Nat
  <2>1. \A n \in Nat : Parent[n] \in Nat
    BY DEF Parent
  <2> QED  BY <1>0, <2>1, IterateType DEF PathNode
<1>3. ASSUME NEW i \in Nat, PathNode(leaf, i) # 0
      PROVE  PathNode(leaf, i + 1) = (PathNode(leaf, i) - 1) \div 2
  <2>1. Parent[PathNode(leaf, i)] = (PathNode(leaf, i) - 1) \div 2
    BY <1>2, <1>3 DEF Parent
  <2> QED  BY <1>1, <2>1
<1> QED  BY <1>1, <1>2, <1>3

\* The node i steps above a leaf is the (leaf >> i)-th of the 2^(H - i) nodes
\* of its level, which start at index 2^(H - i) - 1: the closed form of the
\* loop current = (current - 1) / 2 of GetPathIndices.
THEOREM PathNodeClosedForm ==
    ASSUME NEW leaf \in Leaves
    PROVE  \A i \in Levels :
             /\ ShiftRight(leaf, i) < Pow2(TreeHeight - i)
             /\ PathNode(leaf, i) = Pow2(TreeHeight - i) - 1 + ShiftRight(leaf, i)
<1> USE TreeHeightAssumption DEF Levels
<1> DEFINE P(i) == /\ ShiftRight(leaf, i) < Pow2(TreeHeight - i)
                   /\ PathNode(leaf, i) = Pow2(TreeHeight - i) - 1 + ShiftRight(leaf, i)
           T == {i \in Levels : ~ P(i)}
<1> SUFFICES ASSUME T # {} PROVE FALSE
  OBVIOUS
<1>1. PICK i \in T : \A j \in T : i <= j
  BY LeastNatural, T \subseteq Nat
<1>2. i \in Levels /\ ~ P(i)
  OBVIOUS
<1>3. leaf \in Nat /\ leaf < Pow2(TreeHeight)
  BY Pow2Step DEF Leaves, NumLeaves
<1>4. CASE i = 0
  <2>1. P(0)
    BY <1>3, ShiftRightStep, PathNodeStep, Pow2Step DEF LeafOffset
  <2> QED  BY <1>2, <1>4, <2>1
<1>5. CASE i # 0
  <2> DEFINE k == i - 1
             m == TreeHeight - i
             s == ShiftRight(leaf, k)
             p == Pow2(m)
             n == PathNode(leaf, k)
  <2>1. k \in Levels /\ k \in Nat /\ m \in Nat /\ i = k + 1 /\ TreeHeight - k = m + 1
    BY <1>2, <1>5
  <2>2. k \notin T
    BY <1>1, <1>2, <2>1
  <2>3. P(k)
    BY <2>1, <2>2
  <2>4. p \in Nat /\ p >= 1 /\ Pow2(TreeHeight - k) = 2 * p
    BY <2>1, Pow2Step
  <2>5. s \in Nat /\ ShiftRight(leaf, i) = s \div 2
    <3>1. ShiftRight(leaf, k) \in Nat /\ ShiftRight(leaf, k + 1) = ShiftRight(leaf, k) \div 2
      <4> HIDE DEF k
      <4> QED  BY <1>3, <2>1, ShiftRightStep
    <3> QED  BY <2>1, <3>1
  <2>6. s < 2 * p /\ n = 2 * p - 1 + s
    BY <2>3, <2>4
  <2>7. n \in Nat /\ n # 0
    BY <2>4, <2>5, <2>6
  <2>8. PathNode(leaf, i) = (n - 1) \div 2
    BY <2>1, <2>7, PathNodeStep
  <2> HIDE DEF s, p, n
  <2>9. s \div 2 < p /\ (n - 1) \div 2 = p - 1 + (s \div 2)
    BY <2>4, <2>5, <2>6, SMT
  <2> QED  BY <1>2, <2>5, <2>8, <2>9 DEF p
<1> QED  BY <1>4, <1>5

LEMMA Pow2Monotone ==
    ASSUME NEW n \in Nat, NEW k \in Nat
    PROVE  Pow2(n + k) >= Pow2(n)
<1> DEFINE T == {j \in Nat : ~ (Pow2(n + j) >= Pow2(n))}
<1> SUFFICES ASSUME T # {} PROVE FALSE
  OBVIOUS
<1>1. PICK j \in T : \A l \in T : j <= l
  BY LeastNatural, T \subseteq Nat
<1>2. j \in Nat /\ ~ (Pow2(n + j) >= Pow2(n))
  OBVIOUS
<1>3. Pow2(n) \in Nat
  BY Pow2Step
<1>4. j # 0
  BY <1>2, <1>3
<1>5. j - 1 \in Nat /\ j - 1 \notin T
  BY <1>1, <1>2, <1>4
<1>6. Pow2(n + (j - 1)) >= Pow2(n)
  BY <1>5
<1>7. n + (j - 1) \in Nat /\ (n + (j - 1)) + 1 = n + j
  BY <1>2, <1>5
<1>8. Pow2(n + (j - 1)) \in Nat /\ Pow2((n + (j - 1)) + 1) = 2 * Pow2(n + (j - 1))
  BY <1>7, Pow2Step, Zenon
<1> QED  BY <1>2, <1>3, <1>6, <1>7, <1>8

\* Every index a path holds is one of the server's num_nodes_ buckets, so the
\* server's bounds check never rejects what the client sends.
THEOREM PathNodeInTree ==
    ASSUME NEW leaf \in Leaves, NEW i \in Levels
    PROVE  PathNode(leaf, i) \in Nodes
<1> USE TreeHeightAssumption
<1> DEFINE m == TreeHeight - i
           s == ShiftRight(leaf, i)
<1>1. m \in Nat /\ i \in Nat /\ m + i = TreeHeight
  BY DEF Levels
<1>2. s < Pow2(m) /\ PathNode(leaf, i) = Pow2(m) - 1 + s
  BY PathNodeClosedForm
<1>3. s \in Nat
  <2>1. leaf \in Nat
    BY Pow2Step DEF Leaves, NumLeaves
  <2> QED  BY <1>1, <2>1, ShiftRightStep
<1>4. Pow2(m) \in Nat /\ Pow2(m) >= 1 /\ Pow2(TreeHeight) \in Nat
      /\ Pow2(TreeHeight + 1) = 2 * Pow2(TreeHeight)
  BY <1>1, Pow2Step
<1>5. Pow2(TreeHeight) >= Pow2(m)
  <2> HIDE DEF m
  <2>1. Pow2(m + i) >= Pow2(m)
    BY <1>1, Pow2Monotone
  <2> QED  BY <1>1, <2>1
<1> HIDE DEF m, s
<1> QED  BY <1>2, <1>3, <1>4, <1>5 DEF Nodes, NumTreeNodes

\* Different levels of the tree hold different nodes, whatever the leaves.
LEMMA LevelsDisjoint ==
    ASSUME NEW b \in Leaves, NEW t \in Leaves, NEW i \in Levels, NEW j \in Levels, i < j
    PROVE  PathNode(b, i) > PathNode(t, j)
<1> USE TreeHeightAssumption
<1> DEFINE m == TreeHeight - i
           n == TreeHeight - j
           d == (j - i) - 1
           x == ShiftRight(b, i)
           y == ShiftRight(t, j)
<1>1. m \in Nat /\ n \in Nat /\ d \in Nat /\ i \in Nat /\ j \in Nat /\ (n + 1) + d = m
  BY DEF Levels
<1>2. /\ x < Pow2(m) /\ PathNode(b, i) = Pow2(m) - 1 + x
      /\ y < Pow2(n) /\ PathNode(t, j) = Pow2(n) - 1 + y
  BY PathNodeClosedForm
<1>3. x \in Nat /\ y \in Nat
  <2>1. b \in Nat /\ t \in Nat
    BY Pow2Step DEF Leaves, NumLeaves
  <2> QED  BY <1>1, <2>1, ShiftRightStep
<1> HIDE DEF m, n, d, x, y
<1>4. Pow2(m) \in Nat /\ Pow2(n) \in Nat /\ Pow2(n + 1) = 2 * Pow2(n)
  BY <1>1, Pow2Step
<1>5. Pow2((n + 1) + d) >= Pow2(n + 1)
  <2>1. n + 1 \in Nat
    BY <1>1
  <2> QED  BY <1>1, <2>1, Pow2Monotone, Zenon
<1>6. Pow2(m) >= 2 * Pow2(n)
  BY <1>1, <1>4, <1>5
<1> QED  BY <1>2, <1>3, <1>4, <1>6

\* CanPlaceInBucket compares shifted leaf numbers; the bucket it admits is the
\* one the two paths share, and it admits every shared bucket.
THEOREM CanPlaceIffShared ==
    ASSUME NEW b \in Leaves, NEW t \in Leaves, NEW i \in Levels
    PROVE  /\ CanPlaceInBucket(b, t, i) <=> PathNode(b, i) = PathNode(t, i)
           /\ CanPlaceInBucket(b, t, i) <=> OnPath(PathNode(t, i), b)
<1> USE TreeHeightAssumption
<1>1. CanPlaceInBucket(b, t, i) <=> PathNode(b, i) = PathNode(t, i)
  <2>1. /\ PathNode(b, i) = Pow2(TreeHeight - i) - 1 + ShiftRight(b, i)
        /\ PathNode(t, i) = Pow2(TreeHeight - i) - 1 + ShiftRight(t, i)
    BY PathNodeClosedForm
  <2>2. b \in Nat /\ t \in Nat /\ i \in Nat /\ TreeHeight - i \in Nat
    BY Pow2Step DEF Leaves, NumLeaves, Levels
  <2>3. ShiftRight(b, i) \in Nat /\ ShiftRight(t, i) \in Nat /\ Pow2(TreeHeight - i) \in Nat
    BY <2>2, ShiftRightStep, Pow2Step
  <2> QED  BY <2>1, <2>3 DEF CanPlaceInBucket
<1>2. ASSUME NEW j \in Levels, PathNode(t, i) = PathNode(b, j) PROVE i = j
  <2>1. PathNode(t, i) \in Nat /\ PathNode(b, j) \in Nat
    BY PathNodeStep DEF Levels
  <2>2. ~ (i < j)
    BY <1>2, <2>1, LevelsDisjoint
  <2>3. ~ (j < i)
    BY <1>2, <2>1, LevelsDisjoint
  <2> QED  BY <2>2, <2>3 DEF Levels
<1> QED  BY <1>1, <1>2 DEF OnPath

\* GetPathIndices stops at the root after TreeHeight + 1 indices: the root is
\* at index TreeHeight of the path and nowhere before it.
THEOREM PathReachesRoot ==
    ASSUME NEW leaf \in Leaves, NEW i \in Levels
    PROVE  PathNode(leaf, i) = 0 <=> i = TreeHeight
<1> USE TreeHeightAssumption
<1>1. TreeHeight \in Levels
  BY DEF Levels
<1>2. leaf \in Nat /\ PathNode(leaf, i) \in Nat
  BY Pow2Step, PathNodeStep DEF Leaves, NumLeaves, Levels
<1>3. PathNode(leaf, TreeHeight) = 0
  <2>1. ShiftRight(leaf, TreeHeight) \in Nat
    BY <1>2, ShiftRightStep
  <2>2. TreeHeight - TreeHeight = 0
    OBVIOUS
  <2>3. /\ ShiftRight(leaf, TreeHeight) < Pow2(TreeHeight - TreeHeight)
        /\ PathNode(leaf, TreeHeight) = Pow2(TreeHeight - TreeHeight) - 1 + ShiftRight(leaf, TreeHeight)
    BY <1>1, PathNodeClosedForm
  <2> QED  BY <2>1, <2>2, <2>3, Pow2Step
<1>4. ASSUME i # TreeHeight PROVE PathNode(leaf, i) > 0
  BY <1>1, <1>3, <1>4, LevelsDisjoint DEF Levels
<1> QED  BY <1>2, <1>3, <1>4

-----------------------------------------------------------------------------
LEMMA BucketIndexSteps ==
    ASSUME NEW leaf
    PROVE  \A node : (node = [l \in Levels |-> IF l = 0 THEN 0
                        ELSE 2 * node[l - 1] + 1 + (ShiftRight(leaf, TreeHeight - l) % 2)])
                     => \A level \in Levels : GetBucketIndex(leaf, level) = node[level]
<1> DEFINE Body(f) == [l \in Levels |-> IF l = 0 THEN 0
                        ELSE 2 * f[l - 1] + 1 + (ShiftRight(leaf, TreeHeight - l) % 2)]
           walk == CHOOSE f : f = Body(f)
<1> SUFFICES ASSUME NEW node, node = Body(node), NEW level \in Levels
             PROVE  GetBucketIndex(leaf, level) = node[level]
  OBVIOUS
<1>1. walk = Body(walk)
  BY Zenon
<1>2. GetBucketIndex(leaf, level) = walk[level]
  BY Zenon DEF GetBucketIndex
<1> HIDE DEF walk
<1>3. ASSUME NEW f, f = Body(f), NEW l \in Levels
      PROVE  f[l] = IF l = 0 THEN 0 ELSE 2 * f[l - 1] + 1 + (ShiftRight(leaf, TreeHeight - l) % 2)
  <2>1. Body(f)[l] = IF l = 0 THEN 0 ELSE 2 * f[l - 1] + 1 + (ShiftRight(leaf, TreeHeight - l) % 2)
    OBVIOUS
  <2> HIDE DEF Body
  <2> QED  BY <1>3, <2>1
<1> HIDE DEF Body
<1> DEFINE T == {l \in Levels : walk[l] # node[l]}
<1>4. T = {}
  <2> SUFFICES ASSUME T # {} PROVE FALSE
    OBVIOUS
  <2>1. T \subseteq Nat
    BY TreeHeightAssumption DEF Levels
  <2>2. PICK l \in T : \A k \in T : l <= k
    BY <2>1, LeastNatural
  <2>3. l \in Levels /\ walk[l] # node[l]
    OBVIOUS
  <2>4. CASE l = 0
    BY <1>1, <1>3, <2>3, <2>4
  <2>5. CASE l # 0
    <3>1. l - 1 \in Levels /\ l - 1 \notin T
      BY <2>2, <2>3, <2>5, TreeHeightAssumption DEF Levels
    <3>2. walk[l - 1] = node[l - 1]
      BY <3>1
    <3> HIDE DEF T
    <3> QED  BY <1>1, <1>3, <2>3, <2>5, <3>2
  <2> QED  BY <2>4, <2>5
<1> QED  BY <1>2, <1>4

\* GetBucketIndex, which walks down from the root by the bits of the leaf, and
\* GetPathIndices, which climbs from the leaf, name the same bucket.
THEOREM BucketIndexIsPathNode ==
    ASSUME NEW leaf \in Leaves, NEW level \in Levels
    PROVE  GetBucketIndex(leaf, level) = PathNode(leaf, TreeHeight - level)
<1> USE TreeHeightAssumption
<1> DEFINE node == [l \in Levels |-> PathNode(leaf, TreeHeight - l)]
           bit(l) == ShiftRight(leaf, TreeHeight - l) % 2
<1>1. leaf \in Nat
  BY Pow2Step DEF Leaves, NumLeaves
<1>2. ASSUME NEW l \in Levels
      PROVE  node[l] = IF l = 0 THEN 0 ELSE 2 * node[l - 1] + 1 + bit(l)
  <2>1. CASE l = 0
    <3>1. TreeHeight \in Levels /\ TreeHeight - l = TreeHeight
      BY <2>1 DEF Levels
    <3>2. PathNode(leaf, TreeHeight) = 0
      BY <3>1, PathReachesRoot
    <3> QED  BY <2>1, <3>1, <3>2
  <2>2. CASE l # 0
    <3> DEFINE i == TreeHeight - l
               m == l - 1
               s == ShiftRight(leaf, i)
    <3>1. /\ i \in Levels /\ i + 1 \in Levels /\ i \in Nat /\ m \in Nat /\ m \in Levels /\ l = m + 1
          /\ TreeHeight - (i + 1) = m /\ TreeHeight - i = m + 1 /\ TreeHeight - m = i + 1
      BY <2>2 DEF Levels
    <3> HIDE DEF i, m
    <3>2. s \in Nat /\ ShiftRight(leaf, i + 1) = s \div 2
      BY <1>1, <3>1, ShiftRightStep
    <3>3. Pow2(m) \in Nat /\ Pow2(m + 1) = 2 * Pow2(m)
      BY <3>1, Pow2Step
    <3>4. PathNode(leaf, i) = Pow2(m + 1) - 1 + s
      BY <3>1, PathNodeClosedForm
    <3>5. PathNode(leaf, i + 1) = Pow2(m) - 1 + (s \div 2)
      <4>1. PathNode(leaf, i + 1) = Pow2(TreeHeight - (i + 1)) - 1 + ShiftRight(leaf, i + 1)
        BY <3>1, PathNodeClosedForm
      <4> QED  BY <3>1, <3>2, <4>1
    <3>6. node[l] = PathNode(leaf, i) /\ node[l - 1] = PathNode(leaf, i + 1) /\ bit(l) = s % 2
      <4>1. TreeHeight - l = i /\ TreeHeight - (l - 1) = i + 1 /\ l - 1 \in Levels
        BY <3>1 DEF i, m
      <4> QED  BY <4>1
    <3> HIDE DEF s, node, bit
    <3>7. s = 2 * (s \div 2) + (s % 2) /\ s \div 2 \in Nat /\ s % 2 \in Nat
      BY <3>2
    <3> QED  BY <2>2, <3>3, <3>4, <3>5, <3>6, <3>7
  <2> QED  BY <2>1, <2>2
<1>3. node = [l \in Levels |-> IF l = 0 THEN 0 ELSE 2 * node[l - 1] + 1 + bit(l)]
  <2>1. node = [l \in Levels |-> node[l]]
    OBVIOUS
  <2> HIDE DEF node, bit
  <2> QED  BY <1>2, <2>1
<1>4. node[level] = PathNode(leaf, TreeHeight - level)
  OBVIOUS
<1> HIDE DEF node
<1>5. \A l \in Levels : GetBucketIndex(leaf, l) = node[l]
  BY <1>3, BucketIndexSteps, Zenon
<1> QED  BY <1>4, <1>5

\* The path as the Ring ORAM and Onion Ring ORAM classes list it: nodes of the
\* tree, none twice, the root first.
THEOREM PathFromRootNodes ==
    ASSUME NEW leaf \in Leaves
    PROVE  /\ PathFromRoot(leaf) \in Seq(Nodes) /\ Len(PathFromRoot(leaf)) = TreeHeight + 1
           /\ \A k \in 1 .. TreeHeight + 1 :
                PathFromRoot(leaf)[k] = PathNode(leaf, TreeHeight + 1 - k)
           /\ \A j, k \in 1 .. TreeHeight + 1 :
                PathFromRoot(leaf)[j] = PathFromRoot(leaf)[k] => j = k
<1> USE TreeHeightAssumption
<1>1. ASSUME NEW k \in 1 .. TreeHeight + 1
      PROVE  /\ k - 1 \in Levels /\ TreeHeight + 1 - k \in Levels
             /\ GetBucketIndex(leaf, k - 1) = PathNode(leaf, TreeHeight + 1 - k)
             /\ PathNode(leaf, TreeHeight + 1 - k) \in Nodes
  <2>1. k - 1 \in Levels /\ TreeHeight + 1 - k \in Levels /\ TreeHeight - (k - 1) = TreeHeight + 1 - k
    BY DEF Levels
  <2> QED  BY <2>1, BucketIndexIsPathNode, PathNodeInTree
<1>2. PathFromRoot(leaf) = [k \in 1 .. TreeHeight + 1 |-> GetBucketIndex(leaf, k - 1)]
  BY DEF PathFromRoot
<1>3. PathFromRoot(leaf) \in Seq(Nodes) /\ Len(PathFromRoot(leaf)) = TreeHeight + 1
  BY <1>1, <1>2
<1>4. \A k \in 1 .. TreeHeight + 1 : PathFromRoot(leaf)[k] = PathNode(leaf, TreeHeight + 1 - k)
  BY <1>1, <1>2
<1>5. ASSUME NEW j \in 1 .. TreeHeight + 1, NEW k \in 1 .. TreeHeight + 1, j < k
      PROVE  PathFromRoot(leaf)[j] # PathFromRoot(leaf)[k]
  <2> DEFINE a == TreeHeight + 1 - k
             b == TreeHeight + 1 - j
  <2>1. a \in Levels /\ b \in Levels /\ a < b /\ a \in Nat /\ b \in Nat
    BY <1>1, <1>5 DEF Levels
  <2> HIDE DEF a, b
  <2>2. PathNode(leaf, a) > PathNode(leaf, b)
    BY <2>1, LevelsDisjoint
  <2>3. PathNode(leaf, a) \in Nat /\ PathNode(leaf, b) \in Nat
    BY <2>1, PathNodeStep
  <2>4. PathNode(leaf, a) # PathNode(leaf, b)
    BY <2>2, <2>3
  <2> QED  BY <1>4, <2>4 DEF a, b
<1>6. \A j, k \in 1 .. TreeHeight + 1 : PathFromRoot(leaf)[j] = PathFromRoot(leaf)[k] => j = k
  BY <1>5
<1> QED  BY <1>3, <1>4, <1>6

LEMMA IterateOnward ==
    ASSUME NEW leaf \in Leaves, NEW i \in Nat
    PROVE  \A n \in Nat : Iterate(Parent, PathNode(leaf, i), n) = PathNode(leaf, i + n)
<1> DEFINE a == LeafOffset + leaf
           b == PathNode(leaf, i)
           Same(n) == Iterate(Parent, b, n) = PathNode(leaf, i + n)
           T == {n \in Nat : ~ Same(n)}
<1>1. /\ Iterate(Parent, b, 0) = b /\ \A n \in Nat : Iterate(Parent, b, n + 1) = Parent[Iterate(Parent, b, n)]
      /\ \A n \in Nat : PathNode(leaf, n + 1) = Parent[PathNode(leaf, n)]
  <2> HIDE DEF b
  <2>1. /\ Iterate(Parent, b, 0) = b
        /\ \A n \in Nat : Iterate(Parent, b, n + 1) = Parent[Iterate(Parent, b, n)]
    BY IterateStep
  <2>2. \A n \in Nat : PathNode(leaf, n + 1) = Parent[PathNode(leaf, n)]
    BY IterateStep DEF PathNode
  <2> QED  BY <2>1, <2>2
<1>2. T = {}
  <2> SUFFICES ASSUME T # {} PROVE FALSE
    OBVIOUS
  <2>1. PICK n \in T : \A k \in T : n <= k
    BY LeastNatural, T \subseteq Nat
  <2>2. n \in Nat /\ ~ Same(n)
    OBVIOUS
  <2>3. CASE n = 0
    <3>1. i + 0 = i
      OBVIOUS
    <3> QED  BY <1>1, <2>2, <2>3, <3>1
  <2>4. CASE n # 0
    <3> DEFINE m == n - 1
    <3>1. m \in Nat /\ m \notin T /\ n = m + 1 /\ i + n = (i + m) + 1 /\ i + m \in Nat
      BY <2>1, <2>2, <2>4
    <3>2. Same(m)
      BY <3>1
    <3> HIDE DEF m, T, b
    <3>3. Iterate(Parent, b, m + 1) = Parent[Iterate(Parent, b, m)]
      BY <1>1, <3>1, Zenon
    <3>4. PathNode(leaf, (i + m) + 1) = Parent[PathNode(leaf, i + m)]
      BY <1>1, <3>1, Zenon
    <3> QED  BY <2>2, <3>1, <3>2, <3>3, <3>4
  <2> QED  BY <2>3, <2>4
<1> QED  BY <1>2

\* The climb of GetNodeLevel counts the levels below the root, so that
\* IsBucketOnLeafPath, which combines it with a descent, accepts exactly the
\* buckets of the path.
THEOREM NodeLevelOfPathNode ==
    ASSUME NEW leaf \in Leaves, NEW i \in Levels, NEW other \in Leaves
    PROVE  /\ GetNodeLevel(PathNode(leaf, i)) = TreeHeight - i
           /\ IsBucketOnLeafPath(PathNode(leaf, i), other) <=> OnPath(PathNode(leaf, i), other)
<1> USE TreeHeightAssumption
<1> DEFINE node == PathNode(leaf, i)
           L == TreeHeight - i
           IsLevel(l) == Iterate(Parent, node, l) = 0 /\ \A m \in Levels : m < l => Iterate(Parent, node, m) # 0
<1>1. i \in Nat /\ L \in Levels /\ i + L = TreeHeight /\ TreeHeight - L = i
  BY DEF Levels
<1>2. \A n \in Nat : Iterate(Parent, node, n) = PathNode(leaf, i + n)
  BY <1>1, IterateOnward
<1>3. IsLevel(L)
  <2>1. Iterate(Parent, node, L) = 0
    <3>1. PathNode(leaf, TreeHeight) = 0
      BY PathReachesRoot DEF Levels
    <3>2. Iterate(Parent, node, L) = PathNode(leaf, i + L)
      BY <1>1, <1>2 DEF Levels
    <3> QED  BY <1>1, <3>1, <3>2
  <2>2. ASSUME NEW m \in Levels, m < L
        PROVE  Iterate(Parent, node, m) # 0
    <3>1. i + m \in Levels /\ i + m # TreeHeight /\ m \in Nat
      BY <2>2 DEF Levels
    <3> HIDE DEF node
    <3> QED  BY <1>2, <3>1, PathReachesRoot
  <2> QED  BY <2>1, <2>2
<1> HIDE DEF node
<1>4. ASSUME NEW l \in Levels, IsLevel(l) PROVE l = L
  BY <1>1, <1>3, <1>4 DEF Levels
<1>5. GetNodeLevel(node) = CHOOSE l \in Levels : IsLevel(l)
  BY DEF GetNodeLevel
<1> HIDE DEF IsLevel
<1>6. GetNodeLevel(node) = L
  BY <1>1, <1>3, <1>4, <1>5
<1>7. GetBucketIndex(other, L) = PathNode(other, i)
  BY <1>1, BucketIndexIsPathNode
<1>8. PathNode(other, i) = node <=> OnPath(node, other)
  BY CanPlaceIffShared DEF node
<1> QED  BY <1>6, <1>7, <1>8 DEF IsBucketOnLeafPath, node

\* Climbing reaches the root from every node, within the height of the tree.
LEMMA ClimbReachesRoot ==
    ASSUME NEW n \in Nodes
    PROVE  GetNodeLevel(n) \in Levels
<1> DEFINE x(l) == Iterate(Parent, n, l)
           Low(l) == x(l) \in Nat /\ x(l) < Pow2(TreeHeight + 1 - l) - 1
           T == {l \in Levels : ~ Low(l)}
<1>1. TreeHeight \in Nat /\ n \in Nat /\ n < Pow2(TreeHeight + 1) - 1
  <2>1. TreeHeight \in Nat /\ Pow2(TreeHeight + 1) \in Nat /\ Pow2(TreeHeight + 1) >= 1
    BY TreeHeightAssumption, Pow2Step
  <2> QED  BY <2>1 DEF Nodes, NumTreeNodes
<1>2. x(0) = n /\ \A l \in Nat : x(l + 1) = Parent[x(l)]
  BY IterateStep
<1> HIDE DEF x
<1>3. T = {}
  <2> SUFFICES ASSUME T # {} PROVE FALSE
    OBVIOUS
  <2>1. PICK l \in T : \A k \in T : l <= k
    BY <1>1, LeastNatural, T \subseteq Nat DEF Levels
  <2>2. l \in Levels /\ ~ Low(l)
    OBVIOUS
  <2>3. CASE l = 0
    <3>1. TreeHeight + 1 - 0 = TreeHeight + 1
      BY <1>1
    <3> QED  BY <1>1, <1>2, <2>2, <2>3, <3>1
  <2>4. CASE l # 0
    <3> DEFINE m == l - 1
               e == TreeHeight + 1 - l
    <3>1. /\ m \in Nat /\ m \in Levels /\ m \notin T /\ l = m + 1
          /\ e \in Nat /\ e >= 1 /\ e - 1 \in Nat /\ e = (e - 1) + 1 /\ TreeHeight + 1 - m = e + 1
      BY <1>1, <2>1, <2>2, <2>4 DEF Levels
    <3>2. x(m) \in Nat /\ x(m) < Pow2(e + 1) - 1
      BY <3>1
    <3> HIDE DEF m, T, e
    <3>3. Pow2(e + 1) = 2 * Pow2(e) /\ Pow2(e) \in Nat /\ Pow2(e) >= 2
      <4>1. Pow2((e - 1) + 1) = 2 * Pow2(e - 1) /\ Pow2(e - 1) \in Nat /\ Pow2(e - 1) >= 1
        BY <3>1, Pow2Step
      <4>2. Pow2(e) = 2 * Pow2(e - 1)
        BY <3>1, <4>1
      <4>3. Pow2(e) \in Nat /\ Pow2(e + 1) = 2 * Pow2(e)
        BY <3>1, Pow2Step
      <4> QED  BY <4>1, <4>2, <4>3
    <3>4. x(l) = Parent[x(m)]
      BY <1>2, <3>1
    <3>5. Parent[x(m)] = IF x(m) = 0 THEN 0 ELSE (x(m) - 1) \div 2
      BY <3>2 DEF Parent
    <3>6. x(l) \in Nat /\ x(l) < Pow2(e) - 1
      BY <3>2, <3>3, <3>4, <3>5
    <3> QED  BY <2>2, <3>6 DEF e
  <2> QED  BY <2>3, <2>4
<1>4. x(TreeHeight) = 0
  <2>1. Low(TreeHeight)
    BY <1>1, <1>3 DEF Levels
  <2>2. TreeHeight + 1 - TreeHeight = 0 + 1
    BY <1>1
  <2>3. Pow2(0 + 1) = 2
    BY Pow2Step
  <2> QED  BY <2>1, <2>2, <2>3
<1>5. PICK l \in {k \in Levels : x(k) = 0} : \A m \in {k \in Levels : x(k) = 0} : l <= m
  <2>1. {k \in Levels : x(k) = 0} \subseteq Nat /\ {k \in Levels : x(k) = 0} # {}
    BY <1>1, <1>4 DEF Levels
  <2> QED  BY <2>1, LeastNatural
<1>6. l \in Levels /\ x(l) = 0 /\ \A m \in Levels : m < l => x(m) # 0
  BY <1>1, <1>5 DEF Levels
<1>7. \E k \in Levels : Iterate(Parent, n, k) = 0 /\ \A m \in Levels : m < k => Iterate(Parent, n, m) # 0
  BY <1>6 DEF x
<1> QED  BY <1>7 DEF GetNodeLevel

\* The loop of ReverseBits, turn by turn.
ReversedPrefixes(f, value, n) ==
    /\ f \in [0 .. n -> Nat]
    /\ f[0] = 0
    /\ \A k \in 1 .. n : f[k] = 2 * f[k - 1] + (ShiftRight(value, k - 1) % 2)
    /\ ReverseBits(value, n) = f[n]

LEMMA ReverseBitsSteps ==
    ASSUME NEW value \in Nat, NEW n \in Nat
    PROVE  \E f : ReversedPrefixes(f, value, n)
<1> DEFINE Bit(k) == ShiftRight(value, k) % 2
           g == [p \in Nat \X Nat |-> 2 * p[2] + Bit(p[1])]
           Body(h) == [i \in 0 .. n |-> IF i = 0 THEN 0 ELSE 2 * h[i - 1] + (ShiftRight(value, i - 1) % 2)]
           reversed == CHOOSE h : h = Body(h)
<1>1. \A k \in Nat : Bit(k) \in Nat
  BY ShiftRightStep
<1>2. g \in [Nat \X Nat -> Nat]
  <2> HIDE DEF Bit
  <2> QED  BY <1>1
<1>3. PICK h \in [Nat -> Nat] : h[0] = 0 /\ \A k \in Nat : h[k + 1] = g[<<k, h[k]>>]
  <2>1. \E h : Recursion(h, Nat, 0, g)
    <3> HIDE DEF g
    <3> QED  BY <1>2, RecursionExists, Zenon
  <2> HIDE DEF g
  <2> QED  BY <2>1 DEF Recursion
<1> DEFINE f == [k \in 0 .. n |-> h[k]]
<1>4. ASSUME NEW k \in 1 .. n
      PROVE  f[k] = 2 * f[k - 1] + (ShiftRight(value, k - 1) % 2)
  <2>1. k - 1 \in Nat /\ k - 1 \in 0 .. n /\ (k - 1) + 1 = k /\ k \in 0 .. n
    OBVIOUS
  <2>2. g[<<k - 1, h[k - 1]>>] = 2 * h[k - 1] + Bit(k - 1)
    <3> HIDE DEF Bit
    <3> QED  BY <2>1
  <2> HIDE DEF g
  <2>3. h[k] = 2 * h[k - 1] + Bit(k - 1)
    BY <1>3, <2>1, <2>2
  <2> QED  BY <2>1, <2>3
<1>5. f = Body(f)
  <2>1. ASSUME NEW k \in 0 .. n
        PROVE  f[k] = IF k = 0 THEN 0 ELSE 2 * f[k - 1] + (ShiftRight(value, k - 1) % 2)
    <3>1. CASE k = 0
      BY <1>3, <3>1
    <3>2. CASE k # 0
      <4>1. k \in 1 .. n
        BY <3>2
      <4> HIDE DEF f
      <4> QED  BY <1>4, <3>2, <4>1
    <3> QED  BY <3>1, <3>2
  <2>2. f = [k \in 0 .. n |-> f[k]]
    OBVIOUS
  <2> HIDE DEF f
  <2> QED  BY <2>1, <2>2
<1>6. reversed = Body(reversed)
  <2> HIDE DEF f
  <2> QED  BY <1>5, Zenon
<1>7. ReverseBits(value, n) = reversed[n]
  BY Zenon DEF ReverseBits
<1> HIDE DEF f, reversed
<1>8. /\ reversed[0] = 0
      /\ \A k \in 1 .. n : reversed[k] = 2 * reversed[k - 1] + (ShiftRight(value, k - 1) % 2)
  <2>1. \A k \in 0 .. n : Body(reversed)[k] =
            IF k = 0 THEN 0 ELSE 2 * reversed[k - 1] + (ShiftRight(value, k - 1) % 2)
    OBVIOUS
  <2> HIDE DEF Body
  <2>2. 0 \in 0 .. n /\ \A k \in 1 .. n : k \in 0 .. n /\ k # 0
    OBVIOUS
  <2> QED  BY <1>6, <2>1, <2>2
<1>9. \A k \in 0 .. n : reversed[k] \in Nat
  <2> SUFFICES ASSUME {k \in 0 .. n : reversed[k] \notin Nat} # {} PROVE FALSE
    OBVIOUS
  <2>1. PICK k \in {j \in 0 .. n : reversed[j] \notin Nat} :
               \A j \in {j \in 0 .. n : reversed[j] \notin Nat} : k <= j
    BY LeastNatural, {j \in 0 .. n : reversed[j] \notin Nat} \subseteq Nat
  <2>2. k \in 1 .. n /\ k - 1 \in Nat
    BY <1>8, <2>1
  <2>3. reversed[k - 1] \in Nat
    BY <2>1, <2>2
  <2>4. ShiftRight(value, k - 1) % 2 \in Nat
    BY <1>1, <2>2
  <2> QED  BY <1>8, <2>1, <2>2, <2>3, <2>4
<1>10. reversed = [k \in 0 .. n |-> reversed[k]]
  BY <1>6
<1> HIDE DEF Body
<1>11. ReversedPrefixes(reversed, value, n)
  BY <1>7, <1>8, <1>9, <1>10 DEF ReversedPrefixes
<1> QED  BY <1>11

LEMMA ReverseBitsBound ==
    ASSUME NEW value \in Nat, NEW n \in Nat
    PROVE  ReverseBits(value, n) \in 0 .. Pow2(n) - 1
<1>1. PICK f : ReversedPrefixes(f, value, n)
  BY ReverseBitsSteps
<1>2. /\ f \in [0 .. n -> Nat] /\ f[0] = 0 /\ ReverseBits(value, n) = f[n]
      /\ \A k \in 1 .. n : f[k] = 2 * f[k - 1] + (ShiftRight(value, k - 1) % 2)
  BY <1>1 DEF ReversedPrefixes
<1>0. \A k \in Nat : Pow2(k) \in Nat
  BY Pow2Step
<1> DEFINE T == {k \in 0 .. n : f[k] >= Pow2(k)}
<1>3. T = {}
  <2> SUFFICES ASSUME T # {} PROVE FALSE
    OBVIOUS
  <2>1. PICK k \in T : \A j \in T : k <= j
    BY LeastNatural, T \subseteq Nat
  <2>2. k \in 1 .. n /\ k - 1 \in Nat /\ k - 1 \in 0 .. n
    BY <1>2, <2>1, Pow2Step
  <2>3. f[k - 1] < Pow2(k - 1)
    <3>1. k - 1 \notin T
      BY <2>1, <2>2
    <3> QED  BY <1>0, <1>2, <2>2, <3>1
  <2>4. Pow2(k) = 2 * Pow2(k - 1)
    BY <2>2, Pow2Step
  <2>5. (ShiftRight(value, k - 1) % 2) \in {0, 1}
    <3>1. ShiftRight(value, k - 1) \in Nat
      BY <2>2, ShiftRightStep
    <3> QED  BY <3>1
  <2>6. f[k] = 2 * f[k - 1] + (ShiftRight(value, k - 1) % 2)
    BY <1>2, <2>2
  <2>7. Pow2(k - 1) \in Nat /\ f[k - 1] \in Nat
    BY <1>2, <2>2, Pow2Step
  <2> QED  BY <2>1, <2>3, <2>4, <2>5, <2>6, <2>7
<1>4. f[n] < Pow2(n)
  <2>1. n \in 0 .. n
    OBVIOUS
  <2>2. f[n] \in Nat /\ Pow2(n) \in Nat
    BY <1>0, <1>2, <2>1
  <2>3. ~ (f[n] >= Pow2(n))
    <3> HIDE <1>2
    <3> QED  BY <1>3, <2>1
  <2> QED  BY <2>2, <2>3
<1> QED  BY <1>2, <1>4, Pow2Step

\* The two children of a bucket: the path to a leaf goes into the right one if the
\* next bit of the leaf is set.
LEMMA PathNodeChild ==
    ASSUME NEW leaf \in Leaves, NEW i \in Levels, i >= 1
    PROVE  /\ i - 1 \in Levels /\ ShiftRight(leaf, i - 1) % 2 \in {0, 1}
           /\ PathNode(leaf, i - 1) = 2 * PathNode(leaf, i) + 1 + (ShiftRight(leaf, i - 1) % 2)
<1>1. i - 1 \in Levels /\ i - 1 \in Nat /\ TreeHeight - i \in Nat /\ i = (i - 1) + 1
      /\ TreeHeight - (i - 1) = (TreeHeight - i) + 1 /\ leaf \in Nat
  BY TreeHeightAssumption DEF Levels, Leaves
<1> DEFINE x == ShiftRight(leaf, i - 1)
           p == Pow2(TreeHeight - i)
<1>2. x \in Nat /\ ShiftRight(leaf, i) = x \div 2
  <2>1. ShiftRight(leaf, (i - 1) + 1) = x \div 2
    BY <1>1, ShiftRightStep
  <2> QED  BY <1>1, <2>1, ShiftRightStep
<1>3. PathNode(leaf, i) = p - 1 + x \div 2
  BY <1>2, PathNodeClosedForm
<1>4. PathNode(leaf, i - 1) = 2 * p - 1 + x
  BY <1>1, PathNodeClosedForm, Pow2Step
<1>5. p \in Nat
  BY <1>1, Pow2Step
<1> HIDE DEF x, p
<1>6. x % 2 \in {0, 1} /\ x = 2 * (x \div 2) + (x % 2)
  BY <1>2
<1>7. 2 * p - 1 + x = 2 * (p - 1 + x \div 2) + 1 + (x % 2)
  BY <1>2, <1>5, <1>6
<1> QED  BY <1>1, <1>3, <1>4, <1>6, <1>7 DEF x

\* What one more bit adds to the reversed bits.
LEMMA ReverseBitsStep ==
    ASSUME NEW value \in Nat
    PROVE  /\ ReverseBits(value, 0) = 0
           /\ \A n \in Nat : /\ ReverseBits(value, n) \in Nat
                             /\ ReverseBits(value, n + 1)
                                  = 2 * ReverseBits(value, n) + (ShiftRight(value, n) % 2)
<1>1. ASSUME NEW n \in Nat, NEW m \in Nat, n <= m, NEW f, NEW h,
             ReversedPrefixes(f, value, n), ReversedPrefixes(h, value, m)
      PROVE  f[n] = h[n]
  <2> DEFINE T == {k \in 0 .. n : f[k] # h[k]}
  <2> SUFFICES ASSUME T # {} PROVE FALSE
    <3>1. n \in 0 .. n
      OBVIOUS
    <3> QED  BY <3>1
  <2>1. PICK k \in T : \A j \in T : k <= j
    BY LeastNatural, T \subseteq Nat
  <2>2. k \in 1 .. n /\ k \in 1 .. m /\ k - 1 \in 0 .. n
    BY <1>1, <2>1 DEF ReversedPrefixes
  <2>3. f[k - 1] = h[k - 1]
    <3>1. k - 1 \notin T
      <4>1. ~ (k <= k - 1)
        BY <2>2
      <4> HIDE DEF T
      <4> QED  BY <2>1, <4>1
    <3> QED  BY <2>2, <3>1
  <2>4. f[k] = h[k]
    BY <1>1, <2>2, <2>3 DEF ReversedPrefixes
  <2> QED  BY <2>1, <2>4
<1>2. ReverseBits(value, 0) = 0
  <2>1. PICK f : ReversedPrefixes(f, value, 0)
    BY ReverseBitsSteps, 0 \in Nat
  <2> QED  BY <2>1 DEF ReversedPrefixes
<1>3. ASSUME NEW n \in Nat
      PROVE  /\ ReverseBits(value, n) \in Nat
             /\ ReverseBits(value, n + 1) = 2 * ReverseBits(value, n) + (ShiftRight(value, n) % 2)
  <2>1. PICK f : ReversedPrefixes(f, value, n)
    BY ReverseBitsSteps
  <2>2. PICK h : ReversedPrefixes(h, value, n + 1)
    BY ReverseBitsSteps, n + 1 \in Nat
  <2>3. f[n] = h[n] /\ n + 1 \in 1 .. n + 1 /\ (n + 1) - 1 = n
    BY <1>1, <2>1, <2>2
  <2>4. h[n + 1] = 2 * h[n] + (ShiftRight(value, n) % 2) /\ ReverseBits(value, n + 1) = h[n + 1]
    BY <2>2, <2>3 DEF ReversedPrefixes
  <2>5. ReverseBits(value, n) = f[n]
    BY <2>1 DEF ReversedPrefixes
  <2>6. ReverseBits(value, n) \in Nat
    <3>1. n \in 0 .. n
      OBVIOUS
    <3> QED  BY <2>1, <3>1 DEF ReversedPrefixes
  <2>7. ReverseBits(value, n + 1) = 2 * ReverseBits(value, n) + (ShiftRight(value, n) % 2)
    BY <2>3, <2>4, <2>5
  <2> QED  BY <2>6, <2>7
<1> QED  BY <1>2, <1>3

\* The high bits of the reversed bits are the low bits, reversed.
LEMMA ShiftOfReversed ==
    ASSUME NEW value \in Nat, NEW h \in Nat
    PROVE  \A j \in 0 .. h : ShiftRight(ReverseBits(value, h), j) = ReverseBits(value, h - j)
<1> DEFINE T == {j \in 0 .. h : ShiftRight(ReverseBits(value, h), j) # ReverseBits(value, h - j)}
<1> SUFFICES ASSUME T # {} PROVE FALSE
  OBVIOUS
<1>1. PICK j \in T : \A k \in T : j <= k
  BY LeastNatural, T \subseteq Nat
<1>2. ReverseBits(value, h) \in Nat
  BY ReverseBitsStep
<1>3. j # 0
  <2>1. h - 0 = h
    OBVIOUS
  <2> QED  BY <1>1, <1>2, <2>1, ShiftRightStep
<1>4. j - 1 \in 0 .. h /\ j - 1 \in Nat /\ (j - 1) + 1 = j /\ h - j \in Nat /\ h - (j - 1) = (h - j) + 1
  BY <1>1, <1>3
<1>5. ShiftRight(ReverseBits(value, h), j - 1) = ReverseBits(value, (h - j) + 1)
  <2>1. j - 1 \notin T
    BY <1>1, <1>4
  <2> QED  BY <1>4, <2>1
<1>6. ShiftRight(ReverseBits(value, h), j) = ReverseBits(value, (h - j) + 1) \div 2
  <2> DEFINE x == ReverseBits(value, h)
  <2>1. \A i \in Nat : ShiftRight(x, i + 1) = ShiftRight(x, i) \div 2
    BY <1>2, ShiftRightStep
  <2>2. ShiftRight(x, (j - 1) + 1) = ShiftRight(x, j - 1) \div 2
    <3> HIDE DEF x
    <3> QED  BY <1>4, <2>1
  <2> QED  BY <1>4, <1>5, <2>2
<1>7. ReverseBits(value, (h - j) + 1) \div 2 = ReverseBits(value, h - j)
  <2> DEFINE r == ReverseBits(value, h - j)
             b == ShiftRight(value, h - j) % 2
  <2>1. ReverseBits(value, (h - j) + 1) = 2 * r + b /\ r \in Nat
    BY <1>4, ReverseBitsStep
  <2>2. b \in {0, 1}
    <3>1. ShiftRight(value, h - j) \in Nat
      BY <1>4, ShiftRightStep
    <3> QED  BY <3>1
  <2>3. \A x \in Nat, y \in {0, 1} : (2 * x + y) \div 2 = x
    OBVIOUS
  <2> HIDE DEF r, b
  <2>4. (2 * r + b) \div 2 = r
    BY <2>1, <2>2, <2>3
  <2> QED  BY <2>1, <2>4 DEF r
<1> QED  BY <1>1, <1>6, <1>7

\* Numbers with the same low bits differ by a multiple of a power of two.
LEMMA SameReversed ==
    ASSUME NEW v \in Nat, NEW w \in Nat
    PROVE  \A n \in Nat : ReverseBits(v, n) = ReverseBits(w, n) =>
               v - w = Pow2(n) * (ShiftRight(v, n) - ShiftRight(w, n))
<1> DEFINE Apart(n) == v - w = Pow2(n) * (ShiftRight(v, n) - ShiftRight(w, n))
           T == {n \in Nat : ReverseBits(v, n) = ReverseBits(w, n) /\ ~ Apart(n)}
<1> SUFFICES ASSUME T # {} PROVE FALSE
  OBVIOUS
<1>1. PICK n \in T : \A k \in T : n <= k
  BY LeastNatural, T \subseteq Nat
<1>2. n # 0
  <2>1. Pow2(0) = 1 /\ ShiftRight(v, 0) = v /\ ShiftRight(w, 0) = w
    BY Pow2Step, ShiftRightStep
  <2> QED  BY <1>1, <2>1
<1> DEFINE m == n - 1
           a == ShiftRight(v, n)
           b == ShiftRight(w, n)
           c == ShiftRight(v, m)
           d == ShiftRight(w, m)
<1>3. m \in Nat /\ n = m + 1 /\ n \in Nat
  BY <1>1, <1>2
<1>4. /\ a \in Nat /\ b \in Nat /\ c \in Nat /\ d \in Nat
      /\ a = c \div 2 /\ b = d \div 2
  <2> HIDE DEF m
  <2> QED  BY <1>3, ShiftRightStep
<1>5. 2 * ReverseBits(v, m) + (c % 2) = 2 * ReverseBits(w, m) + (d % 2)
  <2> HIDE DEF m
  <2> QED  BY <1>1, <1>3, ReverseBitsStep
<1>6. ReverseBits(v, m) \in Nat /\ ReverseBits(w, m) \in Nat
  <2> HIDE DEF m
  <2> QED  BY <1>3, ReverseBitsStep
<1>7. ReverseBits(v, m) = ReverseBits(w, m) /\ c % 2 = d % 2
  <2> HIDE DEF m, c, d
  <2>1. c % 2 \in {0, 1} /\ d % 2 \in {0, 1}
    BY <1>4
  <2>2. \A x, y \in Nat, p, q \in {0, 1} : 2 * x + p = 2 * y + q => x = y /\ p = q
    OBVIOUS
  <2> QED  BY <1>5, <1>6, <2>1, <2>2
<1>8. v - w = Pow2(m) * (c - d)
  <2>1. m \notin T
    BY <1>1, <1>3
  <2> HIDE DEF m
  <2> QED  BY <1>3, <1>7, <2>1
<1>9. c - d = 2 * (a - b)
  <2> HIDE DEF m, a, b, c, d
  <2>1. c = 2 * (c \div 2) + (c % 2) /\ d = 2 * (d \div 2) + (d % 2)
    BY <1>4
  <2> QED  BY <1>4, <1>7, <2>1
<1>10. Pow2(m) \in Nat /\ Pow2(n) = 2 * Pow2(m)
  <2> HIDE DEF m
  <2> QED  BY <1>3, Pow2Step
<1>11. v - w = Pow2(n) * (a - b)
  <2>1. \A p \in Nat, x, y \in Nat : p * (2 * (x - y)) = (2 * p) * (x - y)
    OBVIOUS
  <2> HIDE DEF m, a, b, c, d
  <2> QED  BY <1>4, <1>8, <1>9, <1>10, <2>1
<1> QED  BY <1>1, <1>11

LEMMA Pow2Sum ==
    ASSUME NEW n \in Nat
    PROVE  \A k \in Nat : Pow2(n + k) = Pow2(n) * Pow2(k)
<1> DEFINE T == {k \in Nat : Pow2(n + k) # Pow2(n) * Pow2(k)}
<1> SUFFICES ASSUME T # {} PROVE FALSE
  OBVIOUS
<1>1. PICK k \in T : \A j \in T : k <= j
  BY LeastNatural, T \subseteq Nat
<1>2. k # 0
  <2>1. n + 0 = n /\ Pow2(0) = 1 /\ Pow2(n) \in Nat
    BY Pow2Step
  <2> QED  BY <1>1, <2>1
<1>3. k - 1 \in Nat /\ (k - 1) + 1 = k /\ n + (k - 1) \in Nat /\ (n + (k - 1)) + 1 = n + k
  BY <1>1, <1>2
<1>4. Pow2(n + (k - 1)) = Pow2(n) * Pow2(k - 1)
  <2>1. k - 1 \notin T
    BY <1>1, <1>3
  <2> QED  BY <1>3, <2>1
<1>5. Pow2(k) = 2 * Pow2(k - 1) /\ Pow2(k - 1) \in Nat /\ Pow2(n) \in Nat
  BY <1>3, Pow2Step
<1>6. Pow2(n + k) = 2 * Pow2(n + (k - 1))
  BY <1>3, Pow2Step
<1>7. \A x, y \in Nat : 2 * (x * y) = x * (2 * y)
  OBVIOUS
<1>8. Pow2(n + k) = Pow2(n) * Pow2(k)
  BY <1>4, <1>5, <1>6, <1>7
<1> QED  BY <1>1, <1>8

LEMMA QuotientExists ==
    ASSUME NEW y \in Nat, NEW n \in Nat, n >= 1
    PROVE  (\E q \in Nat : y = n * q + (y % n)) /\ y % n \in Nat
<1> DEFINE q == y \div n
           r == y % n
<1>1. y = n * q + r /\ r \in Nat /\ q \in Nat
  OBVIOUS
<1> HIDE DEF q, r
<1> QED  BY <1>1 DEF r

\* The counter at two of 2^l places in a row, l bits reversed, gives two numbers.
LEMMA ReversedApart ==
    ASSUME NEW x \in Leaves, NEW l \in Levels,
           NEW j \in 0 .. Pow2(l) - 1, NEW k \in 0 .. Pow2(l) - 1, j < k
    PROVE  ReverseBits((x + j) % NumLeaves, l) # ReverseBits((x + k) % NumLeaves, l)
<1> DEFINE P == Pow2(l)
           Q == Pow2(TreeHeight - l)
           N == NumLeaves
           v == (x + j) % N
           w == (x + k) % N
<1>1. l \in Nat /\ TreeHeight - l \in Nat /\ l + (TreeHeight - l) = TreeHeight
  BY TreeHeightAssumption DEF Levels
<1>2. P \in Nat /\ P >= 1 /\ Q \in Nat /\ Q >= 1 /\ N = P * Q /\ N \in Nat /\ N >= 1
  <2>1. P \in Nat /\ P >= 1 /\ Q \in Nat /\ Q >= 1 /\ N \in Nat /\ N >= 1
    BY <1>1, Pow2Step, TreeHeightAssumption DEF NumLeaves
  <2>2. N = P * Q
    BY <1>1, Pow2Sum DEF NumLeaves
  <2> QED  BY <2>1, <2>2
<1>3. x \in Nat /\ j \in Nat /\ k \in Nat /\ k < P
  <2>1. x \in Nat
    <3>1. x \in 0 .. N - 1
      BY DEF Leaves
    <3> HIDE DEF N
    <3> QED  BY <1>2, <3>1
  <2>2. j \in 0 .. P - 1 /\ k \in 0 .. P - 1
    OBVIOUS
  <2> HIDE DEF P
  <2> QED  BY <1>2, <2>1, <2>2
<1>4. PICK d \in Nat : x + j = N * d + v
  <2> HIDE DEF N
  <2>1. x + j \in Nat
    BY <1>3
  <2> QED  BY <1>2, <2>1, QuotientExists
<1>5. PICK e \in Nat : x + k = N * e + w
  <2> HIDE DEF N
  <2>1. x + k \in Nat
    BY <1>3
  <2> QED  BY <1>2, <2>1, QuotientExists
<1>6. v \in Nat /\ w \in Nat
  <2> HIDE DEF N
  <2>1. x + j \in Nat /\ x + k \in Nat
    BY <1>3
  <2> QED  BY <1>2, <2>1, QuotientExists
<1> SUFFICES ASSUME ReverseBits(v, l) = ReverseBits(w, l) PROVE FALSE
  OBVIOUS
<1> DEFINE a == ShiftRight(v, l)
           b == ShiftRight(w, l)
<1>7. v - w = P * (a - b) /\ a \in Nat /\ b \in Nat
  <2> HIDE DEF v, w
  <2> QED  BY <1>1, <1>6, SameReversed, ShiftRightStep
<1> HIDE DEF P, Q, N, v, w, a, b
<1>8. k - j = N * (e - d) - P * (a - b)
  <2>1. k - j = (N * e + w) - (N * d + v)
    BY <1>3, <1>4, <1>5
  <2> QED  BY <1>2, <1>6, <1>7, <2>1
<1>9. N * (e - d) = P * (Q * (e - d))
  BY <1>2
<1>10. PICK i \in Int : k - j = P * i
  <2> DEFINE u == Q * (e - d)
  <2>1. u \in Int /\ a - b \in Int
    BY <1>2, <1>7
  <2> HIDE DEF u
  <2>2. k - j = P * (u - (a - b))
    BY <1>2, <1>8, <1>9, <2>1 DEF u
  <2> QED  BY <2>1, <2>2
<1>11. 0 < k - j /\ k - j < P
  BY <1>2, <1>3
<1>12. i >= 1 \/ i <= 0
  BY <1>10
<1>13. i >= 1 => P * i >= P
  BY <1>2, <1>10
<1>14. i <= 0 => P * i <= 0
  BY <1>2, <1>10
<1> QED  BY <1>2, <1>3, <1>10, <1>11, <1>12, <1>13, <1>14

-----------------------------------------------------------------------------
\* The swap network sorts.  Seen from a threshold its rows are zeros and ones,
\* and what is proved first is that n phases sort any n of those.

\* The ones from position x on, in a row of n zeros and ones.
Ones(row, x, n) == {j \in x .. n : row[j] = 1}

LEMMA OnesCount ==
    ASSUME NEW n \in Nat, NEW row \in [1 .. n -> {0, 1}]
    PROVE  /\ Cardinality(Ones(row, n + 1, n)) = 0
           /\ \A x \in 1 .. n + 1 : /\ IsFiniteSet(Ones(row, x, n))
                                    /\ Cardinality(Ones(row, x, n)) \in Nat
           /\ \A x \in 1 .. n : Cardinality(Ones(row, x, n)) = Cardinality(Ones(row, x + 1, n)) + row[x]
           /\ \A x \in 1 .. n + 1 : Cardinality(Ones(row, x, n)) <= n - x + 1
<1>1. ASSUME NEW x \in 1 .. n + 1
      PROVE  /\ IsFiniteSet(Ones(row, x, n))
             /\ Cardinality(Ones(row, x, n)) \in Nat
             /\ Cardinality(Ones(row, x, n)) <= n - x + 1
  <2>1. x \in Int /\ n \in Int /\ (x <= n \/ x = n + 1)
    OBVIOUS
  <2>2. IsFiniteSet(x .. n)
    BY <2>1, FS_Interval
  <2>3. Cardinality(x .. n) = n - x + 1
    <3>1. Cardinality(x .. n) = IF x > n THEN 0 ELSE n - x + 1
      BY <2>1, FS_Interval
    <3> QED  BY <2>1, <3>1
  <2>4. Ones(row, x, n) \subseteq x .. n
    BY DEF Ones
  <2>5. IsFiniteSet(Ones(row, x, n)) /\ Cardinality(Ones(row, x, n)) <= Cardinality(x .. n)
    BY <2>2, <2>4, FS_Subset
  <2> QED  BY <2>3, <2>5, FS_CardinalityType
<1>2. Cardinality(Ones(row, n + 1, n)) = 0
  <2>1. Ones(row, n + 1, n) = {}
    BY DEF Ones
  <2> QED  BY <2>1, FS_EmptySet
<1>3. ASSUME NEW x \in 1 .. n
      PROVE  Cardinality(Ones(row, x, n)) = Cardinality(Ones(row, x + 1, n)) + row[x]
  <2>1. x + 1 \in 1 .. n + 1
    OBVIOUS
  <2>2. IsFiniteSet(Ones(row, x + 1, n)) /\ Cardinality(Ones(row, x + 1, n)) \in Nat
    BY <1>1, <2>1
  <2>3. CASE row[x] = 1
    <3>1. Ones(row, x, n) = Ones(row, x + 1, n) \cup {x} /\ x \notin Ones(row, x + 1, n)
      BY <2>3 DEF Ones
    <3> QED  BY <2>2, <2>3, <3>1, FS_AddElement
  <2>4. CASE row[x] # 1
    <3>1. row[x] = 0
      BY <2>4
    <3>2. Ones(row, x, n) = Ones(row, x + 1, n)
      BY <2>4 DEF Ones
    <3> QED  BY <2>2, <3>1, <3>2
  <2> QED  BY <2>3, <2>4
<1> QED  BY <1>1, <1>2, <1>3

\* What phase q does to a row of zeros and ones: each of its gates sorts two
\* neighbours, and what is not at a gate stays.
PhaseOf(before, after, q, n) ==
    /\ \A g \in 1 .. n - 1 : g % 2 = q % 2 =>
          /\ after[g + 1] = (IF before[g] = 1 THEN 1 ELSE before[g + 1])
          /\ after[g] + after[g + 1] = before[g] + before[g + 1]
    /\ n % 2 = q % 2 => after[n] = before[n]
    /\ q % 2 = 0 => after[1] = before[1]

\* No gate of the phase goes across the positions it starts a pair at.
LEMMA NothingCrosses ==
    ASSUME NEW n \in Nat \ {0}, NEW q \in Nat,
           NEW before \in [1 .. n -> {0, 1}], NEW after \in [1 .. n -> {0, 1}],
           PhaseOf(before, after, q, n)
    PROVE  \A x \in 1 .. n + 1 : x % 2 = q % 2 =>
               Cardinality(Ones(after, x, n)) = Cardinality(Ones(before, x, n))
<1> DEFINE c(x) == Cardinality(Ones(before, x, n))
           d(x) == Cardinality(Ones(after, x, n))
           T == {i \in 0 .. n : (n + 1 - i) % 2 = q % 2 /\ d(n + 1 - i) # c(n + 1 - i)}
<1>1. /\ c(n + 1) = 0 /\ d(n + 1) = 0
      /\ \A x \in 1 .. n + 1 : c(x) \in Nat /\ d(x) \in Nat
      /\ \A x \in 1 .. n : c(x) = c(x + 1) + before[x] /\ d(x) = d(x + 1) + after[x]
  BY OnesCount
<1> HIDE DEF c, d
<1>2. T = {}
  <2> SUFFICES ASSUME T # {} PROVE FALSE
    OBVIOUS
  <2>1. PICK i \in T : \A k \in T : i <= k
    BY LeastNatural, T \subseteq Nat
  <2> DEFINE x == n + 1 - i
  <2>2. i \in 0 .. n /\ x \in 1 .. n + 1 /\ x % 2 = q % 2 /\ d(x) # c(x)
    BY <2>1
  <2>3. x # n + 1
    BY <1>1, <2>2
  <2>4. CASE x = n
    <3>1. after[n] = before[n]
      BY <2>2, <2>4 DEF PhaseOf
    <3>2. n \in 1 .. n
      OBVIOUS
    <3> QED  BY <1>1, <2>2, <2>4, <3>1, <3>2
  <2>5. CASE x < n
    <3>1. x \in 1 .. n - 1 /\ x \in 1 .. n /\ x + 1 \in 1 .. n /\ x + 2 \in 1 .. n + 1 /\ (x + 1) + 1 = x + 2
      BY <2>2, <2>5
    <3>2. after[x] + after[x + 1] = before[x] + before[x + 1]
      <4> HIDE DEF x
      <4> QED  BY <2>2, <3>1 DEF PhaseOf
    <3>3. d(x + 2) = c(x + 2)
      <4>1. i - 2 \in 0 .. n /\ n + 1 - (i - 2) = x + 2
        BY <2>2, <3>1
      <4>2. (x + 2) % 2 = x % 2
        <5> HIDE DEF x
        <5> QED  BY <2>2
      <4>3. i - 2 \notin T
        <5>1. i \in Nat /\ ~ (i <= i - 2)
          BY <2>2
        <5> HIDE DEF T
        <5> QED  BY <2>1, <5>1
      <4> HIDE DEF x
      <4> QED  BY <2>2, <4>1, <4>2, <4>3
    <3>4. d(x) = d(x + 2) + after[x + 1] + after[x] /\ c(x) = c(x + 2) + before[x + 1] + before[x]
      <4> HIDE DEF x
      <4> QED  BY <1>1, <3>1
    <3>5. after[x] \in {0, 1} /\ after[x + 1] \in {0, 1} /\ before[x] \in {0, 1} /\ before[x + 1] \in {0, 1}
      <4> HIDE DEF x
      <4> QED  BY <3>1
    <3>6. c(x + 2) \in Nat
      <4> HIDE DEF x
      <4> QED  BY <1>1, <3>1
    <3>7. d(x) # c(x)
      BY <2>2
    <3> HIDE DEF x, T
    <3> QED  BY <3>2, <3>3, <3>4, <3>5, <3>6, <3>7
  <2> QED  BY <2>2, <2>3, <2>4, <2>5
<1>3. ASSUME NEW x \in 1 .. n + 1, x % 2 = q % 2 PROVE d(x) = c(x)
  <2>1. n + 1 - x \in 0 .. n /\ n + 1 - (n + 1 - x) = x
    OBVIOUS
  <2> QED  BY <1>2, <1>3, <2>1
<1> QED  BY <1>3 DEF c, d

\* Its gates move no one in or out of the row.
LEMMA TotalKept ==
    ASSUME NEW n \in Nat \ {0}, NEW q \in Nat,
           NEW before \in [1 .. n -> {0, 1}], NEW after \in [1 .. n -> {0, 1}],
           PhaseOf(before, after, q, n)
    PROVE  Cardinality(Ones(after, 1, n)) = Cardinality(Ones(before, 1, n))
<1>1. CASE q % 2 = 1
  <2>1. 1 \in 1 .. n + 1 /\ 1 % 2 = q % 2
    BY <1>1
  <2> QED  BY <2>1, NothingCrosses
<1>2. CASE q % 2 = 0
  <2>1. 2 \in 1 .. n + 1 /\ 2 % 2 = q % 2 /\ 1 \in 1 .. n /\ 1 + 1 = 2
    BY <1>2
  <2>2. Cardinality(Ones(after, 2, n)) = Cardinality(Ones(before, 2, n))
    BY <2>1, NothingCrosses
  <2>3. after[1] = before[1]
    BY <1>2 DEF PhaseOf
  <2>4. /\ Cardinality(Ones(after, 1, n)) = Cardinality(Ones(after, 2, n)) + after[1]
        /\ Cardinality(Ones(before, 1, n)) = Cardinality(Ones(before, 2, n)) + before[1]
    <3>1. ASSUME NEW row \in [1 .. n -> {0, 1}]
          PROVE  Cardinality(Ones(row, 1, n)) = Cardinality(Ones(row, 2, n)) + row[1]
      <4>1. Cardinality(Ones(row, 1, n)) = Cardinality(Ones(row, 1 + 1, n)) + row[1]
        BY <2>1, OnesCount
      <4> QED  BY <2>1, <4>1
    <3> QED  BY <3>1
  <2> QED  BY <2>2, <2>3, <2>4
<1> QED  BY <1>1, <1>2

\* How far m ones have come after p phases: enough of them are at or beyond each
\* position that a gate of the last phase ends at.
Ahead(row, p, m, n) ==
    \A x \in 1 .. n + 1 : x % 2 = (p + 1) % 2 =>
        \/ Cardinality(Ones(row, x, n)) >= n - x + 1
        \/ 2 * Cardinality(Ones(row, x, n)) >= p + 1 + m + (m % 2) - x
        \/ Cardinality(Ones(row, x, n)) >= m

LEMMA AheadAtFirst ==
    ASSUME NEW n \in Nat \ {0}, NEW row \in [1 .. n -> {0, 1}]
    PROVE  Ahead(row, 0, Cardinality(Ones(row, 1, n)), n)
<1> DEFINE c(x) == Cardinality(Ones(row, x, n))
           m == c(1)
<1>1. /\ \A x \in 1 .. n + 1 : c(x) \in Nat
      /\ \A x \in 1 .. n : c(x) = c(x + 1) + row[x]
  BY OnesCount
<1> HIDE DEF c
<1>2. \A x \in 1 .. n + 1 : c(x) >= m - (x - 1)
  <2> DEFINE T == {x \in 1 .. n + 1 : ~ (c(x) >= m - (x - 1))}
  <2> SUFFICES ASSUME T # {} PROVE FALSE
    OBVIOUS
  <2>1. PICK x \in T : \A y \in T : x <= y
    BY LeastNatural, T \subseteq Nat
  <2>2. x \in 1 .. n + 1 /\ ~ (c(x) >= m - (x - 1))
    BY <2>1
  <2>3. x # 1
    BY <1>1, <2>2
  <2>4. x - 1 \in 1 .. n /\ x - 1 \in 1 .. n + 1 /\ (x - 1) + 1 = x
    BY <2>2, <2>3
  <2>5. c(x - 1) >= m - ((x - 1) - 1)
    <3>1. x - 1 \notin T
      <4>1. ~ (x <= x - 1)
        BY <2>4
      <4> HIDE DEF T
      <4> QED  BY <2>1, <4>1
    <3> QED  BY <2>4, <3>1
  <2>6. c(x - 1) = c(x) + row[x - 1] /\ row[x - 1] \in {0, 1} /\ c(x) \in Nat
    BY <1>1, <2>2, <2>4
  <2>7. m \in Nat
    BY <1>1
  <2> HIDE DEF m, T
  <2> QED  BY <2>2, <2>5, <2>6, <2>7
<1>3. ASSUME NEW x \in 1 .. n + 1, x % 2 = 1
      PROVE  2 * c(x) >= 0 + 1 + m + (m % 2) - x
  <2>1. m \in Nat /\ c(x) \in Nat /\ c(x) >= m - (x - 1)
    BY <1>1, <1>2
  <2> HIDE DEF m
  <2>2. CASE x <= m
    BY <2>1, <2>2
  <2>3. CASE x > m
    <3>1. x >= m + 1 + (m % 2)
      <4>1. CASE m % 2 = 0
        BY <2>1, <2>3, <4>1
      <4>2. CASE m % 2 = 1
        <5>1. (m + 1) % 2 = 0
          BY <2>1, <4>2
        <5>2. x # m + 1
          BY <1>3, <5>1
        <5> QED  BY <2>1, <2>3, <4>2, <5>2
      <4> QED  BY <2>1, <4>1, <4>2
    <3>2. m % 2 \in {0, 1}
      BY <2>1
    <3> QED  BY <2>1, <3>1, <3>2
  <2> QED  BY <2>1, <2>2, <2>3
<1> QED  BY <1>3 DEF Ahead, c

\* A phase lets each of them move on by one where there is room.
LEMMA PhaseMovesAhead ==
    ASSUME NEW n \in Nat \ {0}, NEW q \in 1 .. n, NEW m \in Nat,
           NEW before \in [1 .. n -> {0, 1}], NEW after \in [1 .. n -> {0, 1}],
           PhaseOf(before, after, q, n), Ahead(before, q - 1, m, n),
           Cardinality(Ones(before, 1, n)) = m
    PROVE  Ahead(after, q, m, n)
<1> DEFINE c(x) == Cardinality(Ones(before, x, n))
           d(x) == Cardinality(Ones(after, x, n))
           k == m + (m % 2)
<1>1. /\ c(n + 1) = 0 /\ d(n + 1) = 0
      /\ \A x \in 1 .. n + 1 : c(x) \in Nat /\ d(x) \in Nat
      /\ \A x \in 1 .. n : c(x) = c(x + 1) + before[x] /\ d(x) = d(x + 1) + after[x]
  BY OnesCount
<1>2. \A x \in 1 .. n + 1 : x % 2 = q % 2 => d(x) = c(x)
  BY NothingCrosses
<1>3. d(1) = m
  BY TotalKept
<1>4. \A x \in 1 .. n + 1 : x % 2 = q % 2 => c(x) >= n - x + 1 \/ 2 * c(x) >= q + k - x \/ c(x) >= m
  <2>1. (q - 1) + 1 = q
    OBVIOUS
  <2>2. \A x \in 1 .. n + 1 : q + m + (m % 2) - x = q + k - x
    OBVIOUS
  <2> QED  BY <2>1, <2>2 DEF Ahead
<1>5. k \in Nat
  OBVIOUS
<1> HIDE DEF c, d, k
<1>6. ASSUME NEW x \in 1 .. n + 1, x % 2 = (q + 1) % 2
      PROVE  d(x) >= n - x + 1 \/ 2 * d(x) >= q + 1 + k - x \/ d(x) >= m
  <2>1. CASE x = 1
    BY <1>3, <2>1
  <2>2. CASE x = n + 1
    BY <1>1, <2>2
  <2>3. CASE x # 1 /\ x # n + 1
    <3>1. /\ x \in 1 .. n /\ x - 1 \in 1 .. n /\ x - 1 \in 1 .. n - 1 /\ x - 1 \in 1 .. n + 1
          /\ x + 1 \in 1 .. n + 1 /\ (x - 1) + 1 = x
      BY <2>3
    <3>2. (x - 1) % 2 = q % 2 /\ (x + 1) % 2 = q % 2
      BY <1>6
    <3>3. c(x - 1) = c(x + 1) + before[x] + before[x - 1] /\ d(x) = d(x + 1) + after[x]
      BY <1>1, <3>1
    <3>4. after[x] = (IF before[x - 1] = 1 THEN 1 ELSE before[x])
      BY <3>1, <3>2 DEF PhaseOf
    <3>5. d(x + 1) = c(x + 1)
      BY <1>2, <3>1, <3>2
    <3>6. before[x - 1] \in {0, 1} /\ before[x] \in {0, 1} /\ c(x + 1) \in Nat /\ c(x - 1) \in Nat /\ d(x) \in Nat
      BY <1>1, <3>1
    <3>7. d(x) = c(x + 1) + (IF c(x - 1) > c(x + 1) THEN 1 ELSE 0)
      BY <3>3, <3>4, <3>5, <3>6
    <3>8. c(x - 1) >= n - x + 2 \/ 2 * c(x - 1) >= q + 1 + k - x \/ c(x - 1) >= m
      <4>1. n - (x - 1) + 1 = n - x + 2 /\ q + k - (x - 1) = q + 1 + k - x
        BY <1>5
      <4> QED  BY <1>4, <3>1, <3>2, <4>1
    <3>9. c(x + 1) >= n - x \/ 2 * c(x + 1) >= q + k - x - 1 \/ c(x + 1) >= m
      <4>1. n - (x + 1) + 1 = n - x /\ q + k - (x + 1) = q + k - x - 1
        BY <1>5
      <4> QED  BY <1>4, <3>1, <3>2, <4>1
    <3> DEFINE u == c(x + 1)
               v == c(x - 1)
               w == d(x)
    <3>10. /\ u \in Nat /\ v \in Nat /\ w \in Nat
           /\ w = u + (IF v > u THEN 1 ELSE 0)
           /\ v >= n - x + 2 \/ 2 * v >= q + 1 + k - x \/ v >= m
           /\ u >= n - x \/ 2 * u >= q + k - x - 1 \/ u >= m
      BY <3>6, <3>7, <3>8, <3>9
    <3> HIDE DEF u, v, w
    <3>11. CASE v > u
      <4>1. w = u + 1
        BY <3>10, <3>11
      <4>2. w >= n - x + 1 \/ 2 * w >= q + 1 + k - x \/ w >= m
        BY <1>5, <3>1, <3>10, <4>1
      <4> QED  BY <4>2 DEF w
    <3>12. CASE ~ (v > u)
      <4>1. w = u /\ w >= v
        BY <3>10, <3>12
      <4>2. w >= n - x + 1 \/ 2 * w >= q + 1 + k - x \/ w >= m
        BY <1>5, <3>1, <3>10, <4>1
      <4> QED  BY <4>2 DEF w
    <3> QED  BY <3>11, <3>12
  <2> QED  BY <2>1, <2>2, <2>3
<1>7. \A x \in 1 .. n + 1 : q + 1 + m + (m % 2) - x = q + 1 + k - x
  BY DEF k
<1> QED  BY <1>6, <1>7 DEF Ahead, d

\* After n phases the ones are where they belong, all at the end.
LEMMA AheadAtLast ==
    ASSUME NEW n \in Nat \ {0}, NEW m \in Nat,
           NEW before \in [1 .. n -> {0, 1}], NEW after \in [1 .. n -> {0, 1}],
           PhaseOf(before, after, n, n), Ahead(before, n - 1, m, n), Ahead(after, n, m, n),
           Cardinality(Ones(after, 1, n)) = m
    PROVE  \A x \in 1 .. n : after[x] = 1 <=> x >= n - m + 1
<1> DEFINE d(x) == Cardinality(Ones(after, x, n))
           y == n - m + 1
<1>1. /\ d(n + 1) = 0 /\ d(1) = m
      /\ \A x \in 1 .. n + 1 : d(x) \in Nat /\ d(x) <= n - x + 1
      /\ \A x \in 1 .. n : d(x) = d(x + 1) + after[x]
  BY OnesCount
<1> HIDE DEF d
<1>2. m <= n /\ y \in 1 .. n + 1 /\ y - 1 <= n
  <2>1. 1 \in 1 .. n + 1 /\ n - 1 + 1 = n
    OBVIOUS
  <2> QED  BY <1>1, <2>1
<1>3. d(y) >= m
  <2>1. n - y + 1 = m
    OBVIOUS
  <2>2. CASE m % 2 = 0
    <3>1. y % 2 = (n + 1) % 2
      BY <1>2, <2>2
    <3>2. d(y) >= n - y + 1 \/ 2 * d(y) >= n + 1 + m + (m % 2) - y \/ d(y) >= m
      <4> HIDE DEF y
      <4> QED  BY <1>2, <3>1 DEF Ahead, d
    <3>3. d(y) \in Nat
      BY <1>1, <1>2
    <3> QED  BY <2>2, <3>2, <3>3
  <2>3. CASE m % 2 = 1
    <3>1. y % 2 = n % 2 /\ y % 2 = ((n - 1) + 1) % 2
      BY <1>2, <2>3
    <3>2. d(y) = Cardinality(Ones(before, y, n))
      <4> HIDE DEF y
      <4> QED  BY <1>2, <3>1, NothingCrosses DEF d
    <3>3. d(y) >= n - y + 1 \/ 2 * d(y) >= (n - 1) + 1 + m + (m % 2) - y \/ d(y) >= m
      <4> HIDE DEF y
      <4> QED  BY <1>2, <3>1, <3>2 DEF Ahead
    <3>4. d(y) \in Nat
      BY <1>1, <1>2
    <3> QED  BY <2>3, <3>3, <3>4
  <2> QED  BY <2>2, <2>3
<1>4. \A x \in 1 .. n + 1 : x >= y => d(x) = n - x + 1
  <2> DEFINE T == {x \in 1 .. n + 1 : x >= y /\ d(x) # n - x + 1}
  <2> SUFFICES ASSUME T # {} PROVE FALSE
    OBVIOUS
  <2>1. PICK x \in T : \A z \in T : x <= z
    BY LeastNatural, T \subseteq Nat
  <2>2. x \in 1 .. n + 1 /\ x >= y /\ d(x) # n - x + 1
    BY <2>1
  <2>3. x # y
    <3>1. d(y) <= n - y + 1 /\ d(y) \in Nat
      <4> HIDE DEF y
      <4> QED  BY <1>1, <1>2
    <3>3. n - y + 1 = m
      OBVIOUS
    <3>2. d(y) = n - y + 1
      BY <1>3, <3>1
    <3> QED  BY <2>2, <3>2
  <2>4. x - 1 \in 1 .. n /\ x - 1 >= y /\ x - 1 \in 1 .. n + 1 /\ (x - 1) + 1 = x
    BY <1>2, <2>2, <2>3
  <2>5. d(x - 1) = n - (x - 1) + 1
    <3>1. x - 1 \notin T
      <4>1. ~ (x <= x - 1)
        BY <2>4
      <4> HIDE DEF T
      <4> QED  BY <2>1, <4>1
    <3> QED  BY <2>4, <3>1
  <2>6. d(x - 1) = d(x) + after[x - 1] /\ after[x - 1] \in {0, 1} /\ d(x) \in Nat /\ d(x) <= n - x + 1
    BY <1>1, <2>2, <2>4
  <2> HIDE DEF T, y
  <2> QED  BY <2>2, <2>5, <2>6
<1>5. \A x \in 1 .. n + 1 : x <= y => d(x) = m
  <2> DEFINE T == {x \in 1 .. n + 1 : x <= y /\ ~ (d(x) >= m)}
             S == {i \in 0 .. n : n + 1 - i \in T}
  <2>1. S = {}
    <3> SUFFICES ASSUME S # {} PROVE FALSE
      OBVIOUS
    <3>1. PICK i \in S : \A z \in S : i <= z
      BY LeastNatural, S \subseteq Nat
    <3> DEFINE x == n + 1 - i
    <3>2. i \in 0 .. n /\ x \in 1 .. n + 1 /\ x <= y /\ ~ (d(x) >= m)
      BY <3>1
    <3>3. x # y
      BY <1>3, <3>2
    <3>4. x \in 1 .. n /\ x + 1 \in 1 .. n + 1 /\ x + 1 <= y /\ i - 1 \in 0 .. n /\ n + 1 - (i - 1) = x + 1
      BY <1>2, <3>2, <3>3
    <3>5. d(x + 1) >= m
      <4>1. i - 1 \notin S
        <5>1. ~ (i <= i - 1)
          BY <3>2
        <5> HIDE DEF S
        <5> QED  BY <3>1, <5>1
      <4>2. x + 1 \notin T
        <5> HIDE DEF T, x
        <5> QED  BY <3>4, <4>1
      <4> HIDE DEF x, y
      <4> QED  BY <3>4, <4>2
    <3>6. d(x) = d(x + 1) + after[x] /\ after[x] \in {0, 1} /\ d(x) \in Nat /\ d(x + 1) \in Nat
      <4> HIDE DEF x
      <4> QED  BY <1>1, <3>2, <3>4
    <3>7. ~ (d(x) >= m)
      BY <3>2
    <3> HIDE DEF x, S, T, y
    <3> QED  BY <3>5, <3>6, <3>7
  <2>2. \A x \in 1 .. n + 1 : x <= y => d(x) >= m
    <3> SUFFICES ASSUME NEW x \in 1 .. n + 1, x <= y PROVE d(x) >= m
      OBVIOUS
    <3>1. n + 1 - x \in 0 .. n /\ n + 1 - (n + 1 - x) = x
      OBVIOUS
    <3>2. x \notin T
      <4> HIDE DEF T
      <4> QED  BY <2>1, <3>1
    <3> QED  BY <3>2
  <2>3. \A x \in 1 .. n + 1 : d(x) <= m
    <3> DEFINE U == {x \in 1 .. n + 1 : ~ (d(x) <= m)}
    <3> SUFFICES ASSUME U # {} PROVE FALSE
      OBVIOUS
    <3>1. PICK x \in U : \A z \in U : x <= z
      BY LeastNatural, U \subseteq Nat
    <3>2. x \in 1 .. n + 1 /\ ~ (d(x) <= m)
      BY <3>1
    <3>3. x # 1
      BY <1>1, <3>2
    <3>4. x - 1 \in 1 .. n /\ x - 1 \in 1 .. n + 1 /\ (x - 1) + 1 = x
      BY <3>2, <3>3
    <3>5. d(x - 1) <= m
      <4>1. x - 1 \notin U
        <5>1. ~ (x <= x - 1)
          BY <3>4
        <5> HIDE DEF U
        <5> QED  BY <3>1, <5>1
      <4> QED  BY <3>4, <4>1
    <3>6. d(x - 1) = d(x) + after[x - 1] /\ after[x - 1] \in {0, 1} /\ d(x) \in Nat /\ d(x - 1) \in Nat
      BY <1>1, <3>2, <3>4
    <3> HIDE DEF U
    <3> QED  BY <3>2, <3>5, <3>6
  <2>4. \A x \in 1 .. n + 1 : d(x) \in Nat
    BY <1>1
  <2> HIDE DEF T, S, y
  <2> QED  BY <2>2, <2>3, <2>4
<1>6. ASSUME NEW x \in 1 .. n PROVE after[x] = 1 <=> x >= y
  <2>1. x \in 1 .. n + 1 /\ x + 1 \in 1 .. n + 1 /\ d(x) = d(x + 1) + after[x] /\ after[x] \in {0, 1}
    BY <1>1
  <2>2. y \in Int
    OBVIOUS
  <2>3. CASE x >= y
    <3>1. d(x) = n - x + 1 /\ d(x + 1) = n - (x + 1) + 1
      <4> HIDE DEF y
      <4> QED  BY <1>4, <2>1, <2>2, <2>3
    <3> QED  BY <2>1, <2>3, <3>1
  <2>4. CASE ~ (x >= y)
    <3>1. d(x) = m /\ d(x + 1) = m
      <4> HIDE DEF y
      <4> QED  BY <1>5, <2>1, <2>2, <2>4
    <3>2. after[x] = 0
      BY <2>1, <3>1
    <3> QED  BY <2>4, <3>2
  <2> QED  BY <2>3, <2>4
<1> QED  BY <1>6

\* Sorting zeros and ones: n phases are enough for n places, wherever the ones are.
LEMMA PhasesSort ==
    ASSUME NEW n \in Nat \ {0}, NEW rows \in [0 .. n -> [1 .. n -> {0, 1}]],
           \A q \in 1 .. n : PhaseOf(rows[q - 1], rows[q], q, n)
    PROVE  \A x \in 1 .. n : rows[n][x] = 1 <=> x >= n - Cardinality(Ones(rows[0], 1, n)) + 1
<1> DEFINE m == Cardinality(Ones(rows[0], 1, n))
           Good(q) == Ahead(rows[q], q, m, n) /\ Cardinality(Ones(rows[q], 1, n)) = m
           T == {q \in 0 .. n : ~ Good(q)}
<1>1. \A q \in 0 .. n : rows[q] \in [1 .. n -> {0, 1}]
  OBVIOUS
<1>2. m \in Nat
  <2>1. 1 \in 1 .. n + 1 /\ 0 \in 0 .. n
    OBVIOUS
  <2> QED  BY <1>1, <2>1, OnesCount
<1>3. Good(0)
  <2>1. rows[0] \in [1 .. n -> {0, 1}]
    BY <1>1
  <2> QED  BY <2>1, AheadAtFirst
<1>4. ASSUME NEW q \in 1 .. n, Good(q - 1) PROVE Good(q)
  <2>1. rows[q - 1] \in [1 .. n -> {0, 1}] /\ rows[q] \in [1 .. n -> {0, 1}] /\ q \in Nat
    BY <1>1
  <2>2. PhaseOf(rows[q - 1], rows[q], q, n)
    OBVIOUS
  <2>3. Ahead(rows[q - 1], q - 1, m, n) /\ Cardinality(Ones(rows[q - 1], 1, n)) = m
    BY <1>4
  <2> HIDE DEF m
  <2>4. Ahead(rows[q], q, m, n)
    BY <1>2, <2>1, <2>2, <2>3, PhaseMovesAhead
  <2>5. Cardinality(Ones(rows[q], 1, n)) = m
    BY <2>1, <2>2, <2>3, TotalKept
  <2> QED  BY <2>4, <2>5
<1> HIDE DEF Good
<1>5. T = {}
  <2> SUFFICES ASSUME T # {} PROVE FALSE
    OBVIOUS
  <2>1. PICK q \in T : \A k \in T : q <= k
    BY LeastNatural, T \subseteq Nat
  <2>2. q \in 1 .. n /\ q - 1 \in 0 .. n /\ ~ (q <= q - 1)
    BY <1>3, <2>1
  <2>3. q - 1 \notin T
    <3> HIDE DEF T
    <3> QED  BY <2>1, <2>2
  <2> QED  BY <1>4, <2>1, <2>2, <2>3
<1>6. Good(n) /\ Good(n - 1)
  <2>1. n \in 0 .. n /\ n - 1 \in 0 .. n
    OBVIOUS
  <2> QED  BY <1>5, <2>1
<1>7. PhaseOf(rows[n - 1], rows[n], n, n)
  OBVIOUS
<1>8. rows[n] \in [1 .. n -> {0, 1}] /\ rows[n - 1] \in [1 .. n -> {0, 1}]
  <2>1. n \in 0 .. n /\ n - 1 \in 0 .. n
    OBVIOUS
  <2> QED  BY <1>1, <2>1
<1> HIDE DEF m
<1>9. \A x \in 1 .. n : rows[n][x] = 1 <=> x >= n - m + 1
  BY <1>2, <1>6, <1>7, <1>8, AheadAtLast DEF Good
<1> QED  BY <1>9 DEF m

-----------------------------------------------------------------------------
\* The gates of the network, phase by phase.
LEMMA PhaseFacts ==
    ASSUME NEW n \in Nat \ {0}, NEW q \in Nat
    PROVE  /\ Phase(n, q) \in Seq(Nat)
           /\ Len(Phase(n, q)) = (n - (q % 2)) \div 2
           /\ \A k \in 1 .. Len(Phase(n, q)) : Phase(n, q)[k] = (q % 2) + 2 * k - 1
<1> DEFINE s == q % 2
           m == (n - s) \div 2
<1>1. s \in {0, 1}
  OBVIOUS
<1> HIDE DEF s
<1>2. m \in Nat
  BY <1>1
<1> HIDE DEF m
<1>3. Phase(n, q) = [k \in 1 .. m |-> s + 2 * k - 1]
  BY DEF Phase, m, s
<1>4. /\ Phase(n, q) \in Seq(Nat)
      /\ Len(Phase(n, q)) = m
      /\ \A k \in 1 .. Len(Phase(n, q)) : Phase(n, q)[k] = s + 2 * k - 1
  <2>1. \A k \in 1 .. m : s + 2 * k - 1 \in Nat
    BY <1>1
  <2>2. Phase(n, q) \in [1 .. m -> Nat]
    BY <1>3, <2>1
  <2>3. Phase(n, q) \in Seq(Nat) /\ Len(Phase(n, q)) = m
    BY <1>2, <2>2
  <2> QED  BY <1>3, <2>3
<1> QED  BY <1>4 DEF m, s

\* f[q] holds the gates of the first q phases.
GatesSoFar(f, n) ==
    /\ f \in [0 .. n -> Seq(Nat)]
    /\ f[0] = << >>
    /\ \A q \in 1 .. n : f[q] = f[q - 1] \o Phase(n, q - 1)
    /\ Gates(n) = f[n]

LEMMA GatesSteps ==
    ASSUME NEW n \in Nat \ {0}
    PROVE  \E f : GatesSoFar(f, n)
<1> DEFINE S == Seq(Nat)
           step(k, s) == s \o Phase(n, k - 1)
           g == [p \in Nat \X S |-> step(p[1] + 1, p[2])]
           Body(h) == [q \in 0 .. n |-> IF q = 0 THEN << >> ELSE step(q, h[q - 1])]
           gates == CHOOSE h : h = Body(h)
<1>1. ASSUME NEW k \in Nat \ {0}, NEW s \in S PROVE step(k, s) \in S
  <2> DEFINE ph == Phase(n, k - 1)
  <2>1. ph \in S
    BY k - 1 \in Nat, PhaseFacts
  <2> HIDE DEF ph
  <2>2. s \o ph \in S
    BY <2>1
  <2> QED  BY <2>2 DEF ph
<1>2. << >> \in S
  OBVIOUS
<1> HIDE DEF S, step
<1>3. g \in [Nat \X S -> S]
  <2>1. ASSUME NEW k \in Nat, NEW s \in S PROVE step(k + 1, s) \in S
    <3>1. k + 1 \in Nat \ {0}
      OBVIOUS
    <3> QED  BY <1>1, <3>1
  <2> QED  BY <2>1
<1>4. PICK h : Recursion(h, S, << >>, g)
  <2> HIDE DEF g
  <2> QED  BY <1>2, <1>3, RecursionExists, Zenon
<1>5. h \in [Nat -> S] /\ h[0] = << >>
  BY <1>4 DEF Recursion
<1>6. ASSUME NEW k \in 1 .. n PROVE h[k] = step(k, h[k - 1])
  <2>1. k - 1 \in Nat /\ (k - 1) + 1 = k
    OBVIOUS
  <2>2. g[<<k - 1, h[k - 1]>>] = step((k - 1) + 1, h[k - 1])
    BY <1>5, <2>1
  <2>3. h[(k - 1) + 1] = g[<<k - 1, h[k - 1]>>]
    <3> HIDE DEF g
    <3> QED  BY <1>4, <2>1 DEF Recursion
  <2> HIDE DEF g
  <2>4. h[(k - 1) + 1] = step((k - 1) + 1, h[k - 1])
    BY <2>2, <2>3
  <2> QED  BY <2>1, <2>4
<1> HIDE DEF g
<1> DEFINE f == [q \in 0 .. n |-> h[q]]
<1>7. f = Body(f)
  <2>1. ASSUME NEW q \in 0 .. n PROVE f[q] = IF q = 0 THEN << >> ELSE step(q, f[q - 1])
    <3>1. CASE q = 0
      BY <1>5, <3>1
    <3>2. CASE q # 0
      <4>1. q \in 1 .. n /\ q - 1 \in 0 .. n
        BY <3>2
      <4> QED  BY <1>6, <3>2, <4>1
    <3> QED  BY <3>1, <3>2
  <2>2. f = [q \in 0 .. n |-> f[q]]
    OBVIOUS
  <2> HIDE DEF f
  <2> QED  BY <2>1, <2>2
<1>8. gates = Body(gates)
  <2> HIDE DEF f
  <2> QED  BY <1>7, Zenon
<1>9. Gates(n) = gates[n]
  BY Zenon DEF Gates, GatesOf, step
<1> HIDE DEF f, gates
<1>10. gates[0] = << >> /\ \A q \in 1 .. n : gates[q] = step(q, gates[q - 1])
  <2>1. \A q \in 0 .. n : Body(gates)[q] = IF q = 0 THEN << >> ELSE step(q, gates[q - 1])
    OBVIOUS
  <2> HIDE DEF Body
  <2>2. 0 \in 0 .. n /\ \A q \in 1 .. n : q \in 0 .. n /\ q # 0
    OBVIOUS
  <2> QED  BY <1>8, <2>1, <2>2
<1>11. \A q \in 0 .. n : gates[q] \in S
  <2> DEFINE T == {q \in 0 .. n : gates[q] \notin S}
  <2> SUFFICES ASSUME T # {} PROVE FALSE
    OBVIOUS
  <2>1. PICK q \in T : \A j \in T : q <= j
    BY LeastNatural, T \subseteq Nat
  <2>2. q # 0
    BY <1>2, <1>10, <2>1
  <2>3. q \in 1 .. n /\ q - 1 \in 0 .. n /\ ~ (q <= q - 1) /\ q \in Nat \ {0}
    BY <2>1, <2>2
  <2>4. q - 1 \notin T
    <3> HIDE DEF T
    <3> QED  BY <2>1, <2>3
  <2>5. gates[q - 1] \in S
    BY <2>3, <2>4
  <2> QED  BY <1>1, <1>10, <2>1, <2>3, <2>5
<1>12. gates = [q \in 0 .. n |-> gates[q]]
  BY <1>8
<1> HIDE DEF Body
<1>13. GatesSoFar(gates, n)
  <2>1. gates \in [0 .. n -> Seq(Nat)]
    BY <1>11, <1>12 DEF S
  <2>2. \A q \in 1 .. n : gates[q] = gates[q - 1] \o Phase(n, q - 1)
    BY <1>10 DEF step
  <2> QED  BY <1>9, <1>10, <2>1, <2>2 DEF GatesSoFar
<1> QED  BY <1>13

\* The q-th phase is the gates after the first off[q - 1] ones, up to off[q].
PhasesAt(off, n) ==
    /\ off \in [0 .. n -> Nat]
    /\ off[0] = 0
    /\ off[n] = Len(Gates(n))
    /\ \A q \in 1 .. n :
         /\ off[q] = off[q - 1] + ((n - ((q - 1) % 2)) \div 2)
         /\ off[q] <= Len(Gates(n))
         /\ \A k \in 1 .. (n - ((q - 1) % 2)) \div 2 : Gates(n)[off[q - 1] + k] = ((q - 1) % 2) + 2 * k - 1

LEMMA GatesOfPhases ==
    ASSUME NEW n \in Nat \ {0}
    PROVE  /\ \E off : PhasesAt(off, n)
           /\ Gates(n) \in Seq(Nat)
<1>1. PICK f : GatesSoFar(f, n)
  BY GatesSteps
<1> DEFINE off == [q \in 0 .. n |-> Len(f[q])]
           ph(q) == Phase(n, q - 1)
           len(q) == (n - ((q - 1) % 2)) \div 2
<1>2. ASSUME NEW q \in 1 .. n
      PROVE  /\ q - 1 \in 0 .. n /\ q \in 0 .. n
             /\ f[q] \in Seq(Nat) /\ f[q - 1] \in Seq(Nat) /\ ph(q) \in Seq(Nat)
             /\ f[q] = f[q - 1] \o ph(q)
             /\ Len(ph(q)) = len(q)
             /\ \A k \in 1 .. len(q) : ph(q)[k] = ((q - 1) % 2) + 2 * k - 1
  <2>1. q - 1 \in 0 .. n /\ q \in 0 .. n /\ q - 1 \in Nat
    OBVIOUS
  <2>2. /\ ph(q) \in Seq(Nat)
        /\ Len(ph(q)) = len(q)
        /\ \A k \in 1 .. Len(ph(q)) : ph(q)[k] = ((q - 1) % 2) + 2 * k - 1
    BY <2>1, PhaseFacts
  <2>3. f[q] \in Seq(Nat) /\ f[q - 1] \in Seq(Nat) /\ f[q] = f[q - 1] \o ph(q)
    BY <1>1, <2>1 DEF GatesSoFar
  <2> HIDE DEF ph, len
  <2> QED  BY <2>1, <2>2, <2>3
<1> HIDE DEF ph
<1>3. ASSUME NEW q \in 1 .. n
      PROVE  /\ off[q] = off[q - 1] + len(q)
             /\ off[q] \in Nat /\ off[q - 1] \in Nat
             /\ \A i \in 1 .. off[q - 1] : f[q][i] = f[q - 1][i]
             /\ \A k \in 1 .. len(q) : f[q][off[q - 1] + k] = ((q - 1) % 2) + 2 * k - 1
  <2>1. off[q] = Len(f[q]) /\ off[q - 1] = Len(f[q - 1])
    BY <1>2
  <2> DEFINE a == f[q - 1]
             b == ph(q)
  <2>2. a \in Seq(Nat) /\ b \in Seq(Nat) /\ f[q] = a \o b
    BY <1>2
  <2> HIDE DEF a, b
  <2>3. /\ Len(a \o b) = Len(a) + Len(b)
        /\ Len(a) \in Nat /\ Len(b) \in Nat
        /\ \A i \in 1 .. Len(a) : (a \o b)[i] = a[i]
        /\ \A k \in 1 .. Len(b) : (a \o b)[Len(a) + k] = b[k]
    BY <2>2
  <2>4. Len(b) = len(q) /\ \A k \in 1 .. len(q) : b[k] = ((q - 1) % 2) + 2 * k - 1
    BY <1>2 DEF b
  <2>5. off[q - 1] = Len(a) /\ f[q - 1] = a
    BY <2>1 DEF a
  <2> HIDE DEF off, len
  <2>6. off[q] = off[q - 1] + len(q) /\ off[q] \in Nat /\ off[q - 1] \in Nat
    BY <2>1, <2>2, <2>3, <2>4, <2>5
  <2>7. \A i \in 1 .. off[q - 1] : f[q][i] = f[q - 1][i]
    BY <2>2, <2>3, <2>5
  <2>8. \A k \in 1 .. len(q) : f[q][off[q - 1] + k] = ((q - 1) % 2) + 2 * k - 1
    BY <2>2, <2>3, <2>4, <2>5
  <2> QED  BY <2>6, <2>7, <2>8
<1>4. off[0] = 0
  <2>1. 0 \in 0 .. n /\ f[0] = << >>
    BY <1>1 DEF GatesSoFar
  <2> QED  BY <2>1
<1>5. off[n] = Len(Gates(n)) /\ off \in [0 .. n -> Nat] /\ Gates(n) \in Seq(Nat)
  <2>1. n \in 0 .. n
    OBVIOUS
  <2>2. \A q \in 0 .. n : f[q] \in Seq(Nat)
    BY <1>1 DEF GatesSoFar
  <2> QED  BY <1>1, <2>1, <2>2 DEF GatesSoFar
<1> HIDE DEF off, len
\* The gates of a phase stay where they are while more follow.
<1>6. ASSUME NEW q \in 1 .. n
      PROVE  \A r \in q .. n : off[q] <= off[r] /\ \A i \in 1 .. off[q] : f[r][i] = f[q][i]
  <2> DEFINE Keeps(r) == off[q] <= off[r] /\ \A i \in 1 .. off[q] : f[r][i] = f[q][i]
             T == {r \in q .. n : ~ Keeps(r)}
  <2> SUFFICES ASSUME T # {} PROVE FALSE
    OBVIOUS
  <2>1. PICK r \in T : \A k \in T : r <= k
    BY LeastNatural, T \subseteq Nat
  <2>2. off[q] \in Nat
    BY <1>3
  <2>3. r # q
    BY <2>1, <2>2
  <2>4. r \in 1 .. n /\ r - 1 \in q .. n /\ ~ (r <= r - 1) /\ r - 1 \in 1 .. n
    BY <2>1, <2>3
  <2>5. Keeps(r - 1)
    <3>1. r - 1 \notin T
      <4> HIDE DEF T
      <4> QED  BY <2>1, <2>4
    <3> QED  BY <2>4, <3>1
  <2>6. /\ off[r] = off[r - 1] + len(r) /\ off[r] \in Nat /\ off[r - 1] \in Nat
        /\ \A i \in 1 .. off[r - 1] : f[r][i] = f[r - 1][i]
    BY <1>3, <2>4
  <2>7. len(r) \in Nat
    BY <2>4 DEF len
  <2>8. Keeps(r)
    BY <2>2, <2>5, <2>6, <2>7
  <2> QED  BY <2>1, <2>8
<1>7. ASSUME NEW q \in 1 .. n
      PROVE  /\ off[q] = off[q - 1] + len(q)
             /\ off[q] <= Len(Gates(n))
             /\ \A k \in 1 .. len(q) : Gates(n)[off[q - 1] + k] = ((q - 1) % 2) + 2 * k - 1
  <2>1. n \in q .. n
    OBVIOUS
  <2>2. off[q] <= off[n] /\ \A i \in 1 .. off[q] : f[n][i] = f[q][i]
    BY <1>6, <2>1
  <2>3. Gates(n) = f[n]
    BY <1>1 DEF GatesSoFar
  <2>4. len(q) \in Nat
    BY DEF len
  <2>5. \A k \in 1 .. len(q) : off[q - 1] + k \in 1 .. off[q]
    BY <1>3, <2>4
  <2> QED  BY <1>3, <1>5, <2>2, <2>3, <2>5
<1>8. PhasesAt(off, n)
  BY <1>4, <1>5, <1>7 DEF PhasesAt, len
<1> QED  BY <1>5, <1>8

\* The gates stand between the first place and the last.
LEMMA GatesInRow ==
    ASSUME NEW n \in Nat \ {0}
    PROVE  /\ Len(Gates(n)) \in Nat
           /\ \A k \in 1 .. Len(Gates(n)) : Gates(n)[k] \in 1 .. n - 1
<1>1. PICK off : PhasesAt(off, n)
  BY GatesOfPhases
<1>2. Len(Gates(n)) \in Nat
  BY GatesOfPhases
<1>3. ASSUME NEW q \in 1 .. n, NEW k \in off[q - 1] + 1 .. off[q] PROVE Gates(n)[k] \in 1 .. n - 1
  <2> DEFINE s == (q - 1) % 2
             len == (n - s) \div 2
             i == k - off[q - 1]
  <2>1. off[q - 1] \in Nat /\ off[q] \in Nat
    <3>1. q - 1 \in 0 .. n /\ q \in 0 .. n
      OBVIOUS
    <3> QED  BY <1>1, <3>1 DEF PhasesAt
  <2>2. /\ off[q] = off[q - 1] + len
        /\ \A j \in 1 .. len : Gates(n)[off[q - 1] + j] = s + 2 * j - 1
    BY <1>1 DEF PhasesAt
  <2>3. s \in {0, 1}
    OBVIOUS
  <2> HIDE DEF s
  <2>4. len \in Nat /\ 2 * len <= n - s
    BY <2>3
  <2> HIDE DEF len
  <2>5. i \in 1 .. len /\ off[q - 1] + i = k
    BY <2>1, <2>2, <2>4
  <2>6. Gates(n)[k] = s + 2 * i - 1
    BY <2>2, <2>5
  <2> QED  BY <2>3, <2>4, <2>5, <2>6
<1>4. ASSUME NEW k \in 1 .. Len(Gates(n)) PROVE Gates(n)[k] \in 1 .. n - 1
  <2> DEFINE T == {q \in 0 .. n : k <= off[q]}
  <2>1. \A q \in 0 .. n : off[q] \in Nat
    BY <1>1 DEF PhasesAt
  <2>2. n \in T
    BY <1>1 DEF PhasesAt
  <2>3. PICK q \in T : \A r \in T : q <= r
    BY <2>2, LeastNatural, T \subseteq Nat
  <2>4. q # 0
    BY <1>1, <2>3 DEF PhasesAt
  <2>5. q \in 1 .. n /\ q - 1 \in 0 .. n /\ ~ (q <= q - 1)
    BY <2>3, <2>4
  <2>6. k > off[q - 1]
    <3>1. q - 1 \notin T
      <4> HIDE DEF T
      <4> QED  BY <2>3, <2>5
    <3> QED  BY <2>1, <2>5, <3>1
  <2>7. k \in off[q - 1] + 1 .. off[q]
    BY <2>1, <2>3, <2>5, <2>6
  <2> QED  BY <1>3, <2>5, <2>7
<1> QED  BY <1>2, <1>4

-----------------------------------------------------------------------------
\* The places the elements are wanted at.
Rank(p) == [e \in 1 .. Len(p) |-> CHOOSE d \in 1 .. Len(p) : p[d] = e]

LEMMA RankFacts ==
    ASSUME NEW n \in Nat \ {0}, NEW p \in [1 .. n -> 1 .. n], IsPermutation(p, n)
    PROVE  /\ Len(p) = n
           /\ Rank(p) \in [1 .. n -> 1 .. n]
           /\ \A e \in 1 .. n : p[Rank(p)[e]] = e
           /\ \A d \in 1 .. n : Rank(p)[p[d]] = d
<1>1. Len(p) = n
  BY DEF IsPermutation
<1>2. \A e \in 1 .. n : \E d \in 1 .. n : p[d] = e
  BY <1>1 DEF IsPermutation
<1> DEFINE R == Rank(p)
<1>3. ASSUME NEW e \in 1 .. n PROVE R[e] \in 1 .. n /\ p[R[e]] = e
  <2>1. R[e] = CHOOSE d \in 1 .. n : p[d] = e
    BY <1>1 DEF Rank
  <2>2. \E d \in 1 .. n : p[d] = e
    BY <1>2
  <2> HIDE DEF R
  <2> QED  BY <2>1, <2>2
<1>4. R \in [1 .. n -> 1 .. n]
  <2>1. R = [e \in 1 .. n |-> R[e]]
    BY <1>1 DEF Rank
  <2> HIDE DEF R
  <2> QED  BY <1>3, <2>1
<1> HIDE DEF R
<1> DEFINE row == 1 .. n
<1>5. IsFiniteSet(row)
  BY 1 \in Int, n \in Int, FS_Interval
<1> HIDE DEF row
<1>6. R \in Injection(row, row)
  <2>1. \A e, f \in row : R[e] = R[f] => e = f
    BY <1>3 DEF row
  <2> QED  BY <1>4, <2>1 DEF Injection, IsInjective, row
<1>7. R \in Surjection(row, row)
  BY <1>5, <1>6, FS_Injection
<1>8. ASSUME NEW d \in 1 .. n PROVE R[p[d]] = d
  <2>1. PICK e \in 1 .. n : R[e] = d
    BY <1>7 DEF Surjection, row
  <2> QED  BY <1>3, <2>1
<1> QED  BY <1>1, <1>3, <1>4, <1>8 DEF R

\* One gate of the loop of GenerateSwapBits.
SortingTurn(p, gates, k, st) ==
    LET swap == Rank(p)[st.current[gates[k]]] > Rank(p)[st.current[gates[k] + 1]]
    IN  [current |-> IF swap THEN Swapped(st.current, gates[k]) ELSE st.current,
         bits    |-> Append(st.bits, swap)]

SortingStart(p) == [current |-> [e \in 1 .. Len(p) |-> e], bits |-> << >>]

SortingTurns(turn, p, n) ==
    /\ turn \in [0 .. NumGates(n) -> [current : [1 .. n -> 1 .. n], bits : Seq(BOOLEAN)]]
    /\ turn[0] = SortingStart(p)
    /\ \A k \in 1 .. NumGates(n) : turn[k] = SortingTurn(p, Gates(n), k, turn[k - 1])
    /\ Sorting(p) = turn[NumGates(n)]

LEMMA SortingSteps ==
    ASSUME NEW n \in Nat \ {0}, NEW p \in [1 .. n -> 1 .. n], IsPermutation(p, n)
    PROVE  \E turn : SortingTurns(turn, p, n)
<1> DEFINE L == NumGates(Len(p))
           gates == Gates(Len(p))
           S == [current : [1 .. n -> 1 .. n], bits : Seq(BOOLEAN)]
           a == SortingStart(p)
           step(k, st) == SortingTurn(p, gates, k, st)
           g == [q \in Nat \X S |-> IF q[1] + 1 <= L THEN step(q[1] + 1, q[2]) ELSE q[2]]
           Body(h) == [k \in 0 .. L |-> IF k = 0 THEN a ELSE step(k, h[k - 1])]
           turn == CHOOSE h : h = Body(h)
<1>2. Len(p) = n /\ Rank(p) \in [1 .. n -> 1 .. n]
  BY RankFacts
<1>1. L \in Nat /\ \A k \in 1 .. L : gates[k] \in 1 .. n - 1
  BY <1>2, GatesInRow DEF NumGates
<1>3. a \in S
  BY <1>2 DEF SortingStart
<1>4. ASSUME NEW k \in 1 .. L, NEW st \in S PROVE step(k, st) \in S
  <2> DEFINE i == gates[k]
             swap == Rank(p)[st.current[i]] > Rank(p)[st.current[i + 1]]
  <2>1. i \in 1 .. n - 1
    BY <1>1
  <2> HIDE DEF i
  <2>2. swap \in BOOLEAN
    OBVIOUS
  <2> HIDE DEF swap
  <2>3. st.current \in [1 .. n -> 1 .. n] /\ st.bits \in Seq(BOOLEAN)
    OBVIOUS
  <2>4. Swapped(st.current, i) \in [1 .. n -> 1 .. n]
    <3> DEFINE s == st.current
    <3>3. s \in [1 .. n -> 1 .. n]
      BY <2>3, Zenon
    <3> HIDE DEF s, S
    <3>1. i \in 1 .. n /\ i + 1 \in 1 .. n
      BY <2>1
    <3>2. Swapped(s, i) \in [1 .. n -> 1 .. n]
      BY <3>1, <3>3 DEF Swapped
    <3> QED  BY <3>2 DEF s
  <2>5. Append(st.bits, swap) \in Seq(BOOLEAN)
    BY <2>2, <2>3
  <2>6. step(k, st) = [current |-> IF swap THEN Swapped(st.current, i) ELSE st.current,
                       bits |-> Append(st.bits, swap)]
    BY Zenon DEF SortingTurn, swap, i
  <2> DEFINE c == IF swap THEN Swapped(st.current, i) ELSE st.current
             b == Append(st.bits, swap)
  <2>7. c \in [1 .. n -> 1 .. n] /\ b \in Seq(BOOLEAN)
    BY <2>3, <2>4, <2>5
  <2> HIDE DEF step, c, b
  <2>8. [current |-> c, bits |-> b] \in S
    BY <2>7
  <2> QED  BY <2>6, <2>8 DEF c, b
<1> HIDE DEF step, S, a, L, gates
<1>5. g \in [Nat \X S -> S]
  <2>1. ASSUME NEW k \in Nat, NEW st \in S PROVE (IF k + 1 <= L THEN step(k + 1, st) ELSE st) \in S
    <3>1. k + 1 <= L => k + 1 \in 1 .. L
      BY <1>1
    <3> QED  BY <1>4, <3>1
  <2> QED  BY <2>1
<1>6. PICK h : Recursion(h, S, a, g)
  <2> HIDE DEF g
  <2> QED  BY <1>3, <1>5, RecursionExists, Zenon
<1>7. h \in [Nat -> S] /\ h[0] = a
  BY <1>6 DEF Recursion
<1>8. ASSUME NEW k \in 1 .. L PROVE h[k] = step(k, h[k - 1])
  <2>1. k - 1 \in Nat /\ (k - 1) + 1 = k /\ k <= L
    BY <1>1
  <2>2. g[<<k - 1, h[k - 1]>>] = step((k - 1) + 1, h[k - 1])
    BY <1>7, <2>1
  <2>3. h[(k - 1) + 1] = g[<<k - 1, h[k - 1]>>]
    <3> HIDE DEF g
    <3> QED  BY <1>6, <2>1 DEF Recursion
  <2> HIDE DEF g
  <2>4. h[(k - 1) + 1] = step((k - 1) + 1, h[k - 1])
    BY <2>2, <2>3
  <2> QED  BY <2>1, <2>4
<1> HIDE DEF g
<1> DEFINE f == [k \in 0 .. L |-> h[k]]
<1>9. f = Body(f)
  <2>1. ASSUME NEW k \in 0 .. L PROVE f[k] = IF k = 0 THEN a ELSE step(k, f[k - 1])
    <3>1. CASE k = 0
      BY <1>7, <3>1
    <3>2. CASE k # 0
      <4>1. k \in 1 .. L /\ k - 1 \in 0 .. L
        BY <1>1, <3>2
      <4> QED  BY <1>8, <3>2, <4>1
    <3> QED  BY <3>1, <3>2
  <2>2. f = [k \in 0 .. L |-> f[k]]
    OBVIOUS
  <2> HIDE DEF f
  <2> QED  BY <2>1, <2>2
<1>10. turn = Body(turn)
  <2> HIDE DEF f
  <2> QED  BY <1>9, Zenon
<1>11. Sorting(p) = turn[L]
  BY Zenon DEF Sorting, SortingTurn, SortingStart, Rank, NumGates, step, a, L, gates
<1> HIDE DEF f, turn
<1>12. /\ turn[0] = a
       /\ \A k \in 1 .. L : turn[k] = step(k, turn[k - 1])
  <2>1. \A k \in 0 .. L : Body(turn)[k] = IF k = 0 THEN a ELSE step(k, turn[k - 1])
    OBVIOUS
  <2> HIDE DEF Body
  <2>2. 0 \in 0 .. L /\ \A k \in 1 .. L : k \in 0 .. L /\ k # 0
    BY <1>1
  <2> QED  BY <1>10, <2>1, <2>2
<1>13. \A k \in 0 .. L : turn[k] \in S
  <2> DEFINE T == {k \in 0 .. L : turn[k] \notin S}
  <2> SUFFICES ASSUME T # {} PROVE FALSE
    OBVIOUS
  <2>1. PICK k \in T : \A j \in T : k <= j
    BY LeastNatural, T \subseteq Nat
  <2>2. k # 0
    BY <1>3, <1>12, <2>1
  <2>3. k \in 1 .. L /\ k - 1 \in 0 .. L /\ ~ (k <= k - 1)
    BY <1>1, <2>1, <2>2
  <2>4. k - 1 \notin T
    <3> HIDE DEF T
    <3> QED  BY <2>1, <2>3
  <2>5. turn[k - 1] \in S
    BY <2>3, <2>4
  <2> QED  BY <1>4, <1>12, <2>1, <2>3, <2>5
<1>14. turn = [k \in 0 .. L |-> turn[k]]
  BY <1>10
<1> HIDE DEF Body
<1>15. turn \in [0 .. L -> S]
  BY <1>13, <1>14
<1>16. SortingTurns(turn, p, n)
  <2>1. L = NumGates(n) /\ gates = Gates(n)
    BY <1>2 DEF L, gates
  <2>2. \A k \in 1 .. L : turn[k] = SortingTurn(p, gates, k, turn[k - 1])
    BY <1>12 DEF step
  <2>3. turn \in [0 .. L -> [current : [1 .. n -> 1 .. n], bits : Seq(BOOLEAN)]] /\ turn[0] = SortingStart(p)
    BY <1>12, <1>15 DEF S, a
  <2> QED  BY <1>11, <2>1, <2>2, <2>3 DEF SortingTurns
<1> QED  BY <1>16

\* Two neighbours after their gate, as they were before it or swapped.
PairSorted(rank, before, after, g) ==
    IF rank[before[g]] > rank[before[g + 1]]
    THEN after[g] = before[g + 1] /\ after[g + 1] = before[g]
    ELSE after[g] = before[g] /\ after[g + 1] = before[g + 1]

LEMMA SwappedFacts ==
    ASSUME NEW n \in Nat, NEW s \in [1 .. n -> 1 .. n], NEW g \in 1 .. n - 1
    PROVE  /\ Swapped(s, g)[g] = s[g + 1]
           /\ Swapped(s, g)[g + 1] = s[g]
           /\ \A x \in 1 .. n : x \notin {g, g + 1} => Swapped(s, g)[x] = s[x]
<1>1. g \in 1 .. n /\ g + 1 \in 1 .. n /\ g # g + 1
  OBVIOUS
<1> QED  BY <1>1 DEF Swapped

\* What the gate g does to the row, and the bit it gets.
AtGate(rank, g, before, after, n) ==
    /\ g \in 1 .. n - 1
    /\ before.current \in [1 .. n -> 1 .. n] /\ after.current \in [1 .. n -> 1 .. n]
    /\ PairSorted(rank, before.current, after.current, g)
    /\ \A x \in 1 .. n : x \notin {g, g + 1} => after.current[x] = before.current[x]
    /\ before.bits \in Seq(BOOLEAN)
    /\ after.bits = Append(before.bits, rank[before.current[g]] > rank[before.current[g + 1]])

LEMMA SortingGate ==
    ASSUME NEW n \in Nat \ {0}, NEW p \in [1 .. n -> 1 .. n], IsPermutation(p, n),
           NEW turn, SortingTurns(turn, p, n), NEW k \in 1 .. NumGates(n)
    PROVE  AtGate(Rank(p), Gates(n)[k], turn[k - 1], turn[k], n)
<1> DEFINE g == Gates(n)[k]
           before == turn[k - 1].current
           after == turn[k].current
           swap == Rank(p)[before[g]] > Rank(p)[before[g + 1]]
           S == [current : [1 .. n -> 1 .. n], bits : Seq(BOOLEAN)]
<1>1. g \in 1 .. n - 1 /\ NumGates(n) \in Nat
  BY GatesInRow DEF NumGates
<1>2. k - 1 \in 0 .. NumGates(n) /\ k \in 0 .. NumGates(n)
  BY <1>1
<1>3. turn[k - 1] \in S /\ turn[k] \in S
  BY <1>2 DEF SortingTurns
<1>4. turn[k] = [current |-> IF swap THEN Swapped(before, g) ELSE before,
                 bits |-> Append(turn[k - 1].bits, swap)]
  <2>1. turn[k] = SortingTurn(p, Gates(n), k, turn[k - 1])
    BY DEF SortingTurns
  <2> QED  BY <2>1, Zenon DEF SortingTurn
<1>5. after = (IF swap THEN Swapped(before, g) ELSE before) /\ turn[k].bits = Append(turn[k - 1].bits, swap)
  <2> DEFINE c == IF swap THEN Swapped(before, g) ELSE before
             b == Append(turn[k - 1].bits, swap)
             r == turn[k]
  <2>1. r = [current |-> c, bits |-> b]
    BY <1>4
  <2> HIDE DEF c, b, r
  <2>2. r.current = c /\ r.bits = b
    BY <2>1
  <2> QED  BY <2>2 DEF c, b, r
<1>6. before \in [1 .. n -> 1 .. n] /\ after \in [1 .. n -> 1 .. n] /\ turn[k - 1].bits \in Seq(BOOLEAN)
  BY <1>3
<1> HIDE DEF g, before, after
<1>7. PairSorted(Rank(p), before, after, g) /\ \A x \in 1 .. n : x \notin {g, g + 1} => after[x] = before[x]
  <2>1. /\ Swapped(before, g)[g] = before[g + 1]
        /\ Swapped(before, g)[g + 1] = before[g]
        /\ \A x \in 1 .. n : x \notin {g, g + 1} => Swapped(before, g)[x] = before[x]
    BY <1>1, <1>6, SwappedFacts
  <2>2. CASE swap
    <3>1. after = Swapped(before, g)
      BY <1>5, <2>2
    <3> QED  BY <2>1, <2>2, <3>1 DEF PairSorted
  <2>3. CASE ~ swap
    <3>1. after = before
      BY <1>5, <2>3
    <3> QED  BY <2>3, <3>1 DEF PairSorted
  <2> QED  BY <2>2, <2>3
<1> QED  BY <1>1, <1>5, <1>6, <1>7 DEF g, before, after, AtGate

LEMMA Alternate == \A x \in Nat : (x + 1) % 2 # x % 2
  OBVIOUS

\* A whole phase: each pair of its parity is sorted, and who is in none stays.
PairsSorted(rank, before, after, q, n) ==
    /\ \A g \in 1 .. n - 1 : g % 2 = q % 2 => PairSorted(rank, before, after, g)
    /\ n % 2 = q % 2 => after[n] = before[n]
    /\ q % 2 = 0 => after[1] = before[1]

LEMMA PhaseSortsPairs ==
    ASSUME NEW n \in Nat \ {0}, NEW p \in [1 .. n -> 1 .. n], IsPermutation(p, n),
           NEW turn, SortingTurns(turn, p, n), NEW off, PhasesAt(off, n), NEW q \in 1 .. n
    PROVE  PairsSorted(Rank(p), turn[off[q - 1]].current, turn[off[q]].current, q, n)
<1> DEFINE s == (q - 1) % 2
           len == (n - s) \div 2
           o == off[q - 1]
           C(j) == turn[o + j].current
           R == Rank(p)
           Done(j, g) == IF g <= s + 2 * j - 1
                         THEN PairSorted(R, C(0), C(j), g)
                         ELSE C(j)[g] = C(0)[g] /\ C(j)[g + 1] = C(0)[g + 1]
           Inv(j) == /\ \A g \in 1 .. n - 1 : g % 2 = q % 2 => Done(j, g)
                     /\ n % 2 = q % 2 => C(j)[n] = C(0)[n]
                     /\ q % 2 = 0 => C(j)[1] = C(0)[1]
           T == {j \in 0 .. len : ~ Inv(j)}
<1>1. s \in {0, 1} /\ (q % 2 = 1 => s = 0) /\ (q % 2 = 0 => s = 1) /\ q % 2 \in {0, 1}
  OBVIOUS
<1>2. len \in Nat /\ 2 * len <= n - s /\ n - s <= 2 * len + 1
  <2> HIDE DEF s
  <2> QED  BY <1>1
<1>3. /\ o \in Nat /\ off[q] = o + len /\ off[q] <= NumGates(n)
      /\ \A j \in 1 .. len : Gates(n)[o + j] = s + 2 * j - 1
  <2>1. q - 1 \in 0 .. n
    OBVIOUS
  <2> QED  BY <2>1 DEF PhasesAt, NumGates
<1> HIDE DEF s, len, o
<1>4. Inv(0)
  <2>1. ASSUME NEW g \in 1 .. n - 1, g % 2 = q % 2 PROVE ~ (g <= s + 2 * 0 - 1)
    BY <1>1, <2>1
  <2> HIDE DEF C
  <2> QED  BY <2>1
<1>5. ASSUME NEW j \in 1 .. len, Inv(j - 1) PROVE Inv(j)
  <2> DEFINE g1 == s + 2 * j - 1
  <2>1. o + j \in 1 .. NumGates(n) /\ (o + j) - 1 = o + (j - 1) /\ Gates(n)[o + j] = g1
    <3>1. NumGates(n) \in Nat
      BY GatesInRow DEF NumGates
    <3>2. Gates(n)[o + j] = g1
      BY <1>3
    <3>3. o + j \in 1 .. NumGates(n) /\ (o + j) - 1 = o + (j - 1)
      <4>1. o + len <= NumGates(n) /\ o \in Nat
        BY <1>3
      <4> QED  BY <1>2, <3>1, <4>1
    <3> QED  BY <3>2, <3>3
  <2>2. /\ g1 \in 1 .. n - 1
        /\ C(j - 1) \in [1 .. n -> 1 .. n] /\ C(j) \in [1 .. n -> 1 .. n]
        /\ PairSorted(R, C(j - 1), C(j), g1)
        /\ \A x \in 1 .. n : x \notin {g1, g1 + 1} => C(j)[x] = C(j - 1)[x]
    <3> DEFINE k == o + j
    <3>1. k \in 1 .. NumGates(n) /\ k - 1 = o + (j - 1) /\ Gates(n)[k] = g1
      BY <2>1
    <3> HIDE DEF k, g1
    <3>2. AtGate(R, g1, turn[k - 1], turn[k], n)
      BY <3>1, SortingGate
    <3>3. turn[k - 1].current = C(j - 1) /\ turn[k].current = C(j)
      BY <3>1 DEF k
    <3> HIDE DEF C, R
    <3> QED  BY <3>2, <3>3 DEF AtGate
  <2> HIDE DEF C, R
  <2>3. g1 % 2 = q % 2
    BY <1>1
  <2>4. ASSUME NEW g \in 1 .. n - 1, g % 2 = q % 2 PROVE Done(j, g)
    <3>1. Done(j - 1, g)
      BY <1>5, <2>4
    <3>2. g \in 1 .. n /\ g + 1 \in 1 .. n
      OBVIOUS
    <3>3. CASE g = g1
      <4>1. ~ (g <= s + 2 * (j - 1) - 1) /\ g <= s + 2 * j - 1
        BY <1>1, <3>3
      <4>2. C(j - 1)[g] = C(0)[g] /\ C(j - 1)[g + 1] = C(0)[g + 1]
        BY <3>1, <4>1
      <4>3. PairSorted(R, C(0), C(j), g)
        BY <2>2, <3>3, <4>2 DEF PairSorted
      <4> QED  BY <4>1, <4>3
    <3>4. CASE g # g1
      <4>1. g + 1 # g1 /\ g # g1 + 1
        <5> HIDE DEF g1
        <5>1. g \in Nat /\ g1 \in Nat
          BY <2>2
        <5> QED  BY <2>3, <2>4, <5>1, Alternate
      <4>2. C(j)[g] = C(j - 1)[g] /\ C(j)[g + 1] = C(j - 1)[g + 1]
        <5>1. g \notin {g1, g1 + 1} /\ g + 1 \notin {g1, g1 + 1}
          <6> HIDE DEF g1
          <6>1. g + 1 # g1 + 1
            BY <2>2, <3>4
          <6> QED  BY <3>4, <4>1, <6>1
        <5> HIDE DEF g1
        <5> QED  BY <2>2, <3>2, <5>1
      <4>3. (g <= s + 2 * j - 1) <=> (g <= s + 2 * (j - 1) - 1)
        BY <1>1, <3>4, <4>1
      <4> QED  BY <3>1, <4>2, <4>3 DEF PairSorted
    <3> QED  BY <3>3, <3>4
  <2>5. n % 2 = q % 2 => C(j)[n] = C(0)[n]
    <3> SUFFICES ASSUME n % 2 = q % 2 PROVE C(j)[n] = C(0)[n]
      OBVIOUS
    <3>1. n # g1 /\ n # g1 + 1 /\ n \in 1 .. n
      <4> HIDE DEF g1
      <4>1. g1 \in Nat /\ g1 < n
        BY <2>2
      <4>2. n # g1 + 1
        BY <2>3, <4>1, Alternate
      <4> QED  BY <4>1, <4>2
    <3>2. C(j)[n] = C(j - 1)[n]
      <4> HIDE DEF g1
      <4> QED  BY <2>2, <3>1
    <3> QED  BY <1>5, <3>2
  <2>6. q % 2 = 0 => C(j)[1] = C(0)[1]
    <3> SUFFICES ASSUME q % 2 = 0 PROVE C(j)[1] = C(0)[1]
      OBVIOUS
    <3>1. 1 # g1 /\ 1 # g1 + 1 /\ 1 \in 1 .. n
      BY <1>1
    <3>2. C(j)[1] = C(j - 1)[1]
      <4> HIDE DEF g1
      <4> QED  BY <2>2, <3>1
    <3> QED  BY <1>5, <3>2
  <2> HIDE DEF Done
  <2> QED  BY <2>4, <2>5, <2>6
<1> HIDE DEF Inv
<1>6. T = {}
  <2> SUFFICES ASSUME T # {} PROVE FALSE
    OBVIOUS
  <2>1. PICK j \in T : \A k \in T : j <= k
    BY LeastNatural, T \subseteq Nat
  <2>2. j \in 1 .. len /\ j - 1 \in 0 .. len /\ ~ (j <= j - 1)
    BY <1>2, <1>4, <2>1
  <2>3. j - 1 \notin T
    <3> HIDE DEF T
    <3> QED  BY <2>1, <2>2
  <2> QED  BY <1>5, <2>1, <2>2, <2>3
<1>7. Inv(len)
  <2>1. len \in 0 .. len
    BY <1>2
  <2> QED  BY <1>6, <2>1
<1>8. C(0) = turn[off[q - 1]].current /\ C(len) = turn[off[q]].current
  <2>1. o + 0 = o /\ o + len = off[q]
    BY <1>3
  <2>2. C(0) = turn[o].current /\ C(len) = turn[off[q]].current
    BY <2>1
  <2> QED  BY <2>2 DEF o
<1> HIDE DEF C
<1>9. ASSUME NEW g \in 1 .. n - 1, g % 2 = q % 2 PROVE PairSorted(R, C(0), C(len), g)
  <2>1. g <= s + 2 * len - 1
    BY <1>1, <1>2, <1>9
  <2>2. Done(len, g)
    BY <1>7, <1>9 DEF Inv
  <2> QED  BY <2>1, <2>2
<1>10. PairsSorted(R, C(0), C(len), q, n)
  BY <1>7, <1>9 DEF PairsSorted, Inv
<1> QED  BY <1>8, <1>10

-----------------------------------------------------------------------------
\* Seen from a threshold t, the elements wanted at t or behind it are ones, and
\* a phase sorts the zeros and ones among them.
Row(rank, current, t, n) == [x \in 1 .. n |-> IF rank[current[x]] >= t THEN 1 ELSE 0]

LEMMA PairsToRows ==
    ASSUME NEW n \in Nat \ {0}, NEW rank \in [1 .. n -> 1 .. n], NEW q \in Nat, NEW t \in Nat,
           NEW before \in [1 .. n -> 1 .. n], NEW after \in [1 .. n -> 1 .. n],
           PairsSorted(rank, before, after, q, n)
    PROVE  PhaseOf(Row(rank, before, t, n), Row(rank, after, t, n), q, n)
<1> DEFINE b == Row(rank, before, t, n)
           a == Row(rank, after, t, n)
<1>1. \A x \in 1 .. n : /\ b[x] = (IF rank[before[x]] >= t THEN 1 ELSE 0)
                        /\ a[x] = (IF rank[after[x]] >= t THEN 1 ELSE 0)
                        /\ rank[before[x]] \in Nat
  <2>1. \A x \in 1 .. n : b[x] = (IF rank[before[x]] >= t THEN 1 ELSE 0)
    BY DEF Row
  <2>2. \A x \in 1 .. n : a[x] = (IF rank[after[x]] >= t THEN 1 ELSE 0)
    BY DEF Row
  <2>3. ASSUME NEW x \in 1 .. n PROVE rank[before[x]] \in Nat
    <3>1. before[x] \in 1 .. n
      OBVIOUS
    <3> DEFINE y == rank[before[x]]
    <3>2. y \in 1 .. n
      BY <3>1
    <3> HIDE DEF y
    <3>3. y \in Nat
      BY <3>2
    <3> QED  BY <3>3 DEF y
  <2> HIDE DEF a, b
  <2> QED  BY <2>1, <2>2, <2>3
<1> HIDE DEF a, b
<1>2. ASSUME NEW g \in 1 .. n - 1, g % 2 = q % 2
      PROVE  /\ a[g + 1] = (IF b[g] = 1 THEN 1 ELSE b[g + 1])
             /\ a[g] + a[g + 1] = b[g] + b[g + 1]
  <2>1. g \in 1 .. n /\ g + 1 \in 1 .. n
    OBVIOUS
  <2>2. PairSorted(rank, before, after, g)
    BY <1>2 DEF PairsSorted
  <2>3. /\ b[g] = (IF rank[before[g]] >= t THEN 1 ELSE 0)
        /\ b[g + 1] = (IF rank[before[g + 1]] >= t THEN 1 ELSE 0)
        /\ a[g] = (IF rank[after[g]] >= t THEN 1 ELSE 0)
        /\ a[g + 1] = (IF rank[after[g + 1]] >= t THEN 1 ELSE 0)
        /\ rank[before[g]] \in Nat /\ rank[before[g + 1]] \in Nat
    BY <1>1, <2>1
  <2> DEFINE u == rank[before[g]]
             v == rank[before[g + 1]]
             bit(y) == IF y >= t THEN 1 ELSE 0
  <2>4. CASE u > v
    <3>1. after[g] = before[g + 1] /\ after[g + 1] = before[g]
      BY <2>2, <2>4 DEF PairSorted
    <3>2. b[g] = bit(u) /\ b[g + 1] = bit(v) /\ a[g] = bit(v) /\ a[g + 1] = bit(u)
      BY <2>3, <3>1
    <3>3. u \in Nat /\ v \in Nat
      BY <2>3
    <3> HIDE DEF u, v
    <3> QED  BY <2>4, <3>2, <3>3
  <2>5. CASE ~ (u > v)
    <3>1. after[g] = before[g] /\ after[g + 1] = before[g + 1]
      BY <2>2, <2>5 DEF PairSorted
    <3>2. b[g] = bit(u) /\ b[g + 1] = bit(v) /\ a[g] = bit(u) /\ a[g + 1] = bit(v)
      BY <2>3, <3>1
    <3>3. u \in Nat /\ v \in Nat
      BY <2>3
    <3> HIDE DEF u, v
    <3> QED  BY <2>5, <3>2, <3>3
  <2> QED  BY <2>4, <2>5
<1>3. n % 2 = q % 2 => a[n] = b[n]
  <2>1. n \in 1 .. n
    OBVIOUS
  <2> QED  BY <1>1, <2>1 DEF PairsSorted
<1>4. q % 2 = 0 => a[1] = b[1]
  <2>1. 1 \in 1 .. n
    OBVIOUS
  <2> SUFFICES ASSUME q % 2 = 0 PROVE a[1] = b[1]
    OBVIOUS
  <2>2. after[1] = before[1]
    BY DEF PairsSorted
  <2>3. a[1] = (IF rank[after[1]] >= t THEN 1 ELSE 0) /\ b[1] = (IF rank[before[1]] >= t THEN 1 ELSE 0)
    BY <1>1, <2>1
  <2> QED  BY <2>2, <2>3
<1>5. PhaseOf(b, a, q, n)
  BY <1>2, <1>3, <1>4 DEF PhaseOf
<1> QED  BY <1>5 DEF a, b

\* As many as there are places from t on.
LEMMA OnesAtFirst ==
    ASSUME NEW n \in Nat \ {0}, NEW p \in [1 .. n -> 1 .. n], IsPermutation(p, n), NEW t \in 1 .. n
    PROVE  Cardinality({e \in 1 .. n : Rank(p)[e] >= t}) = n - t + 1
<1> DEFINE K == t .. n
           W == {e \in 1 .. n : Rank(p)[e] >= t}
           f == [d \in K |-> p[d]]
<1>1. /\ Rank(p) \in [1 .. n -> 1 .. n]
      /\ \A e \in 1 .. n : p[Rank(p)[e]] = e
      /\ \A d \in 1 .. n : Rank(p)[p[d]] = d
  BY RankFacts
<1>2. IsFiniteSet(K) /\ Cardinality(K) = n - t + 1
  <2>1. t \in Int /\ n \in Int /\ ~ (t > n)
    OBVIOUS
  <2>2. IsFiniteSet(K)
    BY <2>1, FS_Interval
  <2>3. Cardinality(K) = IF t > n THEN 0 ELSE n - t + 1
    BY <2>1, FS_Interval
  <2> HIDE DEF K
  <2>4. Cardinality(K) = n - t + 1
    BY <2>1, <2>3
  <2> QED  BY <2>2, <2>4
<1>3. ASSUME NEW d \in K PROVE d \in 1 .. n /\ p[d] \in W
  <2>1. d \in 1 .. n /\ d >= t
    OBVIOUS
  <2>2. Rank(p)[p[d]] = d /\ p[d] \in 1 .. n
    BY <1>1, <2>1
  <2> QED  BY <2>1, <2>2
<1>4. ASSUME NEW e \in W PROVE Rank(p)[e] \in K /\ p[Rank(p)[e]] = e
  <2> DEFINE d == Rank(p)[e]
  <2>1. e \in 1 .. n /\ d >= t
    OBVIOUS
  <2>2. d \in 1 .. n
    BY <1>1, <2>1
  <2>3. p[d] = e
    BY <1>1, <2>1
  <2> HIDE DEF d
  <2>4. d \in K
    BY <2>1, <2>2
  <2> QED  BY <2>3, <2>4 DEF d
<1> HIDE DEF W, K
<1>5. f \in [K -> W]
  BY <1>3
<1>6. f \in Surjection(K, W)
  <2>1. \A e \in W : \E d \in K : f[d] = e
    BY <1>4
  <2> QED  BY <1>5, <2>1 DEF Surjection
<1>7. f \in Injection(K, W)
  <2>1. \A c, d \in K : f[c] = f[d] => c = d
    BY <1>1, <1>3
  <2> QED  BY <1>5, <2>1 DEF Injection, IsInjective
<1> HIDE DEF f
<1>8. Cardinality(W) = Cardinality(K)
  BY <1>2, <1>6, <1>7, FS_Surjection
<1> QED  BY <1>2, <1>8 DEF W

LEMMA RowsSorted ==
    ASSUME NEW n \in Nat \ {0}, NEW p \in [1 .. n -> 1 .. n], IsPermutation(p, n),
           NEW turn, SortingTurns(turn, p, n), NEW t \in 1 .. n, NEW x \in 1 .. n
    PROVE  Rank(p)[turn[NumGates(n)].current[x]] >= t <=> x >= t
<1> DEFINE C(k) == turn[k].current
           R == Rank(p)
<1>1. PICK off : PhasesAt(off, n)
  BY GatesOfPhases
<1> DEFINE rows == [q \in 0 .. n |-> Row(R, C(off[q]), t, n)]
<1>2. R \in [1 .. n -> 1 .. n] /\ Len(p) = n
  BY RankFacts
<1>3. \A q \in 0 .. n : off[q] \in 0 .. NumGates(n)
  <2>1. NumGates(n) \in Nat
    BY GatesInRow DEF NumGates
  <2>2. ASSUME NEW q \in 0 .. n PROVE off[q] \in Nat /\ off[q] <= NumGates(n)
    <3>1. q = 0 \/ q \in 1 .. n
      OBVIOUS
    <3>2. off[q] \in Nat
      BY <1>1 DEF PhasesAt
    <3>3. q = 0 => off[q] <= NumGates(n)
      BY <1>1, <2>1 DEF PhasesAt
    <3>4. q \in 1 .. n => off[q] <= NumGates(n)
      BY <1>1 DEF PhasesAt, NumGates
    <3> QED  BY <3>1, <3>2, <3>3, <3>4
  <2> QED  BY <2>1, <2>2
<1>4. \A k \in 0 .. NumGates(n) : C(k) \in [1 .. n -> 1 .. n]
  BY DEF SortingTurns
<1>5. \A q \in 1 .. n : PairsSorted(R, C(off[q - 1]), C(off[q]), q, n)
  BY <1>1, PhaseSortsPairs
<1>6. C(0) = [e \in 1 .. n |-> e]
  BY <1>2 DEF SortingTurns, SortingStart
<1>7. off[0] = 0 /\ off[n] = NumGates(n)
  BY <1>1 DEF PhasesAt, NumGates
<1> HIDE DEF C, R
<1>8. rows \in [0 .. n -> [1 .. n -> {0, 1}]]
  <2>1. ASSUME NEW q \in 0 .. n PROVE Row(R, C(off[q]), t, n) \in [1 .. n -> {0, 1}]
    BY DEF Row
  <2> QED  BY <2>1
<1>9. ASSUME NEW q \in 1 .. n PROVE PhaseOf(rows[q - 1], rows[q], q, n)
  <2>1. q - 1 \in 0 .. n /\ q \in 0 .. n /\ q \in Nat /\ t \in Nat
    OBVIOUS
  <2>2. C(off[q - 1]) \in [1 .. n -> 1 .. n] /\ C(off[q]) \in [1 .. n -> 1 .. n]
    BY <1>3, <1>4, <2>1
  <2>3. PhaseOf(Row(R, C(off[q - 1]), t, n), Row(R, C(off[q]), t, n), q, n)
    BY <1>2, <1>5, <2>1, <2>2, PairsToRows
  <2> QED  BY <2>1, <2>3
<1>10. rows[0] = Row(R, C(0), t, n) /\ rows[n] = Row(R, C(NumGates(n)), t, n)
  <2>1. 0 \in 0 .. n /\ n \in 0 .. n
    OBVIOUS
  <2> QED  BY <1>7, <2>1
<1>11. Cardinality(Ones(rows[0], 1, n)) = n - t + 1
  <2>1. \A e \in 1 .. n : rows[0][e] = (IF R[e] >= t THEN 1 ELSE 0)
    <3>1. \A e \in 1 .. n : Row(R, C(0), t, n)[e] = (IF R[C(0)[e]] >= t THEN 1 ELSE 0)
      BY DEF Row
    <3>2. \A e \in 1 .. n : C(0)[e] = e
      BY <1>6
    <3> HIDE DEF rows
    <3> QED  BY <1>10, <3>1, <3>2
  <2> DEFINE row == rows[0]
  <2>3. \A e \in 1 .. n : row[e] = 1 <=> R[e] >= t
    <3> TAKE e \in 1 .. n
    <3>1. row[e] = (IF R[e] >= t THEN 1 ELSE 0)
      BY <2>1
    <3> HIDE DEF row
    <3> QED  BY <3>1
  <2> HIDE DEF row
  <2>4. Ones(row, 1, n) = {e \in 1 .. n : R[e] >= t}
    BY <2>3 DEF Ones
  <2>2. Ones(rows[0], 1, n) = {e \in 1 .. n : R[e] >= t}
    BY <2>4 DEF row
  <2> QED  BY <2>2, OnesAtFirst DEF R
<1> DEFINE m == Cardinality(Ones(rows[0], 1, n))
<1>12. \A y \in 1 .. n : rows[n][y] = 1 <=> y >= n - m + 1
  <2> HIDE DEF rows
  <2> QED  BY <1>8, <1>9, PhasesSort
<1>13. rows[n][x] = (IF R[C(NumGates(n))[x]] >= t THEN 1 ELSE 0)
  BY <1>10 DEF Row
<1>14. n - m + 1 = t
  <2> HIDE DEF rows
  <2> QED  BY <1>11
<1> HIDE DEF rows, m
<1>15. R[C(NumGates(n))[x]] >= t <=> x >= t
  BY <1>12, <1>13, <1>14
<1> QED  BY <1>15 DEF R, C

\* The network is deep enough for every permutation: the elements end where
\* they are wanted.
LEMMA NetworkSorts ==
    ASSUME NEW n \in Nat \ {0}, NEW p \in [1 .. n -> 1 .. n], IsPermutation(p, n),
           NEW turn, SortingTurns(turn, p, n)
    PROVE  turn[NumGates(n)].current = p
<1> DEFINE C == turn[NumGates(n)].current
           R == Rank(p)
<1>1. C \in [1 .. n -> 1 .. n]
  <2>1. NumGates(n) \in 0 .. NumGates(n)
    BY GatesInRow DEF NumGates
  <2> QED  BY <2>1 DEF SortingTurns
<1>2. R \in [1 .. n -> 1 .. n] /\ \A e \in 1 .. n : p[R[e]] = e
  BY RankFacts
<1>3. \A t, x \in 1 .. n : R[C[x]] >= t <=> x >= t
  BY RowsSorted
<1> HIDE DEF C, R
<1>4. ASSUME NEW x \in 1 .. n PROVE C[x] = p[x]
  <2>1. R[C[x]] \in 1 .. n /\ C[x] \in 1 .. n
    BY <1>1, <1>2
  <2>2. R[C[x]] >= x
    BY <1>3
  <2>3. x >= R[C[x]]
    <3> DEFINE y == R[C[x]]
    <3>1. y \in 1 .. n
      BY <2>1
    <3>2. y = R[C[x]]
      OBVIOUS
    <3> HIDE DEF y
    <3>3. y >= y
      BY <3>1
    <3>4. R[C[x]] >= y <=> x >= y
      BY <1>3, <3>1
    <3>5. x >= y
      BY <3>2, <3>3, <3>4
    <3> QED  BY <3>2, <3>5
  <2>4. R[C[x]] = x
    <3> DEFINE y == R[C[x]]
    <3>1. y \in 1 .. n /\ y >= x /\ x >= y
      BY <2>1, <2>2, <2>3
    <3> HIDE DEF y
    <3>2. y = x
      BY <3>1
    <3> QED  BY <3>2 DEF y
  <2> QED  BY <1>2, <2>1, <2>4
<1>5. C = p
  BY <1>1, <1>4
<1> QED  BY <1>5 DEF C

-----------------------------------------------------------------------------
\* The bits so far: one for each gate passed, set where the gate swapped.
BitsTell(turn, p, k, n) ==
    /\ turn[k].bits \in Seq(BOOLEAN)
    /\ Len(turn[k].bits) = k
    /\ \A i \in 1 .. k : turn[k].bits[i] <=> Rank(p)[turn[i - 1].current[Gates(n)[i]]]
                                               > Rank(p)[turn[i - 1].current[Gates(n)[i] + 1]]

LEMMA BitsOfSorting ==
    ASSUME NEW n \in Nat \ {0}, NEW p \in [1 .. n -> 1 .. n], IsPermutation(p, n),
           NEW turn, SortingTurns(turn, p, n)
    PROVE  BitsTell(turn, p, NumGates(n), n)
<1> DEFINE L == NumGates(n)
           bit(i) == Rank(p)[turn[i - 1].current[Gates(n)[i]]] > Rank(p)[turn[i - 1].current[Gates(n)[i] + 1]]
           B(k) == turn[k].bits
           Good(k) == B(k) \in Seq(BOOLEAN) /\ Len(B(k)) = k /\ \A i \in 1 .. k : B(k)[i] <=> bit(i)
           T == {k \in 0 .. L : ~ Good(k)}
<1>1. L \in Nat
  BY GatesInRow DEF NumGates
<1>2. Good(0)
  <2>1. B(0) = << >>
    BY DEF SortingTurns, SortingStart
  <2> HIDE DEF B, bit
  <2>2. B(0) \in Seq(BOOLEAN) /\ Len(B(0)) = 0
    <3>1. << >> \in Seq(BOOLEAN) /\ Len(<< >>) = 0
      OBVIOUS
    <3> QED  BY <2>1, <3>1, Zenon
  <2>3. \A i \in 1 .. 0 : FALSE
    OBVIOUS
  <2> QED  BY <2>2, <2>3, Zenon
<1>3. ASSUME NEW k \in 1 .. L, Good(k - 1) PROVE Good(k)
  <2>1. B(k - 1) \in Seq(BOOLEAN) /\ B(k) = Append(B(k - 1), bit(k))
    <3>1. AtGate(Rank(p), Gates(n)[k], turn[k - 1], turn[k], n)
      BY SortingGate, Zenon
    <3> QED  BY <3>1, Zenon DEF AtGate
  <2> DEFINE s == B(k - 1)
             b == bit(k)
  <2>2. b \in BOOLEAN
    OBVIOUS
  <2>3. s \in Seq(BOOLEAN) /\ B(k) = Append(s, b) /\ Len(s) = k - 1 /\ \A i \in 1 .. k - 1 : s[i] <=> bit(i)
    BY <1>3, <2>1
  <2> HIDE DEF s, b, B
  <2>4. /\ B(k) \in Seq(BOOLEAN)
        /\ Len(B(k)) = k
        /\ B(k)[k] = b
        /\ \A i \in 1 .. k - 1 : B(k)[i] = s[i]
    BY <1>1, <2>2, <2>3
  <2>5. B(k)[k] <=> bit(k)
    BY <2>4, Zenon DEF b
  <2> HIDE DEF bit
  <2>6. ASSUME NEW i \in 1 .. k PROVE B(k)[i] <=> bit(i)
    <3>1. i = k \/ i \in 1 .. k - 1
      BY <1>1
    <3> QED  BY <2>3, <2>4, <2>5, <3>1
  <2> QED  BY <2>4, <2>6
<1> HIDE DEF Good
<1>4. T = {}
  <2> SUFFICES ASSUME T # {} PROVE FALSE
    OBVIOUS
  <2>1. PICK k \in T : \A j \in T : k <= j
    BY LeastNatural, T \subseteq Nat
  <2>2. k \in 1 .. L /\ k - 1 \in 0 .. L /\ ~ (k <= k - 1)
    BY <1>1, <1>2, <2>1
  <2>3. k - 1 \notin T
    <3> HIDE DEF T
    <3> QED  BY <2>1, <2>2
  <2> QED  BY <1>3, <2>1, <2>2, <2>3
<1>5. Good(L)
  <2>1. L \in 0 .. L
    BY <1>1
  <2> QED  BY <1>4, <2>1
<1> QED  BY <1>5, Zenon DEF Good, BitsTell

\* One gate of EvalWaksman.
EvalTurn(gates, bits, k, s) ==
    [s EXCEPT ![gates[k]]     = CMux(bits[k], s[gates[k] + 1], s[gates[k]]),
              ![gates[k] + 1] = CMux(bits[k], s[gates[k]], s[gates[k] + 1])]

EvalTurns(eval, data, bits, n, D) ==
    /\ eval \in [0 .. NumGates(n) -> [1 .. n -> D]]
    /\ eval[0] = data
    /\ \A k \in 1 .. NumGates(n) : eval[k] = EvalTurn(Gates(n), bits, k, eval[k - 1])
    /\ EvalWaksman(data, bits) = eval[NumGates(n)]

LEMMA EvalSteps ==
    ASSUME NEW n \in Nat \ {0}, NEW D, NEW data \in [1 .. n -> D], NEW bits
    PROVE  \E eval : EvalTurns(eval, data, bits, n, D)
<1> DEFINE L == NumGates(Len(data))
           gates == Gates(Len(data))
           S == [1 .. n -> D]
           step(k, s) == EvalTurn(gates, bits, k, s)
           g == [q \in Nat \X S |-> IF q[1] + 1 <= L THEN step(q[1] + 1, q[2]) ELSE q[2]]
           Body(h) == [k \in 0 .. L |-> IF k = 0 THEN data ELSE step(k, h[k - 1])]
           eval == CHOOSE h : h = Body(h)
<1>1. Len(data) = n
  OBVIOUS
<1>2. L \in Nat /\ \A k \in 1 .. L : gates[k] \in 1 .. n - 1
  BY <1>1, GatesInRow DEF NumGates
<1>3. ASSUME NEW k \in 1 .. L, NEW s \in S PROVE step(k, s) \in S
  <2> DEFINE i == gates[k]
  <2>1. i \in 1 .. n - 1
    BY <1>2
  <2> HIDE DEF i
  <2>2. i \in 1 .. n /\ i + 1 \in 1 .. n
    BY <2>1
  <2>3. CMux(bits[k], s[i + 1], s[i]) \in D /\ CMux(bits[k], s[i], s[i + 1]) \in D
    BY <2>2 DEF CMux
  <2>4. [s EXCEPT ![i] = CMux(bits[k], s[i + 1], s[i]), ![i + 1] = CMux(bits[k], s[i], s[i + 1])] \in S
    BY <2>2, <2>3
  <2> QED  BY <2>4 DEF i, EvalTurn
<1>4. data \in S
  OBVIOUS
<1> HIDE DEF step, S, L, gates
<1>5. g \in [Nat \X S -> S]
  <2>1. ASSUME NEW k \in Nat, NEW s \in S PROVE (IF k + 1 <= L THEN step(k + 1, s) ELSE s) \in S
    <3>1. k + 1 <= L => k + 1 \in 1 .. L
      BY <1>2
    <3> QED  BY <1>3, <3>1
  <2> QED  BY <2>1
<1>6. PICK h : Recursion(h, S, data, g)
  <2> HIDE DEF g
  <2> QED  BY <1>4, <1>5, RecursionExists, Zenon
<1>7. h \in [Nat -> S] /\ h[0] = data
  BY <1>6 DEF Recursion
<1>8. ASSUME NEW k \in 1 .. L PROVE h[k] = step(k, h[k - 1])
  <2>1. k - 1 \in Nat /\ (k - 1) + 1 = k /\ k <= L
    BY <1>2
  <2>2. g[<<k - 1, h[k - 1]>>] = step((k - 1) + 1, h[k - 1])
    BY <1>7, <2>1
  <2>3. h[(k - 1) + 1] = g[<<k - 1, h[k - 1]>>]
    <3> HIDE DEF g
    <3> QED  BY <1>6, <2>1 DEF Recursion
  <2> HIDE DEF g
  <2>4. h[(k - 1) + 1] = step((k - 1) + 1, h[k - 1])
    BY <2>2, <2>3
  <2> QED  BY <2>1, <2>4
<1> HIDE DEF g
<1> DEFINE f == [k \in 0 .. L |-> h[k]]
<1>9. f = Body(f)
  <2>1. ASSUME NEW k \in 0 .. L PROVE f[k] = IF k = 0 THEN data ELSE step(k, f[k - 1])
    <3>1. CASE k = 0
      BY <1>7, <3>1
    <3>2. CASE k # 0
      <4>1. k \in 1 .. L /\ k - 1 \in 0 .. L
        BY <1>2, <3>2
      <4> QED  BY <1>8, <3>2, <4>1
    <3> QED  BY <3>1, <3>2
  <2>2. f = [k \in 0 .. L |-> f[k]]
    OBVIOUS
  <2> HIDE DEF f
  <2> QED  BY <2>1, <2>2
<1>10. eval = Body(eval)
  <2> HIDE DEF f
  <2> QED  BY <1>9, Zenon
<1>11. EvalWaksman(data, bits) = eval[L]
  BY Zenon DEF EvalWaksman, EvalTurn, NumGates, step, L, gates
<1> HIDE DEF f, eval
<1>12. eval[0] = data /\ \A k \in 1 .. L : eval[k] = step(k, eval[k - 1])
  <2>1. \A k \in 0 .. L : Body(eval)[k] = IF k = 0 THEN data ELSE step(k, eval[k - 1])
    OBVIOUS
  <2> HIDE DEF Body
  <2>2. 0 \in 0 .. L /\ \A k \in 1 .. L : k \in 0 .. L /\ k # 0
    BY <1>2
  <2> QED  BY <1>10, <2>1, <2>2
<1>13. \A k \in 0 .. L : eval[k] \in S
  <2> DEFINE T == {k \in 0 .. L : eval[k] \notin S}
  <2> SUFFICES ASSUME T # {} PROVE FALSE
    OBVIOUS
  <2>1. PICK k \in T : \A j \in T : k <= j
    BY LeastNatural, T \subseteq Nat
  <2>2. k # 0
    BY <1>4, <1>12, <2>1
  <2>3. k \in 1 .. L /\ k - 1 \in 0 .. L /\ ~ (k <= k - 1)
    BY <1>2, <2>1, <2>2
  <2>4. k - 1 \notin T
    <3> HIDE DEF T
    <3> QED  BY <2>1, <2>3
  <2>5. eval[k - 1] \in S
    BY <2>3, <2>4
  <2> QED  BY <1>3, <1>12, <2>1, <2>3, <2>5
<1>14. eval = [k \in 0 .. L |-> eval[k]]
  BY <1>10
<1> HIDE DEF Body
<1>15. eval \in [0 .. L -> S]
  BY <1>13, <1>14
<1>16. EvalTurns(eval, data, bits, n, D)
  <2>1. L = NumGates(n) /\ gates = Gates(n)
    BY <1>1 DEF L, gates
  <2>2. \A k \in 1 .. L : eval[k] = EvalTurn(gates, bits, k, eval[k - 1])
    BY <1>12 DEF step
  <2>3. eval \in [0 .. L -> [1 .. n -> D]] /\ eval[0] = data
    BY <1>12, <1>15 DEF S
  <2> QED  BY <1>11, <2>1, <2>2, <2>3 DEF EvalTurns
<1> QED  BY <1>16

\* What an evaluated gate does.
GateEvaluated(bit, g, s, after, n) ==
    /\ after[g] = IF bit THEN s[g + 1] ELSE s[g]
    /\ after[g + 1] = IF bit THEN s[g] ELSE s[g + 1]
    /\ \A x \in 1 .. n : x \notin {g, g + 1} => after[x] = s[x]

LEMMA EvalGate ==
    ASSUME NEW n \in Nat, NEW D, NEW s \in [1 .. n -> D], NEW gates, NEW k, NEW bits,
           gates[k] \in 1 .. n - 1
    PROVE  GateEvaluated(bits[k], gates[k], s, EvalTurn(gates, bits, k, s), n)
<1> DEFINE g == gates[k]
           u == CMux(bits[k], s[g + 1], s[g])
           v == CMux(bits[k], s[g], s[g + 1])
<1>1. g \in 1 .. n - 1
  OBVIOUS
<1>2. EvalTurn(gates, bits, k, s) = [s EXCEPT ![g] = u, ![g + 1] = v]
  BY Zenon DEF EvalTurn
<1>3. u = (IF bits[k] THEN s[g + 1] ELSE s[g]) /\ v = (IF bits[k] THEN s[g] ELSE s[g + 1])
  BY Zenon DEF CMux
<1> HIDE DEF g, u, v
<1>4. g \in 1 .. n /\ g + 1 \in 1 .. n /\ g # g + 1
  BY <1>1
<1> DEFINE after == EvalTurn(gates, bits, k, s)
<1>5. after[g] = u /\ after[g + 1] = v /\ \A x \in 1 .. n : x \notin {g, g + 1} => after[x] = s[x]
  BY <1>2, <1>4
<1> HIDE DEF after
<1>6. after[g] = (IF bits[k] THEN s[g + 1] ELSE s[g]) /\ after[g + 1] = (IF bits[k] THEN s[g] ELSE s[g + 1])
  BY <1>3, <1>5, Zenon
<1> QED  BY <1>5, <1>6, Zenon DEF g, after, GateEvaluated

\* EvalWaksman with the bits of GenerateSwapBits permutes, whatever the data.
THEOREM WaksmanPermutes ==
    ASSUME NEW n \in Nat \ {0}, NEW p \in [1 .. n -> 1 .. n], IsPermutation(p, n),
           NEW D, NEW data \in [1 .. n -> D]
    PROVE  /\ CanSynthesize(p)
           /\ Len(GenerateSwapBits(p)) = NumGates(n)
           /\ EvalWaksman(data, GenerateSwapBits(p)) = [d \in 1 .. n |-> data[p[d]]]
<1>1. PICK turn : SortingTurns(turn, p, n)
  BY SortingSteps
<1> DEFINE L == NumGates(n)
           bits == GenerateSwapBits(p)
           C(k) == turn[k].current
           R == Rank(p)
<1>2. Sorting(p) = turn[L]
  BY <1>1 DEF SortingTurns
<1>3. CanSynthesize(p) /\ C(L) = p
  BY <1>1, <1>2, NetworkSorts DEF CanSynthesize
<1>4. /\ Len(bits) = L
      /\ \A i \in 1 .. L : bits[i] <=> R[C(i - 1)[Gates(n)[i]]] > R[C(i - 1)[Gates(n)[i] + 1]]
  <2>1. BitsTell(turn, p, L, n)
    BY <1>1, BitsOfSorting
  <2>2. bits = turn[L].bits
    BY <1>2 DEF GenerateSwapBits
  <2> QED  BY <2>1, <2>2, Zenon DEF BitsTell
<1> HIDE DEF bits
<1>5. PICK eval : EvalTurns(eval, data, bits, n, D)
  BY EvalSteps
<1>6. L \in Nat /\ \A k \in 1 .. L : Gates(n)[k] \in 1 .. n - 1
  BY GatesInRow DEF NumGates
<1>7. \A k \in 0 .. L : C(k) \in [1 .. n -> 1 .. n] /\ eval[k] \in [1 .. n -> D]
  BY <1>1, <1>5 DEF SortingTurns, EvalTurns
<1>8. C(0) = [e \in 1 .. n |-> e] /\ eval[0] = data
  <2>1. Len(p) = n
    BY RankFacts
  <2> QED  BY <1>1, <1>5, <2>1 DEF SortingTurns, SortingStart, EvalTurns
<1> DEFINE Good(k) == \A x \in 1 .. n : eval[k][x] = data[C(k)[x]]
           T == {k \in 0 .. L : ~ Good(k)}
<1>9. Good(0)
  BY <1>8
<1>10. ASSUME NEW k \in 1 .. L, Good(k - 1) PROVE Good(k)
  <2> DEFINE g == Gates(n)[k]
             s == eval[k - 1]
             before == C(k - 1)
             after == C(k)
  <2>1. k - 1 \in 0 .. L /\ k \in 0 .. L
    BY <1>6
  <2>2. g \in 1 .. n - 1 /\ before \in [1 .. n -> 1 .. n] /\ s \in [1 .. n -> D]
    BY <1>6, <1>7, <2>1
  <2>3. AtGate(R, g, turn[k - 1], turn[k], n)
    BY <1>1, SortingGate, Zenon
  <2>4. /\ PairSorted(R, before, after, g)
        /\ \A x \in 1 .. n : x \notin {g, g + 1} => after[x] = before[x]
    BY <2>3, Zenon DEF AtGate
  <2>5. eval[k] = EvalTurn(Gates(n), bits, k, s)
    BY <1>5 DEF EvalTurns
  <2>6. GateEvaluated(bits[k], g, s, eval[k], n)
    <3>1. GateEvaluated(bits[k], Gates(n)[k], s, EvalTurn(Gates(n), bits, k, s), n)
      <4> HIDE DEF s
      <4> QED  BY <2>2, EvalGate
    <3> QED  BY <2>5, <3>1, Zenon
  <2>7. /\ eval[k][g] = IF bits[k] THEN s[g + 1] ELSE s[g]
        /\ eval[k][g + 1] = IF bits[k] THEN s[g] ELSE s[g + 1]
        /\ \A x \in 1 .. n : x \notin {g, g + 1} => eval[k][x] = s[x]
    BY <2>6, Zenon DEF GateEvaluated
  <2>8. bits[k] <=> R[before[g]] > R[before[g + 1]]
    BY <1>4, Zenon
  <2>9. \A x \in 1 .. n : s[x] = data[before[x]]
    BY <1>10
  <2>10. g \in 1 .. n /\ g + 1 \in 1 .. n
    <3> HIDE DEF g
    <3> QED  BY <2>2
  <2> HIDE DEF g, s, before, after, R
  <2>11. ASSUME NEW x \in 1 .. n PROVE eval[k][x] = data[after[x]]
    <3>1. CASE x \notin {g, g + 1}
      BY <2>4, <2>7, <2>9, <3>1
    <3>2. CASE x \in {g, g + 1} /\ R[before[g]] > R[before[g + 1]]
      <4>1. after[g] = before[g + 1] /\ after[g + 1] = before[g]
        BY <2>4, <3>2, Zenon DEF PairSorted
      <4>2. eval[k][g] = s[g + 1] /\ eval[k][g + 1] = s[g]
        BY <2>7, <2>8, <3>2, Zenon
      <4> QED  BY <2>9, <2>10, <3>2, <4>1, <4>2
    <3>3. CASE x \in {g, g + 1} /\ ~ (R[before[g]] > R[before[g + 1]])
      <4>1. after[g] = before[g] /\ after[g + 1] = before[g + 1]
        BY <2>4, <3>3, Zenon DEF PairSorted
      <4>2. eval[k][g] = s[g] /\ eval[k][g + 1] = s[g + 1]
        BY <2>7, <2>8, <3>3, Zenon
      <4> QED  BY <2>9, <2>10, <3>3, <4>1, <4>2
    <3> QED  BY <3>1, <3>2, <3>3
  <2> QED  BY <2>11 DEF after
<1> HIDE DEF Good
<1>11. T = {}
  <2> SUFFICES ASSUME T # {} PROVE FALSE
    OBVIOUS
  <2>1. PICK k \in T : \A j \in T : k <= j
    BY LeastNatural, T \subseteq Nat
  <2>2. k \in 1 .. L /\ k - 1 \in 0 .. L /\ ~ (k <= k - 1)
    BY <1>6, <1>9, <2>1
  <2>3. k - 1 \notin T
    <3> HIDE DEF T
    <3> QED  BY <2>1, <2>2
  <2> QED  BY <1>10, <2>1, <2>2, <2>3
<1>12. L \in 0 .. L
  BY <1>6
<1>13. \A x \in 1 .. n : eval[L][x] = data[p[x]]
  <2>1. Good(L)
    BY <1>11, <1>12
  <2> QED  BY <1>3, <2>1 DEF Good
<1>14. eval[L] \in [1 .. n -> D]
  BY <1>7, <1>12
<1>15. EvalWaksman(data, bits) = eval[L]
  BY <1>5 DEF EvalTurns
<1>16. eval[L] = [d \in 1 .. n |-> data[p[d]]]
  BY <1>13, <1>14
<1> QED  BY <1>3, <1>4, <1>15, <1>16 DEF bits
=============================================================================
