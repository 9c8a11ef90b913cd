------------------------ MODULE OnionRingStoreProofs ------------------------
(***************************************************************************)
(* The Onion Ring ORAM server alone, for any tree, any number of slots and *)
(* any faults: its answers are true, and a command that is refused or cut  *)
(* off half way loses no block.  The permutations that are hidden in the   *)
(* swap bits are carried out because the swap network sorts                *)
(* (FoundationsLemmas).                                                    *)
(***************************************************************************)
EXTENDS OnionRingStore, FoundationsLemmas, FiniteSetTheorems

Bucket == [Slots -> Data]
Trees  == [Nodes -> Bucket]

LEMMA Constants ==
    /\ TreeHeight \in Nat /\ BucketSlots \in Nat \ {0} /\ ByteModulus \in Nat \ {0}
    /\ NumLeaves \in Nat \ {0} /\ NumTreeNodes \in Nat \ {0} /\ 0 \in Leaves
    /\ Zero \in Data /\ 1 \in Slots /\ NoSuchSlot \in Nat \ Slots /\ NoSuchNode \in Nat \ Nodes
    /\ ClearedBucket \in Bucket
<1>1. /\ Pow2(TreeHeight) \in Nat /\ Pow2(TreeHeight) >= 1
      /\ Pow2(TreeHeight + 1) = 2 * Pow2(TreeHeight)
  BY TreeHeightAssumption, Pow2Step
<1>2. /\ TreeHeight \in Nat /\ BucketSlots \in Nat \ {0} /\ ByteModulus \in Nat \ {0}
      /\ NumLeaves \in Nat \ {0} /\ NumTreeNodes \in Nat \ {0}
  BY <1>1, TreeHeightAssumption, OnionBucketsAssumption DEF NumLeaves, NumTreeNodes
<1>3. Zero \in Data /\ 0 \in Leaves
  BY <1>2 DEF Zero, Data, Leaves
<1> QED
  BY <1>2, <1>3 DEF Slots, NoSuchSlot, NoSuchNode, Nodes, ClearedBucket, Bucket

\* The path of whatever leaf is sent: nodes, no two of them equal.
LEMMA PathFacts ==
    ASSUME NEW leaf \in Nat
    PROVE  /\ PathOf(leaf) = Paths[leaf % NumLeaves]
           /\ Len(PathOf(leaf)) = TreeHeight + 1
           /\ \A k \in 1 .. TreeHeight + 1 : PathOf(leaf)[k] \in Nodes
           /\ \A j, k \in 1 .. TreeHeight + 1 : PathOf(leaf)[j] = PathOf(leaf)[k] => j = k
<1> DEFINE l == leaf % NumLeaves
<1>1. l \in Leaves
  BY Constants DEF Leaves
<1> HIDE DEF l
<1>2. PathOf(leaf) = PathFromRoot(l)
  BY <1>1 DEF PathOf, Paths, l
<1> DEFINE path == PathFromRoot(l)
<1>3. /\ path \in Seq(Nodes) /\ Len(path) = TreeHeight + 1
      /\ \A j, k \in 1 .. TreeHeight + 1 : path[j] = path[k] => j = k
  BY <1>1, PathFromRootNodes, Zenon
<1> HIDE DEF path
<1>4. \A k \in 1 .. TreeHeight + 1 : path[k] \in Nodes
  BY <1>3
<1> QED  BY <1>2, <1>3, <1>4 DEF path, PathOf, l

-----------------------------------------------------------------------------
LEMMA PlusFacts ==
    /\ \A x, y \in Data : Plus(x, y) \in Data
    /\ \A x \in Data : Plus(Zero, x) = x /\ Plus(x, Zero) = x
    /\ \A x, y, z \in Data : Plus(Plus(x, y), z) = Plus(x, Plus(y, z))
<1> DEFINE M == ByteModulus
<1>1. M \in Nat /\ M >= 1
  BY Constants
<1> HIDE DEF M
<1>3. \A x, y \in 0 .. M - 1 : (x + y) % M = IF x + y < M THEN x + y ELSE x + y - M
  BY <1>1
<1>4. Data = 0 .. M - 1
  BY DEF Data, M
<1>5. ASSUME NEW x \in Data, NEW y \in Data
      PROVE  Plus(x, y) = (IF x + y < M THEN x + y ELSE x + y - M) /\ Plus(x, y) \in Data
  <2>1. x \in 0 .. M - 1 /\ y \in 0 .. M - 1
    BY <1>4
  <2>2. Plus(x, y) = (x + y) % M
    BY DEF Plus, M
  <2>3. (x + y) % M = IF x + y < M THEN x + y ELSE x + y - M
    BY <1>3, <2>1
  <2>4. (IF x + y < M THEN x + y ELSE x + y - M) \in 0 .. M - 1
    BY <1>1, <2>1
  <2> QED  BY <1>4, <2>2, <2>3, <2>4
<1>6. ASSUME NEW x \in Data, NEW y \in Data, NEW z \in Data
      PROVE  Plus(Plus(x, y), z) = Plus(x, Plus(y, z))
  <2> DEFINE xy == Plus(x, y)
             yz == Plus(y, z)
  <2>1. /\ xy \in 0 .. M - 1 /\ xy = (IF x + y < M THEN x + y ELSE x + y - M)
        /\ yz \in 0 .. M - 1 /\ yz = (IF y + z < M THEN y + z ELSE y + z - M)
    <3>1. xy \in Data /\ xy = (IF x + y < M THEN x + y ELSE x + y - M)
      BY <1>5
    <3>2. yz \in Data /\ yz = (IF y + z < M THEN y + z ELSE y + z - M)
      BY <1>5
    <3> QED  BY <1>4, <3>1, <3>2
  <2> HIDE DEF xy, yz
  <2>2. x \in 0 .. M - 1 /\ y \in 0 .. M - 1 /\ z \in 0 .. M - 1
    BY <1>4
  <2>3. (IF xy + z < M THEN xy + z ELSE xy + z - M) = (IF x + yz < M THEN x + yz ELSE x + yz - M)
    BY <1>1, <2>1, <2>2
  <2>4. Plus(xy, z) = Plus(x, yz)
    <3>1. xy \in Data /\ yz \in Data
      BY <1>4, <2>1
    <3>2. Plus(xy, z) = (IF xy + z < M THEN xy + z ELSE xy + z - M)
      BY <1>5, <3>1
    <3>3. Plus(x, yz) = (IF x + yz < M THEN x + yz ELSE x + yz - M)
      BY <1>5, <3>1
    <3> QED  BY <2>3, <3>2, <3>3
  <2> QED  BY <2>4 DEF xy, yz
<1>7. ASSUME NEW x \in Data PROVE Plus(Zero, x) = x /\ Plus(x, Zero) = x
  <2>1. x \in 0 .. M - 1 /\ 0 \in Data
    BY <1>1, <1>4
  <2>2. Plus(0, x) = (IF 0 + x < M THEN 0 + x ELSE 0 + x - M) /\ Plus(x, 0) = (IF x + 0 < M THEN x + 0 ELSE x + 0 - M)
    BY <1>5, <2>1
  <2> QED  BY <1>1, <2>1, <2>2 DEF Zero
<1> QED  BY <1>5, <1>6, <1>7

\* f adds up a[1], a[2], ... from the front.
AddsUp(f, a, n) ==
    /\ f[0] = Zero
    /\ \A k \in 1 .. n : f[k] = Plus(f[k - 1], a[k])

AddsDown(f, a, n) ==
    /\ f[0] = Zero
    /\ \A k \in 1 .. n : f[k] = Plus(a[n + 1 - k], f[k - 1])

\* Whichever end one begins at, the sum is the same.
LEMMA SumsAgree ==
    ASSUME NEW n \in Nat, NEW a \in [1 .. n -> Data], NEW f \in [0 .. n -> Data], NEW b \in [0 .. n -> Data],
           AddsUp(f, a, n), AddsDown(b, a, n)
    PROVE  f[n] = b[n]
<1> DEFINE T == {k \in 0 .. n : Plus(f[n - k], b[k]) # f[n]}
<1>1. T = {}
  <2> SUFFICES ASSUME T # {} PROVE FALSE
    OBVIOUS
  <2>1. PICK k \in T : \A j \in T : k <= j
    BY LeastNatural, T \subseteq Nat
  <2>2. k \in 0 .. n /\ Plus(f[n - k], b[k]) # f[n]
    BY <2>1
  <2>3. k # 0
    BY <2>2, PlusFacts DEF AddsDown
  <2>4. k \in 1 .. n /\ k - 1 \in 0 .. n /\ ~ (k <= k - 1)
    BY <2>2, <2>3
  <2>5. k - 1 \notin T
    <3> HIDE DEF T
    <3> QED  BY <2>1, <2>4
  <2>6. Plus(f[n - (k - 1)], b[k - 1]) = f[n]
    BY <2>4, <2>5
  <2> DEFINE i == n + 1 - k
  <2>7. i \in 1 .. n /\ n - (k - 1) = i /\ n - k = i - 1 /\ i - 1 \in 0 .. n
    BY <2>4
  <2> HIDE DEF i
  <2>8. f[i] = Plus(f[i - 1], a[i]) /\ b[k] = Plus(a[i], b[k - 1])
    BY <2>4, <2>7 DEF AddsUp, AddsDown, i
  <2>9. f[i - 1] \in Data /\ a[i] \in Data /\ b[k - 1] \in Data
    BY <2>4, <2>7
  <2>10. Plus(f[i - 1], Plus(a[i], b[k - 1])) = Plus(Plus(f[i - 1], a[i]), b[k - 1])
    BY <2>9, PlusFacts
  <2>11. Plus(f[n - k], b[k]) = f[n]
    BY <2>6, <2>7, <2>8, <2>10
  <2> QED  BY <2>2, <2>11
<1>2. n \in 0 .. n /\ n - n = 0
  OBVIOUS
<1>3. Plus(f[n - n], b[n]) = f[n]
  BY <1>1, <1>2
<1>4. f[0] = Zero /\ b[n] \in Data
  BY <1>2 DEF AddsUp
<1> QED  BY <1>2, <1>3, <1>4, PlusFacts

LEMMA SumExists ==
    ASSUME NEW n \in Nat, NEW a \in [1 .. n -> Data]
    PROVE  \E f \in [0 .. n -> Data] : AddsUp(f, a, n)
<1> DEFINE step(k, s) == IF k \in 1 .. n THEN Plus(s, a[k]) ELSE s
           g == [p \in Nat \X Data |-> step(p[1] + 1, p[2])]
<1>1. ASSUME NEW k \in Nat, NEW s \in Data PROVE step(k + 1, s) \in Data
  BY PlusFacts
<1> HIDE DEF step
<1>2. g \in [Nat \X Data -> Data]
  BY <1>1
<1>3. PICK h : Recursion(h, Data, Zero, g)
  <2> HIDE DEF g
  <2> QED  BY <1>2, Constants, RecursionExists, Zenon
<1>4. h \in [Nat -> Data] /\ h[0] = Zero
  BY <1>3 DEF Recursion
<1>5. ASSUME NEW k \in 1 .. n PROVE h[k] = Plus(h[k - 1], a[k])
  <2>1. k - 1 \in Nat /\ (k - 1) + 1 = k
    OBVIOUS
  <2>2. g[<<k - 1, h[k - 1]>>] = step((k - 1) + 1, h[k - 1])
    BY <1>4, <2>1
  <2>3. h[(k - 1) + 1] = g[<<k - 1, h[k - 1]>>]
    <3> HIDE DEF g
    <3> QED  BY <1>3, <2>1 DEF Recursion
  <2> HIDE DEF g
  <2>4. h[(k - 1) + 1] = step((k - 1) + 1, h[k - 1])
    BY <2>2, <2>3
  <2> QED  BY <2>1, <2>4 DEF step
<1> DEFINE f == [k \in 0 .. n |-> h[k]]
<1>6. f \in [0 .. n -> Data]
  BY <1>4
<1>7. f[0] = Zero
  BY <1>4
<1>8. ASSUME NEW k \in 1 .. n PROVE f[k] = Plus(f[k - 1], a[k])
  <2>1. k \in 0 .. n /\ k - 1 \in 0 .. n
    OBVIOUS
  <2> QED  BY <1>5, <2>1
<1> HIDE DEF f
<1>9. AddsUp(f, a, n)
  BY <1>7, <1>8 DEF AddsUp
<1> QED  BY <1>6, <1>9

LEMMA PlusCommutes == \A x, y \in Data : Plus(x, y) = Plus(y, x)
<1> TAKE x, y \in Data
<1>1. x + y = y + x
  BY DEF Data
<1> QED  BY <1>1 DEF Plus

\* A function that adds up as the recursive ones do stays within the payloads.
LEMMA SumType ==
    ASSUME NEW n \in Nat, NEW f, f = [k \in 0 .. n |-> f[k]],
           f[0] = Zero, \A k \in 1 .. n : f[k - 1] \in Data => f[k] \in Data
    PROVE  f \in [0 .. n -> Data]
<1> DEFINE T == {k \in 0 .. n : f[k] \notin Data}
<1>1. T = {}
  <2> SUFFICES ASSUME T # {} PROVE FALSE
    OBVIOUS
  <2>1. PICK k \in T : \A j \in T : k <= j
    BY LeastNatural, T \subseteq Nat
  <2>2. k # 0
    BY <2>1, Constants
  <2>3. k \in 1 .. n /\ k - 1 \in 0 .. n /\ ~ (k <= k - 1)
    BY <2>1, <2>2
  <2>4. k - 1 \notin T
    <3> HIDE DEF T
    <3> QED  BY <2>1, <2>3
  <2>5. f[k - 1] \in Data
    BY <2>3, <2>4
  <2> QED  BY <2>1, <2>3, <2>5
<1> QED  BY <1>1

\* What HandleAccess adds up from the root to the leaf is the sum of the slots
\* asked for.
LEMMA PathSumIsSum ==
    ASSUME tree \in Trees, NEW m, m.leaf \in Nat, Len(m.selections) = TreeHeight + 1,
           \A k \in 1 .. TreeHeight + 1 : m.selections[k] \in Slots
    PROVE  PathSum(PathOf(m.leaf), m.selections) = SumOf(tree, m)
<1> DEFINE n == TreeHeight + 1
           path == PathOf(m.leaf)
           x(k) == tree[path[k]][m.selections[k]]
           a == [k \in 1 .. n |-> x(k)]
           r == [k \in 1 .. n |-> a[n + 1 - k]]
           Up(h) == [k \in 0 .. n |-> IF k = 0 THEN Zero ELSE Plus(h[k - 1], x(k))]
           Down(h) == [k \in 0 .. n |-> IF k = 0 THEN Zero ELSE Plus(x(TreeHeight + 2 - k), h[k - 1])]
           up == CHOOSE h : h = Up(h)
           down == CHOOSE h : h = Down(h)
<1>1. n \in Nat /\ n = Len(path) /\ path = Paths[m.leaf % NumLeaves]
  <2>1. n \in Nat
    BY Constants
  <2>2. Len(path) = n /\ path = Paths[m.leaf % NumLeaves]
    <3> DEFINE l == m.leaf
    <3>1. l \in Nat
      OBVIOUS
    <3> HIDE DEF l
    <3>2. PathOf(l) = Paths[l % NumLeaves] /\ Len(PathOf(l)) = TreeHeight + 1
      BY <3>1, PathFacts
    <3> QED  BY <3>2 DEF l
  <2> QED  BY <2>1, <2>2
<1>2. \A k \in 1 .. n : x(k) \in Data
  BY PathFacts DEF Trees, Bucket
<1>3. PathSum(path, m.selections) = up[n]
  BY <1>1, Zenon DEF PathSum
<1>4. SumOf(tree, m) = down[n]
  BY <1>1, Zenon DEF SumOf
<1> HIDE DEF path, x
<1>5. a \in [1 .. n -> Data] /\ \A k \in 1 .. n : a[k] = x(k)
  BY <1>2
<1>6. \A k \in 1 .. n : n + 1 - k \in 1 .. n /\ TreeHeight + 2 - k = n + 1 - k
  BY <1>1, Constants
<1>7. r \in [1 .. n -> Data] /\ \A k \in 1 .. n : r[k] = x(n + 1 - k)
  BY <1>5, <1>6
<1> HIDE DEF a, r, n
<1>8. up = Up(up)
  <2>1. PICK f \in [0 .. n -> Data] : AddsUp(f, a, n)
    BY <1>1, <1>5, SumExists, Zenon
  <2>2. \A k \in 0 .. n : f[k] = IF k = 0 THEN Zero ELSE Plus(f[k - 1], x(k))
    <3>1. \A k \in 0 .. n : k # 0 => k \in 1 .. n
      BY <1>1
    <3> QED  BY <1>5, <2>1, <3>1 DEF AddsUp
  <2>3. f = Up(f)
    BY <2>1, <2>2
  <2> QED  BY <2>3, Zenon
<1>9. down = Down(down)
  <2>1. PICK f \in [0 .. n -> Data] : AddsUp(f, r, n)
    BY <1>1, <1>7, SumExists, Zenon
  <2>2. ASSUME NEW k \in 0 .. n
        PROVE  f[k] = IF k = 0 THEN Zero ELSE Plus(x(TreeHeight + 2 - k), f[k - 1])
    <3>1. CASE k = 0
      BY <2>1, <3>1 DEF AddsUp
    <3>2. CASE k # 0
      <4>1. k \in 1 .. n /\ k - 1 \in 0 .. n
        BY <1>1, <3>2
      <4>2. f[k] = Plus(f[k - 1], r[k]) /\ r[k] = x(TreeHeight + 2 - k)
        BY <1>6, <1>7, <2>1, <4>1 DEF AddsUp
      <4>3. f[k - 1] \in Data /\ r[k] \in Data
        BY <1>7, <2>1, <4>1
      <4> QED  BY <3>2, <4>2, <4>3, PlusCommutes
    <3> QED  BY <3>1, <3>2
  <2>3. f = Down(f)
    BY <2>1, <2>2
  <2> QED  BY <2>3, Zenon
<1> HIDE DEF up, down
<1>10. up \in [0 .. n -> Data] /\ AddsUp(up, a, n)
  <2>1. 0 \in 0 .. n /\ \A k \in 1 .. n : k \in 0 .. n /\ k # 0
    BY <1>1
  <2>2. \A k \in 0 .. n : Up(up)[k] = IF k = 0 THEN Zero ELSE Plus(up[k - 1], x(k))
    OBVIOUS
  <2>3. up = [k \in 0 .. n |-> up[k]]
    BY <1>8
  <2> HIDE DEF Up
  <2>4. up[0] = Zero /\ \A k \in 1 .. n : up[k] = Plus(up[k - 1], a[k])
    BY <1>5, <1>8, <2>1, <2>2
  <2>5. \A k \in 1 .. n : a[k] \in Data
    BY <1>5
  <2>6. \A k \in 1 .. n : up[k - 1] \in Data => up[k] \in Data
    BY <2>4, <2>5, PlusFacts
  <2>7. up \in [0 .. n -> Data]
    BY <1>1, <2>3, <2>4, <2>6, SumType
  <2> QED  BY <2>4, <2>7 DEF AddsUp
<1>11. down \in [0 .. n -> Data] /\ AddsDown(down, a, n)
  <2>1. 0 \in 0 .. n /\ \A k \in 1 .. n : k \in 0 .. n /\ k # 0
    BY <1>1
  <2>2. \A k \in 0 .. n : Down(down)[k] = IF k = 0 THEN Zero ELSE Plus(x(TreeHeight + 2 - k), down[k - 1])
    OBVIOUS
  <2>3. down = [k \in 0 .. n |-> down[k]]
    BY <1>9
  <2> HIDE DEF Down
  <2>4. down[0] = Zero /\ \A k \in 1 .. n : down[k] = Plus(a[n + 1 - k], down[k - 1])
    BY <1>5, <1>6, <1>9, <2>1, <2>2
  <2>5. \A k \in 1 .. n : a[n + 1 - k] \in Data
    BY <1>5, <1>6
  <2>6. ASSUME NEW k \in 1 .. n, down[k - 1] \in Data PROVE down[k] \in Data
    <3>1. down[k] = Plus(a[n + 1 - k], down[k - 1]) /\ a[n + 1 - k] \in Data
      BY <2>4, <2>5
    <3> QED  BY <2>6, <3>1, PlusFacts, Zenon
  <2>7. down \in [0 .. n -> Data]
    BY <1>1, <2>3, <2>4, <2>6, SumType
  <2> QED  BY <2>4, <2>7 DEF AddsDown
<1> QED  BY <1>1, <1>3, <1>4, <1>5, <1>10, <1>11, SumsAgree DEF path

-----------------------------------------------------------------------------
LEMMA NetworkHasGates ==
    ASSUME NEW n \in Nat, n >= 2
    PROVE  NumGates(n) >= 1
<1>1. PICK off : PhasesAt(off, n)
  BY GatesOfPhases
<1>2. 1 \in 1 .. n /\ 1 - 1 = 0 /\ 0 % 2 = 0
  OBVIOUS
<1>3. off[0] = 0 /\ off[1] = off[0] + ((n - (0 % 2)) \div 2) /\ off[1] <= Len(Gates(n))
  BY <1>1, <1>2 DEF PhasesAt
<1>4. Len(Gates(n)) \in Nat
  BY GatesInRow
<1> DEFINE half == n \div 2
<1>5. half \in Nat /\ half >= 1
  OBVIOUS
<1>6. off[1] = 0 + half
  BY <1>2, <1>3
<1> HIDE DEF half
<1> QED  BY <1>3, <1>4, <1>5, <1>6 DEF NumGates

LEMMA ShuffleFacts ==
    /\ Shuffles # {}
    /\ \A p \in Shuffles : p \in [Slots -> Slots] /\ IsPermutation(p, BucketSlots)
<1>1. [s \in Slots |-> s] \in Shuffles
  BY DEF Shuffles
<1>2. ASSUME NEW p \in Shuffles
      PROVE  p \in [Slots -> Slots] /\ IsPermutation(p, BucketSlots)
  <2>1. p \in [Slots -> Slots] /\ \A i, j \in Slots : p[i] = p[j] => i = j
    BY DEF Shuffles
  <2>2. IsFiniteSet(Slots)
    <3>1. 1 \in Int /\ BucketSlots \in Int
      BY Constants
    <3> QED  BY <3>1, FS_Interval DEF Slots
  <2>3. p \in Injection(Slots, Slots)
    BY <2>1 DEF Injection, IsInjective
  <2>4. p \in Surjection(Slots, Slots)
    BY <2>2, <2>3, FS_Injection, FS_Surjection
  <2>5. Len(p) = BucketSlots
    BY <2>1, Constants DEF Slots
  <2>6. {p[d] : d \in Slots} = Slots
    BY <2>1, <2>4 DEF Surjection
  <2> QED  BY <2>1, <2>5, <2>6 DEF IsPermutation, Slots
<1> QED  BY <1>1, <1>2

\* With the bits of a permutation the server permutes, whatever the slots hold.
LEMMA ShuffleCarriedOut ==
    ASSUME NEW b \in Bucket, NEW p \in Shuffles
    PROVE  EvalWaksman(b, GenerateSwapBits(p)) = [d \in Slots |-> b[p[d]]]
<1> DEFINE n == BucketSlots
<1>1. n \in Nat \ {0} /\ p \in [1 .. n -> 1 .. n] /\ IsPermutation(p, n) /\ b \in [1 .. n -> Data]
  BY Constants, ShuffleFacts DEF Slots, Bucket
<1> HIDE DEF n
<1> DEFINE D == Data
<1>2. b \in [1 .. n -> D]
  BY <1>1
<1> HIDE DEF D
<1>3. \A E : \A data \in [1 .. n -> E] :
          /\ CanSynthesize(p)
          /\ Len(GenerateSwapBits(p)) = NumGates(n)
          /\ EvalWaksman(data, GenerateSwapBits(p)) = [d \in 1 .. n |-> data[p[d]]]
  BY <1>1, WaksmanPermutes
<1>4. EvalWaksman(b, GenerateSwapBits(p)) = [d \in 1 .. n |-> b[p[d]]]
  BY <1>2, <1>3, Zenon
<1> QED  BY <1>4 DEF n, Slots

-----------------------------------------------------------------------------
\* The update of a child as a client may send it.
WellUpdate(u) ==
    /\ u.sourceSlots \in Seq(Nat) /\ u.childSlots \in Seq(Nat)
    /\ u.perm \in Shuffles
    /\ u.bits = GenerateSwapBits(u.perm) \/ u \in BadUpdates

LEMMA SentUpdates == \A u \in GoodUpdates \cup BadUpdates : WellUpdate(u)
<1>1. ASSUME NEW u \in GoodUpdates PROVE WellUpdate(u)
  <2> DEFINE G == {<< << >>, <<BucketSlots>> >>, << <<1>>, <<BucketSlots>> >>, << <<BucketSlots, 1>>, << >> >>}
  <2>1. PICK chosen \in G, p \in Shuffles : u = Update(chosen[1], chosen[2], p)
    BY DEF GoodUpdates
  <2>2. << >> \in Seq(Nat) /\ <<1>> \in Seq(Nat) /\ <<BucketSlots>> \in Seq(Nat) /\ <<BucketSlots, 1>> \in Seq(Nat)
    BY Constants
  <2>3. chosen[1] \in {<< >>, <<1>>, <<BucketSlots, 1>>} /\ chosen[2] \in {<< >>, <<BucketSlots>>}
    BY <2>1
  <2> HIDE DEF G
  <2>4. u.sourceSlots = chosen[1] /\ u.childSlots = chosen[2] /\ u.perm = p /\ u.bits = GenerateSwapBits(p)
    BY <2>1 DEF Update
  <2> QED  BY <2>2, <2>3, <2>4 DEF WellUpdate
<1>2. ASSUME NEW u \in BadUpdates PROVE WellUpdate(u)
  <2> DEFINE p == CHOOSE p \in Shuffles : TRUE
  <2>1. p \in Shuffles
    BY ShuffleFacts
  <2>2. \/ u = Update(<<NoSuchSlot>>, << >>, p)
        \/ u = Update(<<1>>, [s \in Slots |-> s], p)
        \/ u = [Update(<< >>, << >>, p) EXCEPT !.bits = << >>]
    BY DEF BadUpdates
  <2>3. /\ <<NoSuchSlot>> \in Seq(Nat) /\ << >> \in Seq(Nat) /\ <<1>> \in Seq(Nat)
        /\ [s \in Slots |-> s] \in Seq(Nat)
    <3>1. [s \in Slots |-> s] \in [1 .. BucketSlots -> Nat]
      BY Constants DEF Slots
    <3> QED  BY <3>1, Constants
  <2> DEFINE a == Update(<<NoSuchSlot>>, << >>, p)
             b == Update(<<1>>, [s \in Slots |-> s], p)
             c == [Update(<< >>, << >>, p) EXCEPT !.bits = << >>]
  <2> HIDE DEF p
  <2>4. a.sourceSlots = <<NoSuchSlot>> /\ a.childSlots = << >> /\ a.perm = p
    BY DEF Update
  <2>5. b.sourceSlots = <<1>> /\ b.childSlots = [s \in Slots |-> s] /\ b.perm = p
    BY DEF Update
  <2>6. c.sourceSlots = << >> /\ c.childSlots = << >> /\ c.perm = p
    BY DEF Update
  <2>7. u = a \/ u = b \/ u = c
    BY <2>2
  <2> HIDE DEF a, b, c
  <2> QED  BY <2>1, <2>3, <2>4, <2>5, <2>6, <2>7 DEF WellUpdate
<1> QED  BY <1>1, <1>2

LEMMA ConcatFacts ==
    ASSUME NEW D, NEW a \in Seq(D), NEW b \in Seq(D)
    PROVE  /\ a \o b \in Seq(D) /\ Len(a \o b) = Len(a) + Len(b)
           /\ \A k \in 1 .. Len(a) + Len(b) : (a \o b)[k] = IF k <= Len(a) THEN a[k] ELSE b[k - Len(a)]
OBVIOUS

\* What the server assembles, and what the model of a whole update speaks of.
ChosenSlots(t, source, child, u) ==
    [k \in DOMAIN u.sourceSlots |-> t[source][u.sourceSlots[k]]]
    \o [k \in DOMAIN u.childSlots |-> t[child][u.childSlots[k]]]

LEMMA AssembledFacts ==
    ASSUME tree \in Trees, NEW source \in Nodes, NEW child \in Nodes, NEW u, WellUpdate(u),
           UpdateAccepted(source, child, u)
    PROVE  LET chosen    == ChosenSlots(tree, source, child, u)
               assembled == AssembleChildSlots(source, child, u)
           IN  /\ chosen \in Seq(Data)
               /\ Len(chosen) = Len(u.sourceSlots) + Len(u.childSlots)
               /\ Len(chosen) <= BucketSlots
               /\ assembled \in Bucket
               /\ \A s \in Slots : assembled[s] = IF s <= Len(chosen) THEN chosen[s] ELSE Zero
<1> DEFINE x == Chosen(source, u.sourceSlots)
           y == Chosen(child, u.childSlots)
           chosen == x \o y
           rest == SubSeq(ClearedBucket, Len(chosen) + 1, BucketSlots)
           assembled == chosen \o rest
<1>1. u.sourceSlots \in Seq(Nat) /\ u.childSlots \in Seq(Nat)
  BY DEF WellUpdate
<1>2. /\ \A k \in DOMAIN u.sourceSlots : u.sourceSlots[k] \in Slots
      /\ \A k \in DOMAIN u.childSlots : u.childSlots[k] \in Slots
      /\ Len(assembled) = BucketSlots
  BY DEF UpdateAccepted, AssembleChildSlots
<1>3. tree[source] \in Bucket /\ tree[child] \in Bucket
  BY DEF Trees
<1>4. x \in Seq(Data) /\ Len(x) = Len(u.sourceSlots)
  <2> DEFINE n == Len(u.sourceSlots)
  <2>1. n \in Nat /\ DOMAIN u.sourceSlots = 1 .. n
    BY <1>1
  <2> HIDE DEF n
  <2>2. x \in [1 .. n -> Data]
    BY <1>2, <1>3, <2>1 DEF Chosen, Bucket
  <2> QED  BY <2>1, <2>2 DEF n
<1>5. y \in Seq(Data) /\ Len(y) = Len(u.childSlots)
  <2> DEFINE n == Len(u.childSlots)
  <2>1. n \in Nat /\ DOMAIN u.childSlots = 1 .. n
    BY <1>1
  <2> HIDE DEF n
  <2>2. y \in [1 .. n -> Data]
    BY <1>2, <1>3, <2>1 DEF Chosen, Bucket
  <2> QED  BY <2>1, <2>2 DEF n
<1>6. chosen = ChosenSlots(tree, source, child, u) /\ assembled = AssembleChildSlots(source, child, u)
  BY DEF ChosenSlots, Chosen, AssembleChildSlots
<1> HIDE DEF x, y
<1>7. chosen \in Seq(Data) /\ Len(chosen) = Len(x) + Len(y)
  <2>1. x \in Seq(Data) /\ y \in Seq(Data)
    BY <1>4, <1>5
  <2> QED  BY <2>1, ConcatFacts
<1> HIDE DEF chosen
<1>8. ClearedBucket \in Seq(Data) /\ Len(ClearedBucket) = BucketSlots /\ \A s \in Slots : ClearedBucket[s] = Zero
  BY Constants DEF ClearedBucket, Slots
<1> DEFINE m == Len(chosen)
<1>9. m \in Nat
  BY <1>7
<1>10. /\ rest \in Seq(Data)
       /\ Len(rest) = IF m + 1 <= BucketSlots THEN BucketSlots - m ELSE 0
       /\ \A k \in 1 .. Len(rest) : rest[k] = Zero
  <2> HIDE DEF m
  <2>1. /\ SubSeq(ClearedBucket, m + 1, BucketSlots) \in Seq(Data)
        /\ Len(SubSeq(ClearedBucket, m + 1, BucketSlots)) = IF m + 1 <= BucketSlots THEN BucketSlots - m ELSE 0
    BY <1>8, <1>9, Constants
  <2>2. \A k \in 1 .. Len(SubSeq(ClearedBucket, m + 1, BucketSlots)) :
            SubSeq(ClearedBucket, m + 1, BucketSlots)[k] = Zero
    BY <1>8, <1>9, <2>1, Constants DEF Slots
  <2> QED  BY <2>1, <2>2 DEF m
<1> HIDE DEF rest
<1>11. /\ assembled \in Seq(Data) /\ Len(assembled) = m + Len(rest)
       /\ \A k \in 1 .. m + Len(rest) : assembled[k] = IF k <= m THEN chosen[k] ELSE rest[k - m]
  BY <1>7, <1>10, ConcatFacts
<1>12. m <= BucketSlots /\ Len(rest) = BucketSlots - m
  <2> HIDE DEF m, assembled
  <2> QED  BY <1>2, <1>9, <1>10, <1>11, Constants
<1>13. assembled \in Seq(Data) /\ \A s \in Slots : assembled[s] = IF s <= m THEN chosen[s] ELSE Zero
  <2> HIDE DEF m, assembled
  <2>1. ASSUME NEW s \in Slots PROVE assembled[s] = IF s <= m THEN chosen[s] ELSE Zero
    <3>1. s \in 1 .. m + Len(rest) /\ (~ (s <= m) => s - m \in 1 .. Len(rest))
      BY <1>9, <1>12, Constants DEF Slots
    <3> QED  BY <1>10, <1>11, <3>1
  <2> QED  BY <1>11, <2>1
<1>14. assembled \in Bucket
  <2> HIDE DEF assembled
  <2> QED  BY <1>2, <1>13 DEF Bucket, Slots
<1> HIDE DEF assembled, m
<1> QED  BY <1>4, <1>5, <1>6, <1>7, <1>12, <1>13, <1>14 DEF m

\* None of the updates that must be refused gets through.
LEMMA AcceptedIsGood ==
    ASSUME tree \in Trees, NEW source \in Nodes, NEW child \in Nodes, NEW u, WellUpdate(u),
           UpdateAccepted(source, child, u)
    PROVE  u \notin BadUpdates
<1> SUFFICES ASSUME u \in BadUpdates PROVE FALSE
  OBVIOUS
<1> DEFINE p == CHOOSE p \in Shuffles : TRUE
           a == Update(<<NoSuchSlot>>, << >>, p)
           b == Update(<<1>>, [s \in Slots |-> s], p)
           c == [Update(<< >>, << >>, p) EXCEPT !.bits = << >>]
           chosen == ChosenSlots(tree, source, child, u)
           assembled == AssembleChildSlots(source, child, u)
<1>1. u = a \/ u = b \/ u = c
  BY DEF BadUpdates
<1>2. a.sourceSlots = <<NoSuchSlot>>
  BY DEF Update
<1>3. b.sourceSlots = <<1>> /\ b.childSlots = [s \in Slots |-> s]
  BY DEF Update
<1>4. c.bits = << >>
  BY DEF Update
<1> HIDE DEF a, b, c
<1>5. Len(chosen) = Len(u.sourceSlots) + Len(u.childSlots) /\ Len(chosen) <= BucketSlots /\ assembled \in Bucket
  BY AssembledFacts, Zenon
<1>6. /\ \A k \in DOMAIN u.sourceSlots : u.sourceSlots[k] \in Slots
      /\ ~ EvalThrows(assembled, u.bits)
  BY DEF UpdateAccepted
<1> HIDE DEF chosen, assembled
<1>7. u # a
  <2>1. 1 \in DOMAIN <<NoSuchSlot>> /\ <<NoSuchSlot>>[1] \notin Slots
    BY Constants
  <2> QED  BY <1>2, <1>6, <2>1
<1>8. u # b
  <2>1. Len(<<1>>) = 1 /\ Len([s \in Slots |-> s]) = BucketSlots
    BY Constants DEF Slots
  <2>2. u = b => Len(u.sourceSlots) = 1 /\ Len(u.childSlots) = BucketSlots
    BY <1>3, <2>1
  <2>3. ~ (1 + BucketSlots <= BucketSlots)
    BY Constants
  <2> QED  BY <1>5, <2>2, <2>3, Zenon
<1>9. u # c
  <2>1. Len(assembled) = BucketSlots
    BY <1>5, Constants DEF Bucket, Slots
  <2>2. ~ (BucketSlots < 2) /\ Len(u.bits) = NumGates(BucketSlots)
    BY <1>6, <2>1 DEF EvalThrows
  <2>3. NumGates(BucketSlots) >= 1
    BY <2>2, Constants, NetworkHasGates
  <2>4. Len(<< >>) = 0
    OBVIOUS
  <2> QED  BY <1>4, <2>2, <2>3, <2>4
<1> QED  BY <1>1, <1>7, <1>8, <1>9

\* An accepted update gives the child what was asked for.
LEMMA UpdateCarriedOut ==
    ASSUME tree \in Trees, NEW source \in Nodes, NEW child \in Nodes, NEW u, WellUpdate(u),
           UpdateAccepted(source, child, u)
    PROVE  /\ EvalWaksman(AssembleChildSlots(source, child, u), u.bits) = ChildAfter(tree, source, child, u)
           /\ ChildAfter(tree, source, child, u) \in Bucket
<1> DEFINE p == u.perm
           chosen == ChosenSlots(tree, source, child, u)
           assembled == AssembleChildSlots(source, child, u)
<1>1. p \in Shuffles /\ u.bits = GenerateSwapBits(p)
  BY AcceptedIsGood DEF WellUpdate
<1>2. /\ assembled \in Bucket
      /\ \A s \in Slots : assembled[s] = IF s <= Len(chosen) THEN chosen[s] ELSE Zero
  BY AssembledFacts, Zenon
<1>3. ChildAfter(tree, source, child, u) = [d \in Slots |-> IF p[d] <= Len(chosen) THEN chosen[p[d]] ELSE Zero]
  BY Zenon DEF ChildAfter, ChosenSlots
<1> HIDE DEF p, chosen, assembled
<1>4. EvalWaksman(assembled, GenerateSwapBits(p)) = [d \in Slots |-> assembled[p[d]]]
  BY <1>1, <1>2, ShuffleCarriedOut, Zenon
<1>5. \A d \in Slots : p[d] \in Slots
  BY <1>1, ShuffleFacts
<1>6. [d \in Slots |-> assembled[p[d]]] = [d \in Slots |-> IF p[d] <= Len(chosen) THEN chosen[p[d]] ELSE Zero]
  BY <1>2, <1>5
<1>7. [d \in Slots |-> assembled[p[d]]] \in Bucket
  BY <1>2, <1>5 DEF Bucket
<1> QED  BY <1>1, <1>3, <1>4, <1>6, <1>7 DEF assembled

-----------------------------------------------------------------------------
\* A request with only a part of its list still to come.
ClearOf(m, rest)   == [cmd |-> "C", leaf |-> m.leaf, selections |-> rest]
TripletOf(m, rest) == [cmd |-> "T", source |-> m.source, left |-> m.left, right |-> m.right, updates |-> rest]

\* What the server may rely on in a request, and what is promised of it.
WellAsked(m) ==
    /\ m.cmd \in {"none", "A", "C", "R", "L", "U", "T", "F", "Q", "?"}
    /\ m.cmd \in {"A", "C"} => m.leaf \in Nat /\ m.selections \in [1 .. TreeHeight + 1 -> Nat]
    /\ m.cmd = "C" => m = ClearOf(m, m.selections)
    /\ m.cmd = "U" => m.data \in Data
    /\ m.cmd = "T" =>
          \/ m.source = NoSuchNode
          \/ /\ m = TripletOf(m, m.updates) /\ m.source = 0 /\ m.left = 1 /\ m.right = 2
             /\ m.updates = <<m.updates[1], m.updates[2]>>
             /\ WellUpdate(m.updates[1]) /\ WellUpdate(m.updates[2])
    /\ m.cmd = "F" =>
          /\ m.slots \in Bucket /\ m.perm \in Shuffles
          /\ m.bits = GenerateSwapBits(m.perm) \/ m.bits = << >>

\* The slots of the path cleared so far, and the selections still to come.
Clearing(t, was, m, rest) ==
    \E k \in 0 .. TreeHeight + 1 :
        /\ t = Cleared(was, m.leaf, m.selections, k)
        /\ \A i \in 1 .. k : m.selections[i] \in Slots
        /\ rest = ClearOf(m, SubSeq(m.selections, k + 1, TreeHeight + 1))

\* The children that have their new contents, and the updates still to come.
Evicting(t, was, m, rest) ==
    /\ {m.source, m.left, m.right} \subseteq Nodes
    /\ \/ t = was /\ rest = TripletOf(m, m.updates)
       \/ t = WithLeft(was, m) /\ rest = TripletOf(m, <<m.updates[2]>>) /\ m.updates[1] \notin BadUpdates
       \/ /\ t = WithBoth(was, m) /\ rest = TripletOf(m, << >>)
          /\ m.updates[1] \notin BadUpdates /\ m.updates[2] \notin BadUpdates

\* Between a request and its answer the server knows what was asked: the tree
\* is as it was until it is served, and half way through it has the effects so
\* far.  The node of a leaf refresh outlives its first request.
OnionStoreInv ==
    /\ tree \in Trees /\ before \in Trees /\ spc \in ServerPoints
    /\ WellAsked(asked)
    /\ resp # NoMsg => req = NoMsg /\ spc \notin {"clear", "triplet"}
    /\ req # NoMsg /\ spc \notin {"clear", "triplet"} => req = asked /\ tree = before
    /\ spc = "clear" => asked.cmd = "C" /\ Clearing(tree, before, asked, req)
    /\ spc = "triplet" => asked.cmd = "T" /\ Evicting(tree, before, asked, req)
    /\ spc = "refresh" =>
          /\ bucket \in Nodes /\ asked.cmd \in {"L", "F", "Q"}
          /\ asked.cmd # "Q" => bucket = asked.node
          /\ resp # NoMsg => asked.cmd = "L"
    /\ AnswersAreTrue
    /\ HalfDoneLosesNothing

-----------------------------------------------------------------------------
\* Whatever a client sends is what the server relies on.
LEMMA SentWellAsked ==
    ASSUME NEW n, NEW m \in SentRequests \cup Refreshes(n) \cup {[cmd |-> "Q"]}
    PROVE  /\ WellAsked(m) /\ m.cmd # "none"
           /\ m \in Refreshes(n) => m.cmd = "F" /\ m.node = n
<1>1. ASSUME NEW a \in [cmd : {"A", "C"}, leaf : {0, LongLeaf}, selections : SentSelections]
      PROVE  WellAsked(a) /\ a.cmd # "none"
  <2>1. 0 \in Nat /\ LongLeaf \in Nat
    BY Constants DEF LongLeaf
  <2>2. ASSUME NEW s \in SentSelections PROVE s \in [1 .. TreeHeight + 1 -> Nat]
    <3>1. Slots \subseteq Nat /\ NoSuchSlot \in Nat /\ 1 \in Nat
      BY Constants DEF Slots
    <3>2. CASE s \in Selections(Slots)
      BY <3>1, <3>2 DEF Selections
    <3>3. CASE s \notin Selections(Slots)
      <4>1. PICK t \in Selections({1}), k \in 1 .. TreeHeight + 1 : s = [t EXCEPT ![k] = NoSuchSlot]
        BY <3>3 DEF SentSelections
      <4> QED  BY <3>1, <4>1 DEF Selections
    <3> QED  BY <3>2, <3>3
  <2>3. a.cmd \in {"A", "C"} /\ a.leaf \in Nat /\ a.selections \in [1 .. TreeHeight + 1 -> Nat]
    BY <2>1, <2>2
  <2>4. a.cmd = "C" => a = ClearOf(a, a.selections)
    BY DEF ClearOf
  <2> QED  BY <2>3, <2>4 DEF WellAsked
<1>2. ASSUME NEW a \in Triplets PROVE WellAsked(a) /\ a.cmd # "none"
  <2> DEFINE Pairs == (GoodUpdates \X (GoodUpdates \cup BadUpdates)) \cup {<<u, u>> : u \in BadUpdates}
  <2>1. CASE a \in [cmd : {"T"}, source : {0}, left : {1}, right : {2}, updates : Pairs]
    <3>1. a.cmd = "T" /\ a.source = 0 /\ a.left = 1 /\ a.right = 2 /\ a.updates \in Pairs
      BY <2>1
    <3>2. a = TripletOf(a, a.updates)
      BY <2>1 DEF TripletOf
    <3>3. /\ a.updates = <<a.updates[1], a.updates[2]>>
          /\ a.updates[1] \in GoodUpdates \cup BadUpdates /\ a.updates[2] \in GoodUpdates \cup BadUpdates
      BY <3>1
    <3>4. WellUpdate(a.updates[1]) /\ WellUpdate(a.updates[2])
      BY <3>3, SentUpdates
    <3> HIDE DEF Pairs
    <3> QED  BY <3>1, <3>2, <3>3, <3>4 DEF WellAsked
  <2>2. CASE a \in [cmd : {"T"}, source : {NoSuchNode}, left : {1}, right : {2}, updates : {<< >>}]
    <3>1. a.cmd = "T" /\ a.source = NoSuchNode
      BY <2>2
    <3> QED  BY <3>1 DEF WellAsked
  <2> QED  BY <2>1, <2>2 DEF Triplets
<1>3. ASSUME NEW a \in Refreshes(n) PROVE WellAsked(a) /\ a.cmd # "none" /\ a.cmd = "F" /\ a.node = n
  <2>1. a.cmd = "F" /\ a.node = n
    BY DEF Refreshes
  <2>2. a.slots \in Bucket /\ a.perm \in Shuffles /\ (a.bits = GenerateSwapBits(a.perm) \/ a.bits = << >>)
    <3> DEFINE q == CHOOSE p \in Shuffles : TRUE
               r == [cmd |-> "F", node |-> n, slots |-> ClearedBucket, perm |-> q, bits |-> << >>]
    <3>1. q \in Shuffles
      BY ShuffleFacts
    <3>2. r.slots = ClearedBucket /\ r.perm = q /\ r.bits = << >>
      OBVIOUS
    <3>3. CASE a = r
      <4> HIDE DEF q, r
      <4> QED  BY <3>1, <3>2, <3>3, Constants
    <3>4. CASE a # r
      <4>1. PICK slots \in [Slots -> Data], p \in Shuffles :
               a = [cmd |-> "F", node |-> n, slots |-> slots, perm |-> p, bits |-> GenerateSwapBits(p)]
        BY <3>4 DEF Refreshes
      <4> QED  BY <4>1 DEF Bucket
    <3> QED  BY <3>3, <3>4
  <2> QED  BY <2>1, <2>2 DEF WellAsked
<1>4. ASSUME NEW a \in [cmd : {"U"}, node : Nodes \cup {NoSuchNode}, slot : Slots \cup {NoSuchSlot}, data : Data]
      PROVE  WellAsked(a) /\ a.cmd # "none"
  <2>1. a.cmd = "U" /\ a.data \in Data
    OBVIOUS
  <2> QED  BY <2>1 DEF WellAsked
<1>5. m \in SentRequests \cup {[cmd |-> "Q"]} => WellAsked(m) /\ m.cmd # "none"
  <2>1. ASSUME NEW a \in [cmd : {"R", "L"}, node : Nodes \cup {NoSuchNode}] PROVE a.cmd \in {"R", "L", "Q", "?"}
    OBVIOUS
  <2>2. \A a \in {[cmd |-> "Q"], [cmd |-> "?"]} : a.cmd \in {"R", "L", "Q", "?"}
    OBVIOUS
  <2> SUFFICES ASSUME m \in SentRequests \cup {[cmd |-> "Q"]} PROVE WellAsked(m) /\ m.cmd # "none"
    OBVIOUS
  <2>3. \/ m \in [cmd : {"A", "C"}, leaf : {0, LongLeaf}, selections : SentSelections]
        \/ m \in [cmd : {"R", "L"}, node : Nodes \cup {NoSuchNode}]
        \/ m \in [cmd : {"U"}, node : Nodes \cup {NoSuchNode}, slot : Slots \cup {NoSuchSlot}, data : Data]
        \/ m \in Triplets
        \/ m \in {[cmd |-> "Q"], [cmd |-> "?"]}
    BY Zenon DEF SentRequests
  <2>4. m.cmd \in {"R", "L", "Q", "?"} => WellAsked(m) /\ m.cmd # "none"
    BY DEF WellAsked
  <2> QED  BY <1>1, <1>2, <1>4, <2>1, <2>2, <2>3, <2>4, Zenon
<1> QED  BY <1>3, <1>5

LEMMA InitOnionStoreInv == Init => OnionStoreInv
<1> SUFFICES ASSUME Init PROVE OnionStoreInv
  OBVIOUS
<1>1. /\ tree = [n \in Nodes |-> ClearedBucket] /\ spc = "constructed"
      /\ req = NoMsg /\ resp = NoMsg /\ asked = NoMsg /\ before = tree
  BY DEF Init, ConstructServer
<1>2. tree \in Trees
  BY <1>1, Constants DEF Trees
<1>3. NoMsg.cmd = "none"
  BY DEF NoMsg
<1>4. WellAsked(asked)
  BY <1>1, <1>3 DEF WellAsked
<1>5. AnswersAreTrue /\ HalfDoneLosesNothing
  BY <1>1, <1>3 DEF AnswersAreTrue, HalfDoneLosesNothing
<1> QED  BY <1>1, <1>2, <1>4, <1>5 DEF OnionStoreInv, ServerPoints

\* A step that changes no bucket and sends no answer.
LEMMA QuietStep ==
    ASSUME OnionStoreInv, tree' = tree, before' = before, asked' = asked, resp' = resp,
           \/ spc' = spc /\ bucket' = bucket /\ req' = req
           \/ spc = "constructed" /\ spc' = "recv" /\ req' = req
           \/ spc = "left" /\ spc' = "destroyed" /\ req' = req
           \/ spc' = "left" /\ req' = NoMsg
    PROVE  OnionStoreInv'
<1>1. AnswersAreTrue'
  BY DEF OnionStoreInv, AnswersAreTrue
<1>2. HalfDoneLosesNothing'
  <2>1. HalfDoneLosesNothing
    BY DEF OnionStoreInv
  <2> QED  BY <2>1 DEF HalfDoneLosesNothing
<1>3. /\ tree' \in Trees /\ before' \in Trees /\ spc' \in ServerPoints /\ WellAsked(asked)'
      /\ resp' # NoMsg => req' = NoMsg /\ spc' \notin {"clear", "triplet"}
      /\ req' # NoMsg /\ spc' \notin {"clear", "triplet"} => req' = asked' /\ tree' = before'
  <2>1. WellAsked(asked)'
    BY DEF OnionStoreInv, WellAsked
  <2> QED  BY <2>1 DEF OnionStoreInv, ServerPoints
<1>4. /\ spc' = "clear" => asked'.cmd = "C" /\ Clearing(tree, before, asked, req)'
      /\ spc' = "triplet" => asked'.cmd = "T" /\ Evicting(tree, before, asked, req)'
  <2>1. spc' \in {"clear", "triplet"} => spc' = spc /\ req' = req
    OBVIOUS
  <2>2. CASE spc' = "clear"
    <3>1. Clearing(tree, before, asked, req) /\ asked.cmd = "C"
      BY <2>1, <2>2 DEF OnionStoreInv
    <3> QED  BY <2>1, <2>2, <3>1 DEF Clearing
  <2>3. CASE spc' = "triplet"
    <3>1. Evicting(tree, before, asked, req) /\ asked.cmd = "T"
      BY <2>1, <2>3 DEF OnionStoreInv
    <3> QED  BY <2>1, <2>3, <3>1 DEF Evicting
  <2> QED  BY <2>2, <2>3
<1>5. spc' = "refresh" =>
          /\ bucket' \in Nodes /\ asked'.cmd \in {"L", "F", "Q"}
          /\ asked'.cmd # "Q" => bucket' = asked'.node
          /\ resp' # NoMsg => asked'.cmd = "L"
  BY DEF OnionStoreInv
<1> QED  BY <1>1, <1>2, <1>3, <1>4, <1>5 DEF OnionStoreInv

\* An answer says of the tree what it must, and a tree has lost nothing.
TrueAnswer(m, t, was, a) ==
    /\ m.cmd = "K" => a.cmd \in {"C", "U", "T", "F"} /\ t = Done(was, a)
    /\ m.cmd \in {"sum", "bucket", "B"} => t = was
    /\ m.cmd = "sum" => a.cmd = "A" /\ m.sum = SumOf(was, a)
    /\ m.cmd = "bucket" => a.cmd = "R" /\ m.slots = was[a.node]
    /\ m.cmd = "B" => a.cmd = "L" /\ m.slots = was[a.node]

LosesNothing(t, was, a) ==
    \/ t = was
    \/ a.cmd # "T" /\ Done(was, a) = t
    \/ a.cmd = "C" /\ \E k \in 1 .. TreeHeight : t = Cleared(was, a.leaf, a.selections, k)
    \/ a.cmd = "T" /\ a.updates[1] \notin BadUpdates /\ t = WithLeft(was, a)
    \/ /\ a.cmd = "T" /\ {a.updates[1], a.updates[2]} \cap BadUpdates = {}
       /\ t \in {WithBoth(was, a), Evicted(was, a)}

LEMMA Promises ==
    /\ AnswersAreTrue <=> TrueAnswer(resp, tree, before, asked)
    /\ HalfDoneLosesNothing <=> LosesNothing(tree, before, asked)
    /\ AnswersAreTrue' <=> TrueAnswer(resp', tree', before', asked')
    /\ HalfDoneLosesNothing' <=> LosesNothing(tree', before', asked')
<1>1. /\ AnswersAreTrue <=> TrueAnswer(resp, tree, before, asked)
      /\ AnswersAreTrue' <=> TrueAnswer(resp', tree', before', asked')
  BY DEF AnswersAreTrue, TrueAnswer
<1>2. /\ HalfDoneLosesNothing <=> LosesNothing(tree, before, asked)
      /\ HalfDoneLosesNothing' <=> LosesNothing(tree', before', asked')
  BY DEF HalfDoneLosesNothing, LosesNothing
<1> QED  BY <1>1, <1>2

\* A step that answers.
LEMMA AnswerStep ==
    ASSUME OnionStoreInv, resp = NoMsg, NEW m, Answer(m), tree' \in Trees,
           before' = before, asked' = asked,
           TrueAnswer(m, tree', before, asked), LosesNothing(tree', before, asked)
    PROVE  OnionStoreInv'
<1>1. req' = NoMsg /\ (resp' = m \/ resp' = NoMsg) /\ spc' \in {"recv", "left"}
  BY DEF Answer, Consume, SendReply, NextTurn, Leave
<1>2. TrueAnswer(resp', tree', before', asked')
  <2>1. NoMsg.cmd = "none"
    BY DEF NoMsg
  <2>2. TrueAnswer(NoMsg, tree', before, asked)
    BY <2>1 DEF TrueAnswer
  <2> QED  BY <1>1, <2>2
<1>3. AnswersAreTrue' /\ HalfDoneLosesNothing'
  BY <1>2, Promises
<1>4. WellAsked(asked)' /\ before' \in Trees
  BY DEF OnionStoreInv, WellAsked
<1> QED  BY <1>1, <1>3, <1>4 DEF OnionStoreInv, ServerPoints

\* A step that changes the tree on the way, or none of it, and answers later.
LEMMA OnTheWayStep ==
    ASSUME OnionStoreInv, resp = NoMsg, resp' = resp, tree' \in Trees, before' = before, asked' = asked,
           \/ spc' = "clear" /\ asked.cmd = "C" /\ Clearing(tree', before, asked, req')
           \/ spc' = "triplet" /\ asked.cmd = "T" /\ Evicting(tree', before, asked, req'),
           LosesNothing(tree', before, asked)
    PROVE  OnionStoreInv'
<1>1. TrueAnswer(resp', tree', before', asked')
  <2>1. resp'.cmd = "none"
    BY DEF NoMsg
  <2> QED  BY <2>1 DEF TrueAnswer
<1>2. AnswersAreTrue' /\ HalfDoneLosesNothing'
  BY <1>1, Promises
<1>3. WellAsked(asked)' /\ before' \in Trees
  BY DEF OnionStoreInv, WellAsked
<1>4. /\ spc' = "clear" => asked'.cmd = "C" /\ Clearing(tree, before, asked, req)'
      /\ spc' = "triplet" => asked'.cmd = "T" /\ Evicting(tree, before, asked, req)'
  <2>1. Clearing(tree, before, asked, req)' <=> Clearing(tree', before', asked', req')
    BY DEF Clearing
  <2>2. Evicting(tree, before, asked, req)' <=> Evicting(tree', before', asked', req')
    BY DEF Evicting
  <2>3. ~ (spc' = "clear" /\ spc' = "triplet")
    BY Zenon
  <2> QED  BY <2>1, <2>2
<1> QED  BY <1>2, <1>3, <1>4 DEF OnionStoreInv, ServerPoints

-----------------------------------------------------------------------------
\* The request taken at the head of the loop is the one last sent.
LEMMA AtHead ==
    ASSUME OnionStoreInv, spc = "recv", req.cmd # "none"
    PROVE  req = asked /\ tree = before /\ resp = NoMsg /\ WellAsked(req)
<1>1. req # NoMsg
  BY DEF NoMsg
<1> QED  BY <1>1 DEF OnionStoreInv

LEMMA AccessKeeps ==
    ASSUME OnionStoreInv, HandleAccess, UNCHANGED <<asked, before>>
    PROVE  OnionStoreInv'
<1>1. spc = "recv" /\ req.cmd = "A" /\ tree' = tree /\ bucket' = bucket
  BY DEF HandleAccess, Command
<1>2. req = asked /\ tree = before /\ resp = NoMsg /\ WellAsked(req)
  BY <1>1, AtHead
<1>3. tree \in Trees
  BY DEF OnionStoreInv
<1>4. CASE \A k \in DOMAIN req.selections : req.selections[k] \in Slots
  <2> DEFINE m == [cmd |-> "sum", sum |-> PathSum(PathOf(req.leaf), req.selections)]
  <2>1. Answer(m)
    BY <1>4 DEF HandleAccess
  <2>2. req.leaf \in Nat /\ req.selections \in [1 .. TreeHeight + 1 -> Nat]
    BY <1>1, <1>2 DEF WellAsked
  <2>3. Len(req.selections) = TreeHeight + 1 /\ \A k \in 1 .. TreeHeight + 1 : req.selections[k] \in Slots
    BY <1>4, <2>2, Constants
  <2>4. PathSum(PathOf(req.leaf), req.selections) = SumOf(tree, req)
    BY <1>3, <2>2, <2>3, PathSumIsSum
  <2>5. m.cmd = "sum" /\ m.sum = SumOf(before, asked)
    BY <1>2, <2>4
  <2> HIDE DEF m
  <2>6. TrueAnswer(m, tree', before, asked)
    BY <1>1, <1>2, <2>5 DEF TrueAnswer
  <2>7. LosesNothing(tree', before, asked)
    BY <1>1, <1>2 DEF LosesNothing
  <2> QED  BY <1>1, <1>2, <1>3, <2>1, <2>6, <2>7, AnswerStep
<1>5. CASE ~ \A k \in DOMAIN req.selections : req.selections[k] \in Slots
  <2>1. req' = NoMsg /\ spc' = "left" /\ resp' = resp
    BY <1>5 DEF HandleAccess, Refuse, Consume, Leave
  <2> QED  BY <1>1, <2>1, QuietStep
<1> QED  BY <1>4, <1>5

LEMMA ReadBucketKeeps ==
    ASSUME OnionStoreInv, HandleReadBucket, UNCHANGED <<asked, before>>
    PROVE  OnionStoreInv'
<1>1. spc = "recv" /\ req.cmd = "R" /\ tree' = tree /\ bucket' = bucket
  BY DEF HandleReadBucket, Command
<1>2. req = asked /\ tree = before /\ resp = NoMsg
  BY <1>1, AtHead
<1>3. tree \in Trees
  BY DEF OnionStoreInv
<1>4. CASE req.node \in Nodes
  <2> DEFINE m == [cmd |-> "bucket", slots |-> tree[req.node]]
  <2>1. Answer(m)
    BY <1>4 DEF HandleReadBucket
  <2>2. m.cmd = "bucket" /\ m.slots = before[asked.node]
    BY <1>2
  <2> HIDE DEF m
  <2>3. TrueAnswer(m, tree', before, asked)
    BY <1>1, <1>2, <2>2 DEF TrueAnswer
  <2>4. LosesNothing(tree', before, asked)
    BY <1>1, <1>2 DEF LosesNothing
  <2> QED  BY <1>1, <1>2, <1>3, <2>1, <2>3, <2>4, AnswerStep
<1>5. CASE req.node \notin Nodes
  <2>1. req' = NoMsg /\ spc' = "left" /\ resp' = resp
    BY <1>5 DEF HandleReadBucket, Refuse, Consume, Leave
  <2> QED  BY <1>1, <2>1, QuietStep
<1> QED  BY <1>4, <1>5

LEMMA WriteSlotKeeps ==
    ASSUME OnionStoreInv, HandleWriteSlot, UNCHANGED <<asked, before>>
    PROVE  OnionStoreInv'
<1>1. spc = "recv" /\ req.cmd = "U" /\ bucket' = bucket
  BY DEF HandleWriteSlot, Command
<1>2. req = asked /\ tree = before /\ resp = NoMsg /\ WellAsked(req)
  BY <1>1, AtHead
<1>3. tree \in Trees
  BY DEF OnionStoreInv
<1>4. CASE req.node \in Nodes /\ req.slot \in Slots
  <2>1. tree' = [tree EXCEPT ![req.node][req.slot] = req.data] /\ Answer(Ack)
    BY <1>4 DEF HandleWriteSlot
  <2>2. req.data \in Data
    BY <1>1, <1>2 DEF WellAsked
  <2>3. tree' \in Trees
    BY <1>3, <1>4, <2>1, <2>2 DEF Trees, Bucket
  <2>4. tree' = Done(before, asked) /\ asked.cmd = "U"
    BY <1>1, <1>2, <2>1 DEF Done
  <2>5. Ack.cmd = "K"
    BY DEF Ack
  <2>6. TrueAnswer(Ack, tree', before, asked)
    BY <2>4, <2>5 DEF TrueAnswer
  <2>7. LosesNothing(tree', before, asked)
    BY <2>4 DEF LosesNothing
  <2> QED  BY <1>2, <2>1, <2>3, <2>6, <2>7, AnswerStep
<1>5. CASE ~ (req.node \in Nodes /\ req.slot \in Slots)
  <2>1. tree' = tree /\ req' = NoMsg /\ spc' = "left" /\ resp' = resp
    BY <1>5 DEF HandleWriteSlot, Refuse, Consume, Leave
  <2> QED  BY <1>1, <2>1, QuietStep
<1> QED  BY <1>4, <1>5

-----------------------------------------------------------------------------
WithoutSlot(t, n, s) == [t EXCEPT ![n][s] = Zero]

LEMMA ClearedFacts ==
    ASSUME NEW t \in Trees, NEW leaf \in Nat, NEW sel \in [1 .. TreeHeight + 1 -> Nat]
    PROVE  /\ Cleared(t, leaf, sel, 0) = t
           /\ \A k \in 0 .. TreeHeight + 1 : Cleared(t, leaf, sel, k) \in Trees
           /\ \A k \in 0 .. TreeHeight : sel[k + 1] \in Slots =>
                 Cleared(t, leaf, sel, k + 1) =
                     WithoutSlot(Cleared(t, leaf, sel, k), PathOf(leaf)[k + 1], sel[k + 1])
<1> DEFINE path == PathOf(leaf)
           Hit(k, n, s) == \E i \in 1 .. k : path[i] = n /\ sel[i] = s
           C(k) == [n \in Nodes |-> [s \in Slots |-> IF Hit(k, n, s) THEN Zero ELSE t[n][s]]]
<1>1. ASSUME NEW k PROVE Cleared(t, leaf, sel, k) = C(k)
  BY DEF Cleared, PathOf
<1>2. \A k \in 1 .. TreeHeight + 1 : path[k] \in Nodes
  BY PathFacts
<1>3. \A n, s : ~ Hit(0, n, s)
  OBVIOUS
<1>4. ASSUME NEW k \in 0 .. TreeHeight, NEW n, NEW s
      PROVE  Hit(k + 1, n, s) <=> Hit(k, n, s) \/ (path[k + 1] = n /\ sel[k + 1] = s)
  <2>1. 1 .. k + 1 = (1 .. k) \cup {k + 1}
    BY Constants
  <2> QED  BY <2>1
<1> HIDE DEF path, Hit
<1>5. t \in [Nodes -> Bucket]
  BY DEF Trees
<1>6. C(0) = t
  <2>1. \A n \in Nodes : t[n] = [s \in Slots |-> t[n][s]]
    BY <1>5 DEF Bucket
  <2>2. t = [n \in Nodes |-> t[n]]
    BY <1>5
  <2>3. C(0) = [n \in Nodes |-> [s \in Slots |-> t[n][s]]]
    BY <1>3
  <2> HIDE DEF C
  <2> QED  BY <2>1, <2>2, <2>3
<1>7. ASSUME NEW k PROVE C(k) \in Trees
  BY <1>5, Constants DEF Trees, Bucket
<1>8. ASSUME NEW k \in 0 .. TreeHeight, sel[k + 1] \in Slots
      PROVE  C(k + 1) = [C(k) EXCEPT ![path[k + 1]][sel[k + 1]] = Zero]
  <2> DEFINE n0 == path[k + 1]
             s0 == sel[k + 1]
  <2>1. n0 \in Nodes /\ s0 \in Slots
    BY <1>2, <1>8, Constants
  <2> HIDE DEF n0, s0
  <2>2. ASSUME NEW n \in Nodes
        PROVE  C(k + 1)[n] = [C(k) EXCEPT ![n0][s0] = Zero][n]
    <3>1. C(k + 1)[n] = [s \in Slots |-> IF Hit(k, n, s) \/ (n0 = n /\ s0 = s) THEN Zero ELSE t[n][s]]
      BY <1>4 DEF n0, s0
    <3>2. C(k)[n] = [s \in Slots |-> IF Hit(k, n, s) THEN Zero ELSE t[n][s]]
      OBVIOUS
    <3> DEFINE c == C(k)
    <3>3. DOMAIN c = Nodes
      OBVIOUS
    <3> HIDE DEF c
    <3>4. [c EXCEPT ![n0][s0] = Zero][n] = IF n = n0 THEN [c[n] EXCEPT ![s0] = Zero] ELSE c[n]
      BY <3>3
    <3>5. CASE n = n0
      <4>1. [c[n] EXCEPT ![s0] = Zero] = [s \in Slots |-> IF s = s0 THEN Zero ELSE c[n][s]]
        BY <3>2 DEF c
      <4>2. \A s \in Slots : c[n][s] = IF Hit(k, n, s) THEN Zero ELSE t[n][s]
        BY <3>2 DEF c
      <4>3. [s \in Slots |-> IF s = s0 THEN Zero ELSE c[n][s]]
            = [s \in Slots |-> IF Hit(k, n, s) \/ (n0 = n /\ s0 = s) THEN Zero ELSE t[n][s]]
        BY <3>5, <4>2
      <4> HIDE DEF C
      <4> QED  BY <3>1, <3>4, <3>5, <4>1, <4>3 DEF c
    <3>6. CASE n # n0
      <4>1. [s \in Slots |-> IF Hit(k, n, s) \/ (n0 = n /\ s0 = s) THEN Zero ELSE t[n][s]]
            = [s \in Slots |-> IF Hit(k, n, s) THEN Zero ELSE t[n][s]]
        BY <3>6
      <4> HIDE DEF C
      <4> QED  BY <3>1, <3>2, <3>4, <3>6, <4>1 DEF c
    <3> QED  BY <3>5, <3>6
  <2>3. C(k + 1) = [n \in Nodes |-> C(k + 1)[n]]
    OBVIOUS
  <2>4. [C(k) EXCEPT ![n0][s0] = Zero] = [n \in Nodes |-> [C(k) EXCEPT ![n0][s0] = Zero][n]]
    OBVIOUS
  <2> HIDE DEF C
  <2> QED  BY <2>2, <2>3, <2>4 DEF n0, s0
<1> HIDE DEF C
<1>9. \A k \in 0 .. TreeHeight + 1 : Cleared(t, leaf, sel, k) \in Trees
  BY <1>1, <1>7
<1>10. ASSUME NEW k \in 0 .. TreeHeight, sel[k + 1] \in Slots
       PROVE  Cleared(t, leaf, sel, k + 1) =
                  WithoutSlot(Cleared(t, leaf, sel, k), PathOf(leaf)[k + 1], sel[k + 1])
  <2>1. Cleared(t, leaf, sel, k + 1) = C(k + 1) /\ Cleared(t, leaf, sel, k) = C(k)
    BY <1>1
  <2> QED  BY <1>8, <1>10, <2>1 DEF path, WithoutSlot
<1> QED  BY <1>1, <1>6, <1>9, <1>10

LEMMA ClearPathKeeps ==
    ASSUME OnionStoreInv, HandleClearPath, UNCHANGED <<asked, before>>
    PROVE  OnionStoreInv'
<1>1. spc = "recv" /\ req.cmd = "C" /\ tree' = tree /\ spc' = "clear" /\ req' = req /\ resp' = resp
  BY DEF HandleClearPath, Command
<1>2. req = asked /\ tree = before /\ resp = NoMsg /\ WellAsked(req)
  BY <1>1, AtHead
<1>3. tree \in Trees
  BY DEF OnionStoreInv
<1>4. req.leaf \in Nat /\ req.selections \in [1 .. TreeHeight + 1 -> Nat] /\ req = ClearOf(req, req.selections)
  BY <1>1, <1>2 DEF WellAsked
<1> DEFINE n == TreeHeight + 1
           sel == req.selections
<1>5. SubSeq(sel, 1, n) = sel /\ n \in Nat /\ 0 \in 0 .. n
  <2>1. n \in Nat /\ sel \in [1 .. n -> Nat]
    BY <1>4, Constants
  <2> HIDE DEF n, sel
  <2>2. sel \in Seq(Nat) /\ Len(sel) = n
    BY <2>1
  <2> QED  BY <2>1, <2>2
<1>6. Clearing(tree', before, asked, req')
  <2>1. tree' = Cleared(before, asked.leaf, asked.selections, 0)
    BY <1>1, <1>2, <1>3, <1>4, ClearedFacts
  <2>2. req' = ClearOf(asked, SubSeq(asked.selections, 0 + 1, TreeHeight + 1))
    <3>1. SubSeq(asked.selections, 0 + 1, TreeHeight + 1) = asked.selections
      <4>1. 0 + 1 = 1
        OBVIOUS
      <4> QED  BY <1>2, <1>5, <4>1
    <3>2. req' = ClearOf(asked, asked.selections)
      BY <1>1, <1>2, <1>4
    <3> QED  BY <3>1, <3>2, Zenon
  <2>3. \A i \in 1 .. 0 : asked.selections[i] \in Slots
    OBVIOUS
  <2>4. 0 \in 0 .. TreeHeight + 1
    BY <1>5
  <2> QED  BY <2>1, <2>2, <2>3, <2>4, Zenon DEF Clearing
<1>7. LosesNothing(tree', before, asked)
  BY <1>1, <1>2 DEF LosesNothing
<1> QED  BY <1>1, <1>2, <1>3, <1>6, <1>7, OnTheWayStep

LEMMA ClearSlotKeeps ==
    ASSUME OnionStoreInv, ClearSlot, UNCHANGED <<asked, before>>
    PROVE  OnionStoreInv'
<1>1. spc = "clear" /\ req.selections # << >> /\ bucket' = bucket
  BY DEF ClearSlot
<1>2. /\ asked.cmd = "C" /\ WellAsked(asked) /\ tree \in Trees /\ before \in Trees /\ resp = NoMsg
      /\ Clearing(tree, before, asked, req)
  BY <1>1 DEF OnionStoreInv
<1> DEFINE n == TreeHeight + 1
           sel == asked.selections
           leaf == asked.leaf
           path == PathOf(leaf)
<1>3. leaf \in Nat /\ sel \in [1 .. n -> Nat] /\ n \in Nat
  BY <1>2, Constants DEF WellAsked
<1>4. PICK k \in 0 .. n :
         /\ tree = Cleared(before, leaf, sel, k)
         /\ \A i \in 1 .. k : sel[i] \in Slots
         /\ req = ClearOf(asked, SubSeq(sel, k + 1, n))
  BY <1>2, Zenon DEF Clearing
<1>5. req.selections = SubSeq(sel, k + 1, n) /\ req.leaf = leaf
  BY <1>4 DEF ClearOf
<1> HIDE DEF sel
<1>6. /\ k \in 0 .. TreeHeight
      /\ Len(req.selections) = n - k
      /\ Head(req.selections) = sel[k + 1]
      /\ Tail(req.selections) = SubSeq(sel, (k + 1) + 1, n)
  <2> HIDE DEF n
  <2>1. sel \in Seq(Nat) /\ Len(sel) = n
    BY <1>3
  <2>2. k # n
    <3>1. SubSeq(sel, n + 1, n) = << >>
      BY <1>3, <2>1
    <3> QED  BY <1>1, <1>5, <3>1
  <2>3. k \in Nat /\ k + 1 <= n
    BY <1>3, <2>2
  <2>4. /\ SubSeq(sel, k + 1, n) \in Seq(Nat) /\ Len(SubSeq(sel, k + 1, n)) = n - k
        /\ Head(SubSeq(sel, k + 1, n)) = sel[k + 1]
    BY <1>3, <2>1, <2>3
  <2>5. Tail(SubSeq(sel, k + 1, n)) = SubSeq(sel, (k + 1) + 1, n)
    BY <1>3, <2>1, <2>3, <2>4
  <2> QED  BY <1>5, <2>3, <2>4, <2>5, Constants DEF n
<1> DEFINE node == path[k + 1]
           slot == sel[k + 1]
<1>7. PathOf(req.leaf)[Len(PathOf(req.leaf)) - Len(req.selections) + 1] = node
  <2>1. Len(path) = n
    BY <1>3, PathFacts
  <2>2. n - (n - k) + 1 = k + 1
    BY <1>3
  <2> HIDE DEF path, n
  <2>3. Len(path) - Len(req.selections) + 1 = k + 1
    BY <1>6, <2>1, <2>2
  <2> QED  BY <1>5, <2>3 DEF path
<1>8. CASE slot \in Slots
  <2>1. /\ tree' = [tree EXCEPT ![node][slot] = Zero]
        /\ req' = [req EXCEPT !.selections = Tail(@)]
        /\ spc' = spc /\ resp' = resp
    <3> HIDE DEF node
    <3> QED  BY <1>6, <1>7, <1>8 DEF ClearSlot
  <2>2. tree' = Cleared(before, leaf, sel, k + 1) /\ tree' \in Trees
    <3>1. k + 1 \in 0 .. TreeHeight + 1
      BY <1>6, Constants
    <3>2. /\ Cleared(before, leaf, sel, k + 1) \in Trees
          /\ Cleared(before, leaf, sel, k + 1) = [Cleared(before, leaf, sel, k) EXCEPT ![node][slot] = Zero]
      <4> HIDE DEF leaf
      <4>1. /\ \A j \in 0 .. TreeHeight + 1 : Cleared(before, leaf, sel, j) \in Trees
            /\ \A j \in 0 .. TreeHeight : sel[j + 1] \in Slots =>
                  Cleared(before, leaf, sel, j + 1) =
                      WithoutSlot(Cleared(before, leaf, sel, j), PathOf(leaf)[j + 1], sel[j + 1])
        BY <1>2, <1>3, ClearedFacts
      <4> QED  BY <1>6, <1>8, <3>1, <4>1, Zenon DEF WithoutSlot
    <3> HIDE DEF node, slot
    <3> QED  BY <1>4, <2>1, <3>2
  <2>3. req' = ClearOf(asked, SubSeq(sel, (k + 1) + 1, n))
    <3>1. req' = ClearOf(asked, Tail(req.selections))
      BY <1>4, <2>1 DEF ClearOf
    <3> QED  BY <1>6, <3>1
  <2>4. k + 1 \in 0 .. n /\ \A i \in 1 .. k + 1 : sel[i] \in Slots
    <3>1. \A i \in 1 .. k + 1 : i \in 1 .. k \/ i = k + 1
      BY <1>6
    <3> QED  BY <1>4, <1>6, <1>8, <3>1, Constants
  <2>5. Clearing(tree', before, asked, req')
    <3>1. \E j \in 0 .. TreeHeight + 1 :
            /\ tree' = Cleared(before, asked.leaf, asked.selections, j)
            /\ \A i \in 1 .. j : asked.selections[i] \in Slots
            /\ req' = ClearOf(asked, SubSeq(asked.selections, j + 1, TreeHeight + 1))
      BY <2>2, <2>3, <2>4, Zenon DEF sel
    <3> QED  BY <3>1, Zenon DEF Clearing
  <2>6. LosesNothing(tree', before, asked)
    <3>1. CASE k = TreeHeight
      <4>1. tree' = Done(before, asked)
        BY <1>2, <2>2, <3>1 DEF Done, sel
      <4> QED  BY <1>2, <4>1 DEF LosesNothing
    <3>2. CASE k # TreeHeight
      <4>1. k + 1 \in 1 .. TreeHeight
        BY <1>6, <3>2, Constants
      <4>2. \E j \in 1 .. TreeHeight : tree' = Cleared(before, asked.leaf, asked.selections, j)
        BY <2>2, <4>1, Zenon DEF sel
      <4> QED  BY <1>2, <4>2, Zenon DEF LosesNothing
    <3> QED  BY <3>1, <3>2
  <2> QED  BY <1>1, <1>2, <2>1, <2>2, <2>5, <2>6, OnTheWayStep
<1>9. CASE slot \notin Slots
  <2>1. tree' = tree /\ req' = NoMsg /\ spc' = "left" /\ resp' = resp
    BY <1>6, <1>9 DEF ClearSlot, Refuse, Consume, Leave
  <2> QED  BY <1>1, <2>1, QuietStep
<1> QED  BY <1>8, <1>9

LEMMA AckClearPathKeeps ==
    ASSUME OnionStoreInv, AckClearPath, UNCHANGED <<asked, before>>
    PROVE  OnionStoreInv'
<1>1. spc = "clear" /\ req.selections = << >> /\ tree' = tree /\ Answer(Ack)
  BY DEF AckClearPath
<1>2. /\ asked.cmd = "C" /\ WellAsked(asked) /\ tree \in Trees /\ resp = NoMsg
      /\ Clearing(tree, before, asked, req)
  BY <1>1 DEF OnionStoreInv
<1> DEFINE n == TreeHeight + 1
           sel == asked.selections
<1>3. PICK k \in 0 .. n :
         tree = Cleared(before, asked.leaf, sel, k) /\ req = ClearOf(asked, SubSeq(sel, k + 1, n))
  BY <1>2, Zenon DEF Clearing
<1>4. k = n
  <2>1. sel \in [1 .. n -> Nat] /\ n \in Nat
    BY <1>2, Constants DEF WellAsked
  <2>2. SubSeq(sel, k + 1, n) = << >>
    BY <1>1, <1>3 DEF ClearOf
  <2> HIDE DEF sel, n
  <2>3. sel \in Seq(Nat) /\ Len(sel) = n
    BY <2>1
  <2>4. SUFFICES ASSUME k # n PROVE FALSE
    OBVIOUS
  <2>5. k \in Nat /\ k + 1 <= n
    BY <2>1, <2>4
  <2>6. Len(SubSeq(sel, k + 1, n)) = n - k
    BY <2>1, <2>3, <2>5
  <2>7. Len(<< >>) = 0
    OBVIOUS
  <2> QED  BY <2>1, <2>2, <2>5, <2>6, <2>7
<1>5. tree = Done(before, asked)
  BY <1>2, <1>3, <1>4 DEF Done
<1>6. Ack.cmd = "K"
  BY DEF Ack
<1>7. TrueAnswer(Ack, tree', before, asked)
  BY <1>1, <1>2, <1>5, <1>6 DEF TrueAnswer
<1>8. LosesNothing(tree', before, asked)
  BY <1>1, <1>2, <1>5 DEF LosesNothing
<1> QED  BY <1>1, <1>2, <1>7, <1>8, AnswerStep

-----------------------------------------------------------------------------
LEMMA EvictTripletKeeps ==
    ASSUME OnionStoreInv, HandleEvictTriplet, UNCHANGED <<asked, before>>
    PROVE  OnionStoreInv'
<1>1. spc = "recv" /\ req.cmd = "T" /\ tree' = tree /\ bucket' = bucket
  BY DEF HandleEvictTriplet, Command
<1>2. req = asked /\ tree = before /\ resp = NoMsg /\ WellAsked(req)
  BY <1>1, AtHead
<1>3. tree \in Trees
  BY DEF OnionStoreInv
<1>4. CASE {req.source, req.left, req.right} \subseteq Nodes
  <2>1. spc' = "triplet" /\ req' = req /\ resp' = resp
    BY <1>4 DEF HandleEvictTriplet
  <2>2. req = TripletOf(req, req.updates)
    BY <1>1, <1>2, <1>4, Constants DEF WellAsked
  <2>3. Evicting(tree', before, asked, req')
    BY <1>1, <1>2, <1>4, <2>1, <2>2 DEF Evicting
  <2>4. LosesNothing(tree', before, asked)
    BY <1>1, <1>2 DEF LosesNothing
  <2> QED  BY <1>1, <1>2, <1>3, <2>1, <2>3, <2>4, OnTheWayStep
<1>5. CASE ~ ({req.source, req.left, req.right} \subseteq Nodes)
  <2>1. req' = NoMsg /\ spc' = "left" /\ resp' = resp
    BY <1>5 DEF HandleEvictTriplet, Refuse, Consume, Leave
  <2> QED  BY <1>1, <2>1, QuietStep
<1> QED  BY <1>4, <1>5

\* What the server has of a triplet while it is carried out.
LEMMA AtTriplet ==
    ASSUME OnionStoreInv, spc = "triplet"
    PROVE  /\ asked.cmd = "T" /\ Evicting(tree, before, asked, req)
           /\ asked.source = 0 /\ asked.left = 1 /\ asked.right = 2 /\ {0, 1, 2} \subseteq Nodes
           /\ asked.updates = <<asked.updates[1], asked.updates[2]>>
           /\ WellUpdate(asked.updates[1]) /\ WellUpdate(asked.updates[2])
           /\ tree \in Trees /\ before \in Trees /\ resp = NoMsg
<1>1. /\ asked.cmd = "T" /\ Evicting(tree, before, asked, req) /\ WellAsked(asked)
      /\ tree \in Trees /\ before \in Trees /\ resp = NoMsg
  BY DEF OnionStoreInv
<1>2. {asked.source, asked.left, asked.right} \subseteq Nodes
  BY <1>1 DEF Evicting
<1>3. asked.source # NoSuchNode
  BY <1>2, Constants
<1> QED  BY <1>1, <1>2, <1>3 DEF WellAsked

\* The bucket of a child is replaced, or the update refused.
LEMMA ReplaceOrRefuse ==
    ASSUME OnionStoreInv, ChildUpdate, NEW child \in Nodes, NEW u,
           req.source = 0, Head(req.updates) = u, WellUpdate(u),
           child = IF Len(req.updates) = 2 THEN req.left ELSE req.right
    PROVE  \/ tree' = tree /\ req' = NoMsg /\ spc' = "left" /\ resp' = resp
           \/ /\ tree' = [tree EXCEPT ![child] = ChildAfter(tree, 0, child, u)]
              /\ ChildAfter(tree, 0, child, u) \in Bucket /\ u \notin BadUpdates
              /\ req' = [req EXCEPT !.updates = Tail(@)] /\ spc' = spc /\ resp' = resp
<1>1. tree \in Trees /\ 0 \in Nodes
  <2>1. spc = "triplet"
    BY DEF ChildUpdate
  <2> QED  BY <2>1, AtTriplet
<1>2. CASE UpdateAccepted(0, child, u)
  <2>1. /\ tree' = [tree EXCEPT ![child] = EvalWaksman(AssembleChildSlots(0, child, u), u.bits)]
        /\ req' = [req EXCEPT !.updates = Tail(@)] /\ spc' = spc /\ resp' = resp
    BY <1>2 DEF ChildUpdate
  <2>2. /\ EvalWaksman(AssembleChildSlots(0, child, u), u.bits) = ChildAfter(tree, 0, child, u)
        /\ ChildAfter(tree, 0, child, u) \in Bucket
    BY <1>1, <1>2, UpdateCarriedOut
  <2>3. u \notin BadUpdates
    BY <1>1, <1>2, AcceptedIsGood
  <2> QED  BY <2>1, <2>2, <2>3
<1>3. CASE ~ UpdateAccepted(0, child, u)
  BY <1>3 DEF ChildUpdate, Refuse, Consume, Leave
<1> QED  BY <1>2, <1>3

LEMMA ChildUpdateKeeps ==
    ASSUME OnionStoreInv, ChildUpdate, UNCHANGED <<asked, before>>
    PROVE  OnionStoreInv'
<1>1. spc = "triplet" /\ req.updates # << >> /\ bucket' = bucket
  BY DEF ChildUpdate
<1>2. /\ asked.cmd = "T" /\ Evicting(tree, before, asked, req)
      /\ asked.source = 0 /\ asked.left = 1 /\ asked.right = 2 /\ {0, 1, 2} \subseteq Nodes
      /\ asked.updates = <<asked.updates[1], asked.updates[2]>>
      /\ WellUpdate(asked.updates[1]) /\ WellUpdate(asked.updates[2])
      /\ tree \in Trees /\ before \in Trees /\ resp = NoMsg
  BY <1>1, AtTriplet
<1> DEFINE u == asked.updates[1]
           v == asked.updates[2]
<1> HIDE DEF u, v
<1>3. asked.updates = <<u, v>> /\ WellUpdate(u) /\ WellUpdate(v)
  BY <1>2 DEF u, v
<1>4. CASE tree' = tree /\ req' = NoMsg /\ spc' = "left" /\ resp' = resp
  BY <1>1, <1>4, QuietStep
<1>5. CASE tree = before /\ req = TripletOf(asked, asked.updates)
  <2>1. req.updates = <<u, v>> /\ req.source = 0 /\ req.left = 1 /\ req = TripletOf(asked, <<u, v>>)
    BY <1>2, <1>3, <1>5 DEF TripletOf
  <2>2. Len(req.updates) = 2 /\ Head(req.updates) = u
    BY <2>1
  <2>3. SUFFICES ASSUME /\ tree' = [tree EXCEPT ![1] = ChildAfter(tree, 0, 1, u)]
                        /\ ChildAfter(tree, 0, 1, u) \in Bucket /\ u \notin BadUpdates
                        /\ req' = [req EXCEPT !.updates = Tail(@)] /\ spc' = spc /\ resp' = resp
                 PROVE  OnionStoreInv'
    BY <1>2, <1>3, <1>4, <2>1, <2>2, ReplaceOrRefuse
  <2>4. tree' \in Trees
    BY <1>2, <2>3 DEF Trees
  <2>5. tree' = WithLeft(before, asked)
    BY <1>2, <1>5, <2>3 DEF WithLeft, u
  <2>6. req' = TripletOf(asked, <<v>>)
    <3>1. Tail(<<u, v>>) = <<v>>
      OBVIOUS
    <3> QED  BY <2>1, <2>3, <3>1 DEF TripletOf
  <2>7. Evicting(tree', before, asked, req')
    BY <1>2, <2>3, <2>5, <2>6 DEF Evicting, u, v
  <2>8. LosesNothing(tree', before, asked)
    BY <1>2, <2>3, <2>5 DEF LosesNothing, u
  <2> QED  BY <1>1, <1>2, <2>3, <2>4, <2>7, <2>8, OnTheWayStep
<1>6. CASE tree = WithLeft(before, asked) /\ req = TripletOf(asked, <<v>>) /\ u \notin BadUpdates
  <2>1. req.updates = <<v>> /\ req.source = 0 /\ req.right = 2
    BY <1>2, <1>6 DEF TripletOf
  <2>2. Len(req.updates) # 2 /\ Head(req.updates) = v
    BY <2>1
  <2>3. SUFFICES ASSUME /\ tree' = [tree EXCEPT ![2] = ChildAfter(tree, 0, 2, v)]
                        /\ ChildAfter(tree, 0, 2, v) \in Bucket /\ v \notin BadUpdates
                        /\ req' = [req EXCEPT !.updates = Tail(@)] /\ spc' = spc /\ resp' = resp
                 PROVE  OnionStoreInv'
    BY <1>2, <1>3, <1>4, <2>1, <2>2, ReplaceOrRefuse
  <2>4. tree' \in Trees
    BY <1>2, <2>3 DEF Trees
  <2>5. ChildAfter(tree, 0, 2, v) = ChildAfter(before, 0, 2, v)
    <3>1. tree[0] = before[0] /\ tree[2] = before[2]
      BY <1>2, <1>6 DEF WithLeft, Trees
    <3> QED  BY <3>1, Zenon DEF ChildAfter
  <2>6. tree' = WithBoth(before, asked)
    BY <1>2, <1>6, <2>3, <2>5 DEF WithBoth, v
  <2>7. req' = TripletOf(asked, << >>)
    <3>1. Tail(<<v>>) = << >>
      OBVIOUS
    <3> QED  BY <1>6, <2>1, <2>3, <3>1 DEF TripletOf
  <2>8. Evicting(tree', before, asked, req')
    BY <1>2, <1>6, <2>3, <2>6, <2>7 DEF Evicting, u, v
  <2>9. LosesNothing(tree', before, asked)
    BY <1>2, <1>6, <2>3, <2>6 DEF LosesNothing, u, v
  <2> QED  BY <1>1, <1>2, <2>3, <2>4, <2>8, <2>9, OnTheWayStep
<1>7. CASE req = TripletOf(asked, << >>)
  BY <1>1, <1>7 DEF TripletOf
<1> QED  BY <1>2, <1>5, <1>6, <1>7 DEF Evicting, u, v

LEMMA ClearSourceKeeps ==
    ASSUME OnionStoreInv, ClearSource, UNCHANGED <<asked, before>>
    PROVE  OnionStoreInv'
<1>1. /\ spc = "triplet" /\ req.updates = << >> /\ Answer(Ack)
      /\ tree' = [tree EXCEPT ![req.source] = ClearedBucket]
  BY DEF ClearSource
<1>2. /\ asked.cmd = "T" /\ Evicting(tree, before, asked, req) /\ asked.source = 0
      /\ asked.updates = <<asked.updates[1], asked.updates[2]>>
      /\ tree \in Trees /\ resp = NoMsg
  BY <1>1, AtTriplet
<1>3. /\ tree = WithBoth(before, asked) /\ req = TripletOf(asked, << >>)
      /\ asked.updates[1] \notin BadUpdates /\ asked.updates[2] \notin BadUpdates
  <2>1. ASSUME req = TripletOf(asked, asked.updates) PROVE FALSE
    <3>1. req.updates = asked.updates
      BY <2>1 DEF TripletOf
    <3>2. asked.updates # << >>
      <4>1. \A x, y : <<x, y>> # << >>
        OBVIOUS
      <4> QED  BY <1>2, <4>1, Zenon
    <3> QED  BY <1>1, <3>1, <3>2, Zenon
  <2>2. ASSUME req = TripletOf(asked, <<asked.updates[2]>>) PROVE FALSE
    <3>1. req.updates = <<asked.updates[2]>>
      BY <2>2 DEF TripletOf
    <3>2. \A x : <<x>> # << >>
      OBVIOUS
    <3> QED  BY <1>1, <3>1, <3>2, Zenon
  <2> QED  BY <1>2, <2>1, <2>2 DEF Evicting
<1>4. req.source = asked.source
  BY <1>3 DEF TripletOf
<1>5. tree' \in Trees
  BY <1>1, <1>2, Constants DEF Trees
<1>6. tree' = Evicted(before, asked) /\ tree' = Done(before, asked)
  BY <1>1, <1>2, <1>3, <1>4 DEF Evicted, Done
<1>7. Ack.cmd = "K"
  BY DEF Ack
<1>8. TrueAnswer(Ack, tree', before, asked)
  BY <1>2, <1>6, <1>7 DEF TrueAnswer
<1>9. LosesNothing(tree', before, asked)
  BY <1>2, <1>3, <1>6 DEF LosesNothing
<1> QED  BY <1>1, <1>2, <1>5, <1>8, <1>9, AnswerStep

-----------------------------------------------------------------------------
LEMMA LeafRefreshKeeps ==
    ASSUME OnionStoreInv, HandleLeafRefresh, UNCHANGED <<asked, before>>
    PROVE  OnionStoreInv'
<1>1. spc = "recv" /\ req.cmd = "L" /\ tree' = tree
  BY DEF HandleLeafRefresh, Command
<1>2. req = asked /\ tree = before /\ resp = NoMsg
  BY <1>1, AtHead
<1>3. tree \in Trees /\ before \in Trees /\ WellAsked(asked)
  BY DEF OnionStoreInv
<1> DEFINE m == [cmd |-> "B", slots |-> tree[req.node]]
<1>4. CASE req.node \in Nodes /\ SendReply(m) /\ spc' = "refresh"
  <2>1. req' = NoMsg /\ bucket' = req.node /\ (resp' = m \/ resp' = resp)
    BY <1>4 DEF HandleLeafRefresh, Consume, SendReply
  <2>2. TrueAnswer(resp', tree', before', asked')
    <3>1. m.cmd = "B" /\ m.slots = before[asked.node] /\ NoMsg.cmd = "none"
      BY <1>2 DEF NoMsg
    <3>2. TrueAnswer(m, tree, before, asked)
      BY <1>1, <1>2, <3>1, Zenon DEF TrueAnswer
    <3>3. TrueAnswer(NoMsg, tree, before, asked)
      BY <3>1 DEF TrueAnswer
    <3> HIDE DEF m
    <3> QED  BY <1>1, <1>2, <2>1, <3>2, <3>3
  <2>3. LosesNothing(tree', before', asked')
    BY <1>1, <1>2 DEF LosesNothing
  <2>4. AnswersAreTrue' /\ HalfDoneLosesNothing'
    BY <2>2, <2>3, Promises
  <2>5. WellAsked(asked)'
    BY <1>3 DEF WellAsked
  <2>6. bucket' \in Nodes /\ asked'.cmd = "L" /\ bucket' = asked'.node
    BY <1>1, <1>2, <1>4, <2>1
  <2> HIDE DEF m
  <2> QED  BY <1>1, <1>3, <1>4, <2>1, <2>4, <2>5, <2>6 DEF OnionStoreInv, ServerPoints
<1>5. CASE ~ (req.node \in Nodes /\ SendReply(m) /\ spc' = "refresh")
  <2>1. req' = NoMsg /\ spc' = "left" /\ resp' = resp
    BY <1>5 DEF HandleLeafRefresh, Refuse, Consume, Leave
  <2> QED  BY <1>1, <2>1, QuietStep
<1> QED  BY <1>4, <1>5

LEMMA RefreshKeeps ==
    ASSUME OnionStoreInv, RefreshLeaf, UNCHANGED <<asked, before>>
    PROVE  OnionStoreInv'
<1>1. spc = "refresh" /\ req.cmd # "none" /\ bucket' = bucket
  BY DEF RefreshLeaf
<1>2. req # NoMsg
  BY <1>1 DEF NoMsg
<1>3. /\ req = asked /\ tree = before /\ resp = NoMsg /\ WellAsked(asked) /\ tree \in Trees
      /\ bucket \in Nodes /\ (asked.cmd = "F" => bucket = asked.node)
  BY <1>1, <1>2 DEF OnionStoreInv
<1>4. CASE req.cmd = "F" /\ ~ EvalThrows(req.slots, req.bits)
  <2> DEFINE slots == asked.slots
             p == asked.perm
             shuffled == [d \in Slots |-> slots[p[d]]]
  <2>1. tree' = [tree EXCEPT ![bucket] = EvalWaksman(slots, asked.bits)] /\ Answer(Ack)
    BY <1>3, <1>4 DEF RefreshLeaf
  <2>2. slots \in Bucket /\ p \in Shuffles /\ (asked.bits = GenerateSwapBits(p) \/ asked.bits = << >>)
    BY <1>3, <1>4 DEF WellAsked
  <2>3. asked.bits # << >>
    <3>1. Len(slots) = BucketSlots
      BY <2>2, Constants DEF Bucket, Slots
    <3>2. ~ (BucketSlots < 2) /\ Len(asked.bits) = NumGates(BucketSlots)
      BY <1>3, <1>4, <3>1 DEF EvalThrows
    <3>3. NumGates(BucketSlots) >= 1
      BY <3>2, Constants, NetworkHasGates
    <3>4. Len(<< >>) = 0
      OBVIOUS
    <3> QED  BY <3>2, <3>3, <3>4
  <2>4. EvalWaksman(slots, GenerateSwapBits(p)) = shuffled
    <3> HIDE DEF slots, p
    <3> QED  BY <2>2, ShuffleCarriedOut
  <2>5. shuffled \in Bucket
    BY <2>2, ShuffleFacts DEF Bucket
  <2> HIDE DEF shuffled
  <2>6. tree' = [tree EXCEPT ![bucket] = shuffled]
    BY <2>1, <2>2, <2>3, <2>4
  <2>7. tree' \in Trees
    BY <1>3, <2>5, <2>6 DEF Trees
  <2>8. tree' = Done(before, asked)
    BY <1>3, <1>4, <2>6 DEF Done, shuffled
  <2>9. Ack.cmd = "K"
    BY DEF Ack
  <2>10. TrueAnswer(Ack, tree', before, asked)
    BY <1>3, <1>4, <2>8, <2>9 DEF TrueAnswer
  <2>11. LosesNothing(tree', before, asked)
    BY <1>3, <1>4, <2>8 DEF LosesNothing
  <2> QED  BY <1>3, <2>1, <2>7, <2>10, <2>11, AnswerStep
<1>5. CASE ~ (req.cmd = "F" /\ ~ EvalThrows(req.slots, req.bits))
  <2>1. tree' = tree /\ req' = NoMsg /\ spc' = "left" /\ resp' = resp
    BY <1>5 DEF RefreshLeaf, Refuse, Consume, Leave
  <2> QED  BY <1>1, <2>1, QuietStep
<1> QED  BY <1>4, <1>5

-----------------------------------------------------------------------------
\* A half-done command still has its request, so nothing is asked meanwhile.
LEMMA HalfDoneHasRequest ==
    ASSUME OnionStoreInv, req = NoMsg
    PROVE  spc \notin {"clear", "triplet"}
<1>1. NoMsg.cmd = "none"
  BY DEF NoMsg
<1>2. ASSUME spc = "clear" PROVE FALSE
  <2>1. Clearing(tree, before, asked, req)
    BY <1>2 DEF OnionStoreInv
  <2>2. req.cmd = "C"
    BY <2>1 DEF Clearing, ClearOf
  <2> QED  BY <1>1, <2>2
<1>3. ASSUME spc = "triplet" PROVE FALSE
  <2>1. Evicting(tree, before, asked, req)
    BY <1>3 DEF OnionStoreInv
  <2>2. req.cmd = "T"
    BY <2>1 DEF Evicting, TripletOf
  <2> QED  BY <1>1, <2>2
<1> QED  BY <1>2, <1>3

LEMMA AskKeeps ==
    ASSUME OnionStoreInv, Ask
    PROVE  OnionStoreInv'
<1>1. /\ req = NoMsg /\ resp = NoMsg /\ resp' = resp /\ asked.cmd \in {"none", "L"}
      /\ tree' = tree /\ spc' = spc /\ bucket' = bucket /\ before' = tree
  BY DEF Ask, serverVars
<1>2. PICK m \in IF asked.cmd = "L" THEN Refreshes(asked.node) \cup {[cmd |-> "Q"]} ELSE SentRequests :
         SendRequest(m) /\ asked' = m
  BY DEF Ask
<1>3. req' = m \/ req' = NoMsg
  BY <1>1, <1>2 DEF SendRequest
<1>4. WellAsked(m) /\ (m \in Refreshes(asked.node) => m.cmd = "F" /\ m.node = asked.node)
  BY <1>2, SentWellAsked
<1>5. spc \notin {"clear", "triplet"} /\ tree \in Trees /\ spc \in ServerPoints
  BY <1>1, HalfDoneHasRequest DEF OnionStoreInv
<1>6. spc = "refresh" => /\ bucket \in Nodes /\ m.cmd \in {"L", "F", "Q"}
                         /\ m.cmd # "Q" => bucket = m.node
  <2> SUFFICES ASSUME spc = "refresh"
               PROVE  bucket \in Nodes /\ m.cmd \in {"L", "F", "Q"} /\ (m.cmd # "Q" => bucket = m.node)
    OBVIOUS
  <2>1. bucket \in Nodes /\ asked.cmd = "L" /\ bucket = asked.node
    BY <1>1 DEF OnionStoreInv
  <2>2. m \in Refreshes(asked.node) \/ m.cmd = "Q"
    BY <1>2, <2>1
  <2> QED  BY <1>4, <2>1, <2>2
<1>7. AnswersAreTrue' /\ HalfDoneLosesNothing'
  <2>1. resp'.cmd = "none"
    BY <1>1 DEF NoMsg
  <2>2. TrueAnswer(resp', tree', before', asked')
    BY <2>1 DEF TrueAnswer
  <2>3. LosesNothing(tree', before', asked')
    BY <1>1 DEF LosesNothing
  <2> QED  BY <2>2, <2>3, Promises
<1>8. WellAsked(asked)'
  BY <1>2, <1>4 DEF WellAsked
<1> QED  BY <1>1, <1>2, <1>3, <1>5, <1>6, <1>7, <1>8 DEF OnionStoreInv

LEMMA TakeReplyKeeps ==
    ASSUME OnionStoreInv, TakeReply
    PROVE  OnionStoreInv'
<1>1. /\ resp # NoMsg /\ resp' = NoMsg /\ req' = req /\ before' = tree
      /\ asked' = IF asked.cmd = "L" THEN asked ELSE NoMsg
      /\ tree' = tree /\ spc' = spc /\ bucket' = bucket
  BY DEF TakeReply, serverVars
<1>2. /\ req = NoMsg /\ spc \notin {"clear", "triplet"} /\ tree \in Trees /\ spc \in ServerPoints
      /\ WellAsked(asked)
      /\ spc = "refresh" => bucket \in Nodes /\ asked.cmd = "L" /\ bucket = asked.node
  BY <1>1 DEF OnionStoreInv
<1>3. AnswersAreTrue' /\ HalfDoneLosesNothing'
  <2>1. resp'.cmd = "none"
    BY <1>1 DEF NoMsg
  <2>2. TrueAnswer(resp', tree', before', asked')
    BY <2>1 DEF TrueAnswer
  <2>3. LosesNothing(tree', before', asked')
    BY <1>1 DEF LosesNothing
  <2> QED  BY <2>2, <2>3, Promises
<1>4. WellAsked(asked)'
  <2>1. WellAsked(NoMsg)
    BY DEF WellAsked, NoMsg
  <2>2. WellAsked(asked')
    BY <1>1, <1>2, <2>1
  <2> QED  BY <2>2 DEF WellAsked
<1> QED  BY <1>1, <1>2, <1>3, <1>4 DEF OnionStoreInv

LEMMA ServeKeeps ==
    ASSUME OnionStoreInv, Serve
    PROVE  OnionStoreInv'
<1>1. UNCHANGED <<asked, before>> /\ ServerStep
  BY DEF Serve
<1>2. CASE HandleAccess \/ HandleReadBucket \/ HandleWriteSlot
  BY <1>1, <1>2, AccessKeeps, ReadBucketKeeps, WriteSlotKeeps
<1>3. CASE HandleClearPath \/ ClearSlot \/ AckClearPath
  BY <1>1, <1>3, ClearPathKeeps, ClearSlotKeeps, AckClearPathKeeps
<1>4. CASE HandleEvictTriplet \/ ChildUpdate \/ ClearSource
  BY <1>1, <1>4, EvictTripletKeeps, ChildUpdateKeeps, ClearSourceKeeps
<1>5. CASE HandleLeafRefresh \/ RefreshLeaf
  BY <1>1, <1>5, LeafRefreshKeeps, RefreshKeeps
<1>6. CASE HandleQuit \/ ServerRecvThrows
  <2>1. tree' = tree /\ req' = NoMsg /\ spc' = "left" /\ resp' = resp
    BY <1>6 DEF HandleQuit, ServerRecvThrows, Refuse, Consume, Leave
  <2> QED  BY <1>1, <2>1, QuietStep
<1> QED  BY <1>1, <1>2, <1>3, <1>4, <1>5, <1>6 DEF ServerStep

LEMMA OnionStoreInvStep == OnionStoreInv /\ [Next]_vars => OnionStoreInv'
<1> SUFFICES ASSUME OnionStoreInv, [Next]_vars PROVE OnionStoreInv'
  OBVIOUS
<1>1. CASE Ask \/ TakeReply
  BY <1>1, AskKeeps, TakeReplyKeeps
<1>2. CASE Serve
  BY <1>2, ServeKeeps
<1>3. CASE HangUp
  BY <1>3, QuietStep DEF HangUp, ConnectionLost, serverVars
<1>4. CASE Owner
  BY <1>4, QuietStep DEF Owner, StartHandleRequests, DestroyServer
<1>5. CASE StopCalled
  BY <1>5, QuietStep DEF StopCalled, Stop
<1>6. CASE UNCHANGED vars
  BY <1>6, QuietStep DEF vars, serverVars
<1> QED  BY <1>1, <1>2, <1>3, <1>4, <1>5, <1>6 DEF Next, Terminated

\* Whatever a client asks, in whatever order, and whenever it goes away: the
\* server knows at each point of a handler what was asked and how far it has got.
THEOREM OnionStoreInvariance == Spec => []OnionStoreInv
BY InitOnionStoreInv, OnionStoreInvStep, PTL DEF Spec

\* An acknowledgement means that the whole command has been carried out, the
\* permutations of the swap bits included, and what an access, a bucket read or
\* a leaf refresh is told is what the tree holds.
THEOREM AnswersTrue == Spec => []AnswersAreTrue
<1>1. OnionStoreInv => AnswersAreTrue
  BY DEF OnionStoreInv
<1> QED  BY <1>1, OnionStoreInvariance, PTL

\* Refused or cut off half way, a command leaves the first of its effects and no
\* others; the source of a triplet keeps its blocks until both children have
\* theirs.
THEOREM HalfDoneIsPrefix == Spec => []HalfDoneLosesNothing
<1>1. OnionStoreInv => HalfDoneLosesNothing
  BY DEF OnionStoreInv
<1> QED  BY <1>1, OnionStoreInvariance, PTL
=============================================================================
