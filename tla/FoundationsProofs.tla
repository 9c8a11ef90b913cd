------------------------- MODULE FoundationsProofs --------------------------
(***************************************************************************)
(* What the foundation run states, for every value of the constants: the   *)
(* geometry of the tree of any height, the swap network of any size, the   *)
(* counter of any number of bytes, and vectors of any bytes through a      *)
(* kernel that holds any number of them.                                   *)
(***************************************************************************)
EXTENDS MCFoundations, FoundationsLemmas, FiniteSetTheorems, SequenceTheorems

\* The example that climbs two paths stays an example of that kind.
ClimbInv ==
    /\ example.part \in {"paths", "network", "counter", "stream"}
    /\ example.part = "paths" =>
         /\ example \in [part : {"paths"}, leaf : Leaves, other : Leaves, level : Levels]

LEMMA ClimbInvariance == Spec => []ClimbInv
<1>1. Init => ClimbInv
  <2> SUFFICES ASSUME Init PROVE ClimbInv
    OBVIOUS
  <2>1. CASE example \in Climbs
    BY <2>1, TreeHeightAssumption DEF Climbs, ClimbInv, Levels
  <2>2. CASE example \in Shuffles
    <3>1. example.part = "network"
      BY <2>2 DEF Shuffles
    <3> QED  BY <3>1 DEF ClimbInv
  <2>3. CASE example \in Counters
    BY <2>3 DEF Counters, ClimbInv
  <2>4. CASE example = [part |-> "stream"]
    BY <2>4 DEF ClimbInv
  <2> QED  BY <2>1, <2>2, <2>3, <2>4 DEF Init
<1>2. ClimbInv /\ [Next]_vars => ClimbInv'
  <2> SUFFICES ASSUME ClimbInv, [Next]_vars PROVE ClimbInv'
    OBVIOUS
  <2>1. CASE Climb
    <3>1. /\ example \in [part : {"paths"}, leaf : Leaves, other : Leaves, level : Levels]
          /\ example.level + 1 \in Levels
      BY <2>1, TreeHeightAssumption DEF ClimbInv, Climb, Levels
    <3>2. example' \in [part : {"paths"}, leaf : Leaves, other : Leaves, level : Levels]
      BY <2>1, <3>1 DEF Climb
    <3> QED  BY <3>2 DEF ClimbInv
  <2>2. CASE UNCHANGED example
    BY <2>2 DEF ClimbInv
  <2> QED  BY <2>1, <2>2 DEF Next, Stream, Done, vars
<1> QED  BY <1>1, <1>2, PTL DEF Spec

\* The client's test for a bucket of the path it evicts to is the question
\* whether that bucket lies on the block's own path: no block is put where a
\* later access of it would not look, and none is kept back that may go.
THEOREM ShiftsFindSharedBuckets == Spec => []PathsMeetWhereShiftsDo
<1>1. ClimbInv => PathsMeetWhereShiftsDo
  BY CanPlaceIffShared DEF ClimbInv, PathsMeetWhereShiftsDo
<1> QED  BY <1>1, ClimbInvariance, PTL

\* Whichever way a class walks the tree, up from the leaf or down from the root,
\* it names the same bucket at the same level, inside the tree.
THEOREM WalksAgree == Spec => []DownAgreesWithUp
<1>1. ClimbInv => DownAgreesWithUp
  <2> SUFFICES ASSUME ClimbInv, example.part = "paths"
               PROVE  LET node == GetPathIndices(example.leaf)[example.level + 1]
                      IN  /\ GetBucketIndex(example.leaf, TreeHeight - example.level) = node
                          /\ PathFromRoot(example.leaf)[TreeHeight - example.level + 1] = node
                          /\ node \in Nodes
                          /\ example.level = TreeHeight => node = 0
                          /\ GetNodeLevel(node) = TreeHeight - example.level
                          /\ IsBucketOnLeafPath(node, example.other) <=> OnPath(node, example.other)
    BY DEF DownAgreesWithUp
  <2> DEFINE leaf == example.leaf
             i == example.level
             node == PathNode(leaf, i)
  <2>1. leaf \in Leaves /\ example.other \in Leaves /\ i \in Levels
    BY DEF ClimbInv
  <2>2. GetPathIndices(leaf)[i + 1] = node
    <3>1. i + 1 \in 1 .. TreeHeight + 1 /\ (i + 1) - 1 = i
      BY <2>1, TreeHeightAssumption DEF Levels
    <3> QED  BY <3>1 DEF GetPathIndices
  <2>3. /\ TreeHeight - i \in Levels /\ TreeHeight - (TreeHeight - i) = i
        /\ TreeHeight - i + 1 \in 1 .. TreeHeight + 1
        /\ TreeHeight + 1 - (TreeHeight - i + 1) = i
    BY <2>1, TreeHeightAssumption DEF Levels
  <2> HIDE DEF leaf, i
  <2>4. GetBucketIndex(leaf, TreeHeight - i) = node
    BY <2>1, <2>3, BucketIndexIsPathNode
  <2>5. PathFromRoot(leaf)[TreeHeight - i + 1] = node
    BY <2>1, <2>3, PathFromRootNodes
  <2>6. node \in Nodes /\ (i = TreeHeight => node = 0)
    BY <2>1, PathNodeInTree, PathReachesRoot
  <2>7. /\ GetNodeLevel(node) = TreeHeight - i
        /\ IsBucketOnLeafPath(node, example.other) <=> OnPath(node, example.other)
    BY <2>1, NodeLevelOfPathNode
  <2> QED  BY <2>2, <2>4, <2>5, <2>6, <2>7 DEF leaf, i
<1> QED  BY <1>1, ClimbInvariance, PTL

\* From wherever its counter stands, Onion Ring ORAM evicts once through each
\* bucket of a level before it comes to one again: in a tree of any height, and on
\* every level, 2^l evictions in a row reach 2^l buckets.
THEOREM EvictionsReachEveryBucket == Spec => []EvictionsSpread
<1>1. ClimbInv => EvictionsSpread
  <2> DEFINE x == example.leaf
             l == example.level
             N == Pow2(l)
             v(k) == (x + k) % NumLeaves
             bucket(k) == GetBucketIndex(ReverseBits(v(k), TreeHeight), l)
             K == 0 .. N - 1
             T == {bucket(k) : k \in K}
             f == [k \in K |-> bucket(k)]
  <2> SUFFICES ASSUME ClimbInv, example.part = "paths" PROVE Cardinality(T) = N
    BY DEF EvictionsSpread
  <2>1. x \in Leaves /\ l \in Levels
    BY DEF ClimbInv
  <2>2. l \in Nat /\ TreeHeight \in Nat /\ TreeHeight - l \in 0 .. TreeHeight /\ TreeHeight - (TreeHeight - l) = l
    BY <2>1, TreeHeightAssumption DEF Levels
  <2>3. N \in Nat /\ N >= 1 /\ NumLeaves \in Nat /\ NumLeaves >= 1
    BY <2>2, Pow2Step DEF NumLeaves
  <2> HIDE DEF x, l
  <2>4. ASSUME NEW k \in K
        PROVE  bucket(k) = N - 1 + ReverseBits(v(k), l) /\ ReverseBits(v(k), l) \in Nat
    <3> DEFINE w == ReverseBits(v(k), TreeHeight)
    <3>1. v(k) \in Nat
      <4>1. x + k \in Nat
        BY <2>1, <2>3 DEF Leaves
      <4> QED  BY <2>3, <4>1, QuotientExists
    <3> HIDE DEF v
    <3>2. w \in Leaves
      BY <2>2, <3>1, ReverseBitsBound DEF Leaves, NumLeaves
    <3>3. GetBucketIndex(w, l) = PathNode(w, TreeHeight - l)
      <4> HIDE DEF w
      <4> QED  BY <2>1, <3>2, BucketIndexIsPathNode
    <3>4. PathNode(w, TreeHeight - l) = Pow2(TreeHeight - (TreeHeight - l)) - 1 + ShiftRight(w, TreeHeight - l)
      <4> HIDE DEF w
      <4> QED  BY <2>2, <3>2, PathNodeClosedForm DEF Levels
    <3>5. ShiftRight(w, TreeHeight - l) = ReverseBits(v(k), TreeHeight - (TreeHeight - l))
      BY <2>2, <3>1, ShiftOfReversed
    <3>6. ReverseBits(v(k), l) \in Nat
      BY <2>2, <3>1, ReverseBitsStep
    <3> QED  BY <2>2, <3>3, <3>4, <3>5, <3>6
  <2>5. ASSUME NEW j \in K, NEW k \in K, bucket(j) = bucket(k) PROVE j = k
    <3>1. ReverseBits(v(j), l) = ReverseBits(v(k), l)
      <4> HIDE DEF v, bucket, N
      <4> QED  BY <2>3, <2>4, <2>5
    <3>2. ~ (j < k) /\ ~ (k < j)
      BY <2>1, <3>1, ReversedApart
    <3>3. j \in Nat /\ k \in Nat
      BY <2>3
    <3> QED  BY <3>2, <3>3
  <2>6. IsFiniteSet(K) /\ Cardinality(K) = N
    <3>1. 0 \in Int /\ N - 1 \in Int /\ ~ (0 > N - 1) /\ (N - 1) - 0 + 1 = N
      BY <2>3
    <3> QED  BY <3>1, FS_Interval
  <2> HIDE DEF bucket, K, N
  <2>7. f \in Surjection(K, T)
    BY DEF Surjection
  <2>8. f \in Injection(K, T)
    BY <2>5 DEF Injection, IsInjective
  <2> HIDE DEF f, T
  <2>9. Cardinality(T) = Cardinality(K)
    BY <2>6, <2>7, <2>8, FS_Surjection
  <2> QED  BY <2>6, <2>9
<1> QED  BY <1>1, ClimbInvariance, PTL

\* An example that permutes, or counts, stays the one it was.
StillInv ==
    /\ example.part = "network" => example \in Shuffles
    /\ example.part = "counter" => example \in Counters

LEMMA StillInvariance == Spec => []StillInv
<1>1. Init => StillInv
  <2>1. ASSUME Init, example.part = "network" PROVE example \in Shuffles
    <3>1. example \notin Climbs /\ example \notin Counters /\ example # [part |-> "stream"]
      BY <2>1 DEF Climbs, Counters
    <3> QED  BY <2>1, <3>1 DEF Init
  <2>2. ASSUME Init, example.part = "counter" PROVE example \in Counters
    <3>1. example \notin Climbs /\ example \notin Shuffles /\ example # [part |-> "stream"]
      BY <2>2 DEF Climbs, Shuffles
    <3> QED  BY <2>2, <3>1 DEF Init
  <2> QED  BY <2>1, <2>2 DEF StillInv
<1>2. StillInv /\ [Next]_vars => StillInv'
  <2> SUFFICES ASSUME StillInv, [Next]_vars PROVE StillInv'
    OBVIOUS
  <2>1. CASE Climb
    <3>1. example.part = "paths" /\ example' = [example EXCEPT !.level = example.level + 1]
      BY <2>1 DEF Climb
    <3>2. example'.part = "paths"
      BY <3>1
    <3> QED  BY <3>2 DEF StillInv
  <2>2. CASE UNCHANGED example
    BY <2>2 DEF StillInv, Shuffles, Counters
  <2> QED  BY <2>1, <2>2 DEF Next, Stream, Done, vars
<1> QED  BY <1>1, <1>2, PTL DEF Spec

\* The fixed network of n phases realises every permutation of n places: the
\* synthesis of its bits never throws, EvalWaksman takes them, and the data end
\* where the permutation sends them.
THEOREM NetworkPermutes == Spec => []SwapsAnyPermutation
<1>1. ASSUME NEW n \in Sizes, NEW p \in [1 .. n -> 1 .. n], IsPermutation(p, Len(p))
      PROVE  /\ CanSynthesize(p)
             /\ ~ EvalThrows(p, GenerateSwapBits(p))
             /\ EvalWaksman([k \in 1 .. Len(p) |-> k], GenerateSwapBits(p)) = p
  <2>1. n \in Nat \ {0} /\ n >= 2
    BY SizesAssumption
  <2>2. Len(p) = n /\ IsPermutation(p, n)
    <3>1. Len(p) = n
      BY <2>1
    <3> QED  BY <1>1, <3>1
  <2> DEFINE data == [k \in 1 .. n |-> k]
  <2>3. data \in [1 .. n -> 1 .. n]
    OBVIOUS
  <2>4. \A k \in 1 .. n : data[p[k]] = p[k]
    OBVIOUS
  <2> HIDE DEF data
  <2>5. /\ CanSynthesize(p)
        /\ Len(GenerateSwapBits(p)) = NumGates(n)
        /\ EvalWaksman(data, GenerateSwapBits(p)) = [d \in 1 .. n |-> data[p[d]]]
    <3> DEFINE D == 1 .. n
    <3>1. n \in Nat \ {0} /\ p \in [1 .. n -> 1 .. n] /\ IsPermutation(p, n) /\ data \in [1 .. n -> D]
      BY <2>1, <2>2, <2>3
    <3> HIDE DEF D
    <3>2. \A E : \A d \in [1 .. n -> E] :
              /\ CanSynthesize(p)
              /\ Len(GenerateSwapBits(p)) = NumGates(n)
              /\ EvalWaksman(d, GenerateSwapBits(p)) = [k \in 1 .. n |-> d[p[k]]]
      BY <3>1, WaksmanPermutes
    <3> QED  BY <3>1, <3>2, Zenon
  <2>6. [d \in 1 .. n |-> data[p[d]]] = p
    BY <2>4
  <2>7. ~ EvalThrows(p, GenerateSwapBits(p))
    BY <2>1, <2>2, <2>5 DEF EvalThrows
  <2> QED  BY <2>2, <2>5, <2>6, <2>7 DEF data
<1>2. StillInv => SwapsAnyPermutation
  <2> SUFFICES ASSUME StillInv, example.part = "network"
               PROVE  LET p == example.perm
                      IN  /\ CanSynthesize(p)
                          /\ ~ EvalThrows(p, GenerateSwapBits(p))
                          /\ EvalWaksman([k \in 1 .. Len(p) |-> k], GenerateSwapBits(p)) = p
    BY DEF SwapsAnyPermutation
  <2>1. PICK q \in {r \in UNION {[1 .. n -> 1 .. n] : n \in Sizes} : IsPermutation(r, Len(r))} :
               example = [part |-> "network", perm |-> q]
    BY DEF StillInv, Shuffles
  <2>2. example.perm = q
    BY <2>1
  <2>3. PICK n \in Sizes : q \in [1 .. n -> 1 .. n]
    BY <2>1
  <2>4. /\ CanSynthesize(q)
        /\ ~ EvalThrows(q, GenerateSwapBits(q))
        /\ EvalWaksman([k \in 1 .. Len(q) |-> k], GenerateSwapBits(q)) = q
    BY <1>1, <2>1, <2>3
  <2> QED  BY <2>2, <2>4
<1> QED  BY <1>2, StillInvariance, PTL

-----------------------------------------------------------------------------
\* The powers of the base, and the bytes.
LEMMA PowerStep ==
    /\ Base \in Nat /\ Base >= 2
    /\ Power(0) = 1
    /\ \A n \in Nat : Power(n) \in Nat /\ Power(n) >= 1 /\ Power(n + 1) = Base * Power(n)
<1> DEFINE times == [x \in Nat |-> Base * x]
           S == Nat \ {0}
<1>1. Base \in Nat /\ Base >= 2
  BY BytesAssumption
<1>2. Power(0) = 1 /\ \A n \in Nat : Power(n + 1) = times[Power(n)]
  BY IterateStep DEF Power
<1>3. \A n \in Nat : Power(n) \in S
  <2>1. \A x \in S : x \in Nat /\ Base * x \in S
    BY <1>1
  <2>2. \A x \in S : times[x] \in S
    BY <2>1
  <2>3. 1 \in S
    OBVIOUS
  <2> HIDE DEF S, times
  <2>4. \A n \in Nat : Iterate(times, 1, n) \in S
    BY <2>2, <2>3, IterateType
  <2> QED  BY <2>4 DEF Power, times
<1>4. \A n \in Nat : times[Power(n)] = Base * Power(n)
  BY <1>3
<1> HIDE DEF times
<1> QED  BY <1>1, <1>2, <1>3, <1>4

LEMMA ByteFacts == \A b \in Byte : b \in Nat /\ b <= Base - 1
BY PowerStep DEF Byte

LEMMA ProductInNat == \A x, y \in Nat : x * y \in Nat
OBVIOUS

\* v holds the numbers that the first bytes stand for.
Values(v, bytes) ==
    /\ v \in [0 .. Len(bytes) -> Nat]
    /\ v[0] = 0
    /\ \A k \in 1 .. Len(bytes) : v[k] = Base * v[k - 1] + bytes[k]
    /\ BigEndian(bytes) = v[Len(bytes)]

LEMMA BigEndianSteps ==
    ASSUME NEW bytes \in Seq(Byte)
    PROVE  \E v : Values(v, bytes)
<1> DEFINE n == Len(bytes)
           step(k, s) == IF k \in 1 .. n THEN Base * s + bytes[k] ELSE s
           g == [p \in Nat \X Nat |-> step(p[1] + 1, p[2])]
           Body(h) == [k \in 0 .. n |-> IF k = 0 THEN 0 ELSE Base * h[k - 1] + bytes[k]]
           value == CHOOSE h : h = Body(h)
<1>1. n \in Nat /\ \A k \in 1 .. n : bytes[k] \in Nat
  <2>1. n \in Nat /\ \A k \in 1 .. n : bytes[k] \in Byte
    OBVIOUS
  <2> HIDE DEF n
  <2> QED  BY <2>1, ByteFacts
<1>2. BigEndian(bytes) = value[n]
  BY Zenon DEF BigEndian
<1>3. \A k \in 1 .. n, s \in Nat : Base * s + bytes[k] \in Nat
  <2>1. \A x, y, z \in Nat : x * y + z \in Nat
    OBVIOUS
  <2> HIDE DEF n
  <2> QED  BY <1>1, <2>1, PowerStep
<1> HIDE DEF n
<1>4. ASSUME NEW k \in Nat, NEW s \in Nat PROVE step(k + 1, s) \in Nat
  BY <1>3
<1> HIDE DEF step
<1>5. g \in [Nat \X Nat -> Nat]
  BY <1>4
<1>6. PICK h : Recursion(h, Nat, 0, g)
  <2>1. 0 \in Nat
    OBVIOUS
  <2> HIDE DEF g
  <2> QED  BY <1>5, <2>1, RecursionExists, Zenon
<1>7. h \in [Nat -> Nat] /\ h[0] = 0
  BY <1>6 DEF Recursion
<1>8. ASSUME NEW k \in 1 .. n PROVE h[k] = Base * h[k - 1] + bytes[k]
  <2>1. k - 1 \in Nat /\ (k - 1) + 1 = k
    BY <1>1
  <2>2. g[<<k - 1, h[k - 1]>>] = step((k - 1) + 1, h[k - 1])
    BY <1>7, <2>1
  <2>3. h[(k - 1) + 1] = g[<<k - 1, h[k - 1]>>]
    <3> HIDE DEF g
    <3> QED  BY <1>6, <2>1 DEF Recursion
  <2> HIDE DEF g
  <2>4. h[(k - 1) + 1] = step((k - 1) + 1, h[k - 1])
    BY <2>2, <2>3
  <2> QED  BY <2>1, <2>4 DEF step
<1> HIDE DEF g
<1> DEFINE f == [k \in 0 .. n |-> h[k]]
<1>9. f = Body(f)
  <2>1. ASSUME NEW k \in 0 .. n PROVE f[k] = IF k = 0 THEN 0 ELSE Base * f[k - 1] + bytes[k]
    <3>1. CASE k = 0
      BY <1>7, <3>1
    <3>2. CASE k # 0
      <4>1. k \in 1 .. n /\ k - 1 \in 0 .. n
        BY <1>1, <3>2
      <4> QED  BY <1>8, <3>2, <4>1
    <3> QED  BY <3>1, <3>2
  <2>2. f = [k \in 0 .. n |-> f[k]]
    OBVIOUS
  <2> HIDE DEF f
  <2> QED  BY <2>1, <2>2
<1>10. value = Body(value)
  <2> HIDE DEF f
  <2> QED  BY <1>9, Zenon
<1> HIDE DEF f, value
<1>11. value[0] = 0 /\ \A k \in 1 .. n : value[k] = Base * value[k - 1] + bytes[k]
  <2>1. \A k \in 0 .. n : Body(value)[k] = IF k = 0 THEN 0 ELSE Base * value[k - 1] + bytes[k]
    OBVIOUS
  <2> HIDE DEF Body
  <2>2. 0 \in 0 .. n /\ \A k \in 1 .. n : k \in 0 .. n /\ k # 0
    BY <1>1
  <2> QED  BY <1>10, <2>1, <2>2
<1>12. \A k \in 0 .. n : value[k] \in Nat
  <2> DEFINE T == {k \in 0 .. n : value[k] \notin Nat}
  <2> SUFFICES ASSUME T # {} PROVE FALSE
    OBVIOUS
  <2>1. PICK k \in T : \A j \in T : k <= j
    BY LeastNatural, T \subseteq Nat
  <2>2. k # 0
    BY <1>11, <2>1
  <2>3. k \in 1 .. n /\ k - 1 \in 0 .. n /\ ~ (k <= k - 1)
    BY <1>1, <2>1, <2>2
  <2>4. k - 1 \notin T
    <3> HIDE DEF T
    <3> QED  BY <2>1, <2>3
  <2>5. value[k - 1] \in Nat
    BY <2>3, <2>4
  <2> QED  BY <1>3, <1>11, <2>1, <2>3, <2>5
<1>13. value = [k \in 0 .. n |-> value[k]]
  BY <1>10
<1> HIDE DEF Body
<1>14. value \in [0 .. n -> Nat]
  BY <1>12, <1>13
<1> QED  BY <1>2, <1>11, <1>14 DEF Values, n

\* A sequence of n bytes stands for a number below Power(n).
LEMMA BigEndianBound ==
    ASSUME NEW bytes \in Seq(Byte)
    PROVE  BigEndian(bytes) \in Nat /\ BigEndian(bytes) < Power(Len(bytes))
<1> DEFINE n == Len(bytes)
<1>1. PICK v : Values(v, bytes)
  BY BigEndianSteps
<1>2. n \in Nat /\ v \in [0 .. n -> Nat] /\ v[0] = 0 /\ BigEndian(bytes) = v[n]
  BY <1>1 DEF Values
<1>3. \A k \in 1 .. n : v[k] = Base * v[k - 1] + bytes[k] /\ bytes[k] \in Nat /\ bytes[k] <= Base - 1
  <2>1. \A k \in 1 .. n : v[k] = Base * v[k - 1] + bytes[k] /\ bytes[k] \in Byte
    BY <1>1 DEF Values
  <2> HIDE DEF n
  <2> QED  BY <2>1, ByteFacts
<1> HIDE DEF n
<1> DEFINE T == {k \in 0 .. n : ~ (v[k] < Power(k))}
<1>4. T = {}
  <2> SUFFICES ASSUME T # {} PROVE FALSE
    OBVIOUS
  <2>1. PICK k \in T : \A j \in T : k <= j
    BY <1>2, LeastNatural, T \subseteq Nat
  <2>2. k # 0
    BY <1>2, <2>1, PowerStep
  <2>3. k \in 1 .. n /\ k - 1 \in 0 .. n /\ ~ (k <= k - 1) /\ (k - 1) + 1 = k /\ k - 1 \in Nat
    BY <1>2, <2>1, <2>2
  <2>4. k - 1 \notin T
    <3> HIDE DEF T
    <3> QED  BY <2>1, <2>3
  <2> DEFINE x == v[k - 1]
             p == Power(k - 1)
  <2>5. x \in Nat /\ p \in Nat /\ x + 1 <= p
    <3>1. x \in Nat /\ p \in Nat
      BY <1>2, <2>3, PowerStep
    <3>2. x < p
      BY <2>3, <2>4
    <3> HIDE DEF x, p
    <3> QED  BY <3>1, <3>2
  <2>6. Power(k) = Base * p /\ v[k] = Base * x + bytes[k] /\ bytes[k] \in Nat /\ bytes[k] <= Base - 1
    BY <1>3, <2>3, PowerStep
  <2> HIDE DEF x, p
  <2>7. \A b, y, q \in Nat : y + 1 <= q => b * y + b <= b * q
    <3> TAKE b, y, q \in Nat
    <3> HAVE y + 1 <= q
    <3>1. q - y - 1 \in Nat
      OBVIOUS
    <3>2. PICK d \in Nat : q = y + 1 + d
      BY <3>1
    <3>3. b * q = b * y + b + b * d /\ b * d \in Nat /\ b * y \in Nat
      BY <3>2
    <3> QED  BY <3>3
  <2>8. Base * x + Base <= Base * p
    BY <2>5, <2>7, PowerStep
  <2>9. Base * x \in Nat /\ Base * p \in Nat
    BY <2>5, PowerStep
  <2>10. v[k] < Power(k)
    <3> DEFINE bx == Base * x
               bp == Base * p
               b == bytes[k]
    <3>1. bx + Base <= bp /\ bx \in Nat /\ bp \in Nat
      BY <2>8, <2>9
    <3>2. Power(k) = bp /\ v[k] = bx + b /\ b \in Nat /\ b <= Base - 1
      BY <2>6
    <3> HIDE DEF bx, bp, b
    <3>3. bx + b < bp
      BY <3>1, <3>2, PowerStep
    <3> QED  BY <3>2, <3>3
  <2> QED  BY <2>1, <2>10
<1>5. v[n] < Power(n)
  BY <1>2, <1>4
<1> QED  BY <1>2, <1>5 DEF n

\* One byte in another's place changes the number by the difference, so many
\* powers up as there are bytes behind it.
LEMMA BigEndianChange ==
    ASSUME NEW n \in Nat, NEW s \in [1 .. n -> Byte], NEW t \in [1 .. n -> Byte], NEW i \in 1 .. n,
           \A j \in 1 .. n : j # i => t[j] = s[j]
    PROVE  BigEndian(t) + s[i] * Power(n - i) = BigEndian(s) + t[i] * Power(n - i)
<1>1. Len(s) = n /\ Len(t) = n /\ s \in Seq(Byte) /\ t \in Seq(Byte)
  OBVIOUS
<1>2. PICK v : Values(v, s)
  BY <1>1, BigEndianSteps
<1>3. PICK w : Values(w, t)
  BY <1>1, BigEndianSteps
<1>4. /\ v \in [0 .. n -> Nat] /\ v[0] = 0 /\ BigEndian(s) = v[n]
      /\ w \in [0 .. n -> Nat] /\ w[0] = 0 /\ BigEndian(t) = w[n]
  BY <1>1, <1>2, <1>3 DEF Values
<1>5. \A k \in 1 .. n : /\ v[k] = Base * v[k - 1] + s[k] /\ s[k] \in Nat
                        /\ w[k] = Base * w[k - 1] + t[k] /\ t[k] \in Nat
  <2>1. \A k \in 1 .. n : /\ v[k] = Base * v[k - 1] + s[k] /\ s[k] \in Byte
                          /\ w[k] = Base * w[k - 1] + t[k] /\ t[k] \in Byte
    BY <1>1, <1>2, <1>3 DEF Values
  <2> QED  BY <2>1, ByteFacts
<1>6. \A k \in 0 .. i - 1 : w[k] = v[k]
  <2> DEFINE T == {k \in 0 .. i - 1 : w[k] # v[k]}
  <2> SUFFICES ASSUME T # {} PROVE FALSE
    OBVIOUS
  <2>1. PICK k \in T : \A j \in T : k <= j
    BY LeastNatural, T \subseteq Nat
  <2>2. k # 0
    BY <1>4, <2>1
  <2>3. k \in 1 .. n /\ k # i /\ k - 1 \in 0 .. i - 1 /\ ~ (k <= k - 1)
    BY <2>1, <2>2
  <2>4. k - 1 \notin T
    <3> HIDE DEF T
    <3> QED  BY <2>1, <2>3
  <2>5. w[k - 1] = v[k - 1] /\ t[k] = s[k]
    BY <2>3, <2>4
  <2>6. w[k] = v[k]
    BY <1>5, <2>3, <2>5
  <2> QED  BY <2>1, <2>6
<1>7. \A k \in 0 .. n - i : w[i + k] + s[i] * Power(k) = v[i + k] + t[i] * Power(k)
  <2> DEFINE T == {k \in 0 .. n - i : w[i + k] + s[i] * Power(k) # v[i + k] + t[i] * Power(k)}
  <2> SUFFICES ASSUME T # {} PROVE FALSE
    OBVIOUS
  <2>1. PICK k \in T : \A j \in T : k <= j
    BY LeastNatural, T \subseteq Nat
  <2>2. s[i] \in Nat /\ t[i] \in Nat
    BY <1>5
  <2>3. k # 0
    <3>1. w[i - 1] = v[i - 1] /\ v[i - 1] \in Nat
      <4>1. i - 1 \in 0 .. i - 1 /\ i - 1 \in 0 .. n
        OBVIOUS
      <4> QED  BY <1>4, <1>6, <4>1
    <3> DEFINE x == Base * v[i - 1]
    <3>2. x \in Nat
      BY <3>1, PowerStep, ProductInNat
    <3>3. w[i] = x + t[i] /\ v[i] = x + s[i]
      BY <1>5, <3>1
    <3> HIDE DEF x
    <3>4. w[i] + s[i] = v[i] + t[i]
      BY <2>2, <3>2, <3>3
    <3>5. s[i] * 1 = s[i] /\ t[i] * 1 = t[i] /\ i + 0 = i
      BY <2>2
    <3>6. w[i + 0] + s[i] * Power(0) = v[i + 0] + t[i] * Power(0)
      BY <3>4, <3>5, PowerStep
    <3> QED  BY <2>1, <3>6
  <2>4. /\ k \in 1 .. n - i /\ k - 1 \in 0 .. n - i /\ ~ (k <= k - 1) /\ (k - 1) + 1 = k /\ k - 1 \in Nat
        /\ i + k \in 1 .. n /\ (i + k) - 1 = i + (k - 1) /\ i + (k - 1) \in 0 .. n /\ i + k # i
    BY <2>1, <2>3
  <2>5. k - 1 \notin T
    <3> HIDE DEF T
    <3> QED  BY <2>1, <2>4
  <2> DEFINE x == w[i + (k - 1)]
             y == v[i + (k - 1)]
             p == Power(k - 1)
             a == s[i + k]
  <2>6. x + s[i] * p = y + t[i] * p /\ x \in Nat /\ y \in Nat /\ p \in Nat /\ a \in Nat
    BY <1>4, <1>5, <2>4, <2>5, PowerStep
  <2>7. w[i + k] = Base * x + a /\ v[i + k] = Base * y + a /\ Power(k) = Base * p
    BY <1>5, <2>4, PowerStep
  <2> HIDE DEF x, y, p, a
  <2>8. \A b, c, d, e, f, g \in Nat : c + d * g = e + f * g => b * c + d * (b * g) = b * e + f * (b * g)
    <3> TAKE b, c, d, e, f, g \in Nat
    <3> HAVE c + d * g = e + f * g
    <3>1. b * (c + d * g) = b * c + d * (b * g)
      OBVIOUS
    <3>2. b * (e + f * g) = b * e + f * (b * g)
      OBVIOUS
    <3> QED  BY <3>1, <3>2
  <2> DEFINE d == s[i]
             e == t[i]
             bx == Base * x
             by == Base * y
             dp == d * (Base * p)
             ep == e * (Base * p)
  <2>9. bx + dp = by + ep
    <3>1. d \in Nat /\ e \in Nat /\ Base \in Nat /\ x + d * p = y + e * p
      BY <2>2, <2>6, PowerStep
    <3> HIDE DEF d, e
    <3> QED  BY <2>6, <2>8, <3>1
  <2>10. bx \in Nat /\ by \in Nat /\ dp \in Nat /\ ep \in Nat
    <3>1. d \in Nat /\ e \in Nat /\ Base \in Nat
      BY <2>2, PowerStep
    <3> HIDE DEF d, e
    <3> QED  BY <2>6, <3>1, ProductInNat
  <2>11. w[i + k] = bx + a /\ v[i + k] = by + a /\ s[i] * Power(k) = dp /\ t[i] * Power(k) = ep
    BY <2>7
  <2> HIDE DEF bx, by, dp, ep
  <2>12. (bx + a) + dp = (by + a) + ep
    BY <2>6, <2>9, <2>10
  <2>13. w[i + k] + s[i] * Power(k) = v[i + k] + t[i] * Power(k)
    BY <2>11, <2>12, Zenon
  <2> QED  BY <2>1, <2>13
<1>8. n - i \in 0 .. n - i /\ i + (n - i) = n
  OBVIOUS
<1> QED  BY <1>4, <1>7, <1>8

\* st is what IncrementCounter has after k turns: the number it stands for, with
\* what is left to add on top, is the sum.
Added(st, k, n, sum) ==
    /\ st = [iv |-> st.iv, left |-> st.left]
    /\ st.iv \in [1 .. n -> Byte]
    /\ st.left \in Nat
    /\ BigEndian(st.iv) + st.left * Power(k) = sum

LEMMA AddToByteKeepsSum ==
    ASSUME NEW n \in Nat, NEW sum \in Nat, NEW k \in 1 .. n, NEW st, Added(st, k - 1, n, sum)
    PROVE  Added(AddToByte(st, n + 1 - k), k, n, sum)
<1> DEFINE i == n + 1 - k
           d == st.iv[i]
           l == st.left
           r == l % Base
           q == l \div Base
           x == (d + r) % Base
           c == (d + r) \div Base
           iv == [st.iv EXCEPT ![i] = x]
           p == Power(k - 1)
<1>1. i \in 1 .. n /\ n - i = k - 1 /\ k - 1 \in Nat /\ (k - 1) + 1 = k
  OBVIOUS
<1>2. st.iv \in [1 .. n -> Byte] /\ l \in Nat /\ BigEndian(st.iv) + l * p = sum
  BY DEF Added
<1>3. d \in Byte /\ d \in Nat
  BY <1>1, <1>2, ByteFacts
<1>4. AddToByte(st, i) = [iv |-> iv, left |-> q + c]
  BY DEF AddToByte
<1>5. l = Base * q + r /\ q \in Nat /\ r \in Nat
  <2>1. \A b, y \in Nat : b >= 2 => y = b * (y \div b) + (y % b) /\ y \div b \in Nat /\ y % b \in Nat
    OBVIOUS
  <2> HIDE DEF l
  <2> QED  BY <1>2, <2>1, PowerStep
<1> HIDE DEF d, l, r, q, i
<1>6. d + r = Base * c + x /\ c \in Nat /\ x \in Nat /\ x \in Byte
  <2>1. \A b, y \in Nat : b >= 2 => y = b * (y \div b) + (y % b) /\ y \div b \in Nat /\ y % b \in 0 .. b - 1
    OBVIOUS
  <2>2. d + r \in Nat
    BY <1>3, <1>5
  <2>3. d + r = Base * c + x /\ c \in Nat /\ x \in 0 .. Base - 1
    BY <2>1, <2>2, PowerStep
  <2> HIDE DEF c, x
  <2> QED  BY <2>3, ByteFacts DEF Byte
<1> HIDE DEF x, c
<1>7. iv \in [1 .. n -> Byte] /\ iv[i] = x /\ \A j \in 1 .. n : j # i => iv[j] = st.iv[j]
  BY <1>1, <1>2, <1>6
<1> HIDE DEF iv
<1>8. BigEndian(iv) + d * p = BigEndian(st.iv) + x * p
  <2> DEFINE s == st.iv
  <2>1. s \in [1 .. n -> Byte] /\ \A j \in 1 .. n : j # i => iv[j] = s[j]
    BY <1>2, <1>7
  <2> HIDE DEF s
  <2>2. BigEndian(iv) + s[i] * Power(n - i) = BigEndian(s) + iv[i] * Power(n - i)
    BY <1>1, <1>7, <2>1, BigEndianChange
  <2> QED  BY <1>1, <1>7, <2>2 DEF s, d
<1>9. BigEndian(iv) \in Nat /\ BigEndian(st.iv) \in Nat /\ p \in Nat
  <2>1. iv \in Seq(Byte) /\ st.iv \in Seq(Byte)
    BY <1>2, <1>7
  <2> QED  BY <1>1, <2>1, BigEndianBound, PowerStep
<1>10. Power(k) = Base * p
  BY <1>1, PowerStep
<1> HIDE DEF p
<1> DEFINE X == BigEndian(iv)
           Y == BigEndian(st.iv)
<1>11. X + (q + c) * (Base * p) = Y + l * p
  <2>1. X + d * p = Y + x * p /\ X \in Nat /\ Y \in Nat
    BY <1>8, <1>9
  <2> HIDE DEF X, Y
  <2>2. d + Base * q + r = Base * q + Base * c + x
    <3>1. Base * q \in Nat /\ Base * c \in Nat
      BY <1>5, <1>6, PowerStep, ProductInNat
    <3> QED  BY <1>3, <1>5, <1>6, <3>1
  <2>3. d + l = Base * (q + c) + x
    <3>1. Base * (q + c) = Base * q + Base * c
      BY <1>5, <1>6, PowerStep
    <3>2. Base * q \in Nat /\ Base * c \in Nat
      BY <1>5, <1>6, PowerStep, ProductInNat
    <3> QED  BY <1>3, <1>5, <1>6, <2>2, <3>1, <3>2
  <2>4. (d + l) * p = d * p + l * p
    BY <1>2, <1>3, <1>9 DEF l
  <2>5. (Base * (q + c) + x) * p = (q + c) * (Base * p) + x * p
    <3>1. \A b, e, f, g \in Nat : (b * e + f) * g = e * (b * g) + f * g
      OBVIOUS
    <3>2. q + c \in Nat
      BY <1>5, <1>6
    <3> QED  BY <1>6, <1>9, <3>1, <3>2, PowerStep
  <2> DEFINE dp == d * p
             lp == l * p
             xp == x * p
             z == (q + c) * (Base * p)
  <2>6. dp \in Nat /\ lp \in Nat /\ xp \in Nat /\ z \in Nat
    <3>1. q + c \in Nat /\ l \in Nat
      BY <1>2, <1>5, <1>6 DEF l
    <3> QED  BY <1>3, <1>6, <1>9, <3>1, PowerStep, ProductInNat
  <2>7. dp + lp = z + xp /\ X + dp = Y + xp
    BY <2>1, <2>3, <2>4, <2>5
  <2> HIDE DEF dp, lp, xp, z
  <2>8. X + z = Y + lp
    BY <2>1, <2>6, <2>7
  <2> QED  BY <2>8 DEF z, lp
<1>12. Added([iv |-> iv, left |-> q + c], k, n, sum)
  <2>1. q + c \in Nat
    BY <1>5, <1>6
  <2>2. X + (q + c) * Power(k) = sum
    BY <1>2, <1>10, <1>11 DEF l, p
  <2> QED  BY <1>7, <2>1, <2>2 DEF Added
<1> QED  BY <1>4, <1>12 DEF i

LEMMA ModuloUnique ==
    ASSUME NEW m \in Nat, NEW x \in Nat, NEW y \in Nat, NEW q \in Nat, x < m, x + q * m = y
    PROVE  x = y % m
<1>1. y = m * (y \div m) + (y % m) /\ y \div m \in Nat /\ y % m \in 0 .. m - 1
  OBVIOUS
<1> DEFINE r == y % m
           p == y \div m
<1>2. y = m * p + r /\ p \in Nat /\ r \in Nat /\ r < m
  BY <1>1
<1> HIDE DEF r, p
<1>3. \A a, b, c, d, n \in Nat : a < n /\ c < n /\ a + b * n = n * d + c => ~ (b < d)
  <2> TAKE a, b, c, d, n \in Nat
  <2> SUFFICES ASSUME a < n, a + b * n = n * d + c, b < d PROVE FALSE
    OBVIOUS
  <2>1. d - b - 1 \in Nat
    OBVIOUS
  <2>2. PICK e \in Nat : d = b + 1 + e
    BY <2>1
  <2>3. n * d = b * n + n + n * e
    BY <2>2
  <2>4. b * n \in Nat /\ n * e \in Nat
    BY ProductInNat
  <2> QED  BY <2>3, <2>4
<1>4. \A a, b, c, d, n \in Nat : a < n /\ c < n /\ a + b * n = n * d + c => ~ (d < b)
  <2> TAKE a, b, c, d, n \in Nat
  <2> SUFFICES ASSUME c < n, a + b * n = n * d + c, d < b PROVE FALSE
    OBVIOUS
  <2>1. b - d - 1 \in Nat
    OBVIOUS
  <2>2. PICK e \in Nat : b = d + 1 + e
    BY <2>1
  <2>3. b * n = n * d + n + n * e
    BY <2>2
  <2>4. n * d \in Nat /\ n * e \in Nat
    BY ProductInNat
  <2> QED  BY <2>3, <2>4
<1>5. q = p
  <2>1. ~ (q < p) /\ ~ (p < q)
    BY <1>2, <1>3, <1>4
  <2> QED  BY <1>2, <2>1
<1>6. q * m = m * p /\ m * p \in Nat
  BY <1>2, <1>5, ProductInNat
<1> QED  BY <1>2, <1>6 DEF r

\* IncrementCounter, for any number of bytes and any increment.
THEOREM CounterAdds ==
    ASSUME NEW n \in Nat, NEW iv \in [1 .. n -> Byte], NEW increment \in Nat
    PROVE  /\ IncrementCounter(iv, increment) \in [1 .. n -> Byte]
           /\ BigEndian(IncrementCounter(iv, increment)) = (BigEndian(iv) + increment) % Power(n)
<1> DEFINE S == [iv : [1 .. n -> Byte], left : Nat]
           first == [iv |-> iv, left |-> increment]
           step(k, s) == IF k \in 1 .. n THEN AddToByte(s, n + 1 - k) ELSE s
           g == [p \in Nat \X S |-> step(p[1] + 1, p[2])]
           Body(h) == [k \in 0 .. n |-> IF k = 0 THEN first ELSE AddToByte(h[k - 1], n + 1 - k)]
           turn == CHOOSE h : h = Body(h)
           sum == BigEndian(iv) + increment
<1>1. Len(iv) = n /\ iv \in Seq(Byte)
  OBVIOUS
<1>2. IncrementCounter(iv, increment) = turn[n].iv
  BY <1>1, Zenon DEF IncrementCounter
<1>3. sum \in Nat
  BY <1>1, BigEndianBound
<1>4. first \in S /\ Added(first, 0, n, sum)
  <2>1. first \in S
    OBVIOUS
  <2>2. increment * 1 = increment
    OBVIOUS
  <2>3. first.iv = iv /\ first.left = increment
    OBVIOUS
  <2>4. BigEndian(first.iv) + first.left * Power(0) = sum
    BY <2>2, <2>3, PowerStep
  <2> HIDE DEF sum
  <2> QED  BY <2>1, <2>3, <2>4 DEF Added
<1> HIDE DEF sum
<1>5. ASSUME NEW k \in 1 .. n, NEW s \in S PROVE AddToByte(s, n + 1 - k) \in S
  <2> DEFINE z == BigEndian(s.iv) + s.left * Power(k - 1)
  <2>1. s.iv \in [1 .. n -> Byte] /\ s.left \in Nat /\ s = [iv |-> s.iv, left |-> s.left]
    OBVIOUS
  <2>2. s.iv \in Seq(Byte) /\ k - 1 \in Nat
    BY <2>1
  <2>3. BigEndian(s.iv) \in Nat /\ Power(k - 1) \in Nat
    BY <2>2, BigEndianBound, PowerStep
  <2>4. z \in Nat
    <3>1. s.left * Power(k - 1) \in Nat
      BY <2>1, <2>3, ProductInNat
    <3> QED  BY <2>3, <3>1
  <2>5. Added(s, k - 1, n, z)
    BY <2>1 DEF Added
  <2> HIDE DEF z
  <2>6. Added(AddToByte(s, n + 1 - k), k, n, z)
    BY <2>4, <2>5, AddToByteKeepsSum
  <2> QED  BY <2>6 DEF Added
<1> HIDE DEF S, first
<1>6. ASSUME NEW k \in Nat, NEW s \in S PROVE step(k + 1, s) \in S
  BY <1>5
<1> HIDE DEF step
<1>7. g \in [Nat \X S -> S]
  BY <1>6
<1>8. PICK h : Recursion(h, S, first, g)
  <2> HIDE DEF g
  <2> QED  BY <1>4, <1>7, RecursionExists, Zenon
<1>9. h \in [Nat -> S] /\ h[0] = first
  BY <1>8 DEF Recursion
<1>10. ASSUME NEW k \in 1 .. n PROVE h[k] = AddToByte(h[k - 1], n + 1 - k)
  <2>1. k - 1 \in Nat /\ (k - 1) + 1 = k
    OBVIOUS
  <2>2. g[<<k - 1, h[k - 1]>>] = step((k - 1) + 1, h[k - 1])
    BY <1>9, <2>1
  <2>3. h[(k - 1) + 1] = g[<<k - 1, h[k - 1]>>]
    <3> HIDE DEF g
    <3> QED  BY <1>8, <2>1 DEF Recursion
  <2> HIDE DEF g
  <2>4. h[(k - 1) + 1] = step((k - 1) + 1, h[k - 1])
    BY <2>2, <2>3
  <2>5. h[k] = step(k, h[k - 1])
    BY <2>1, <2>4
  <2> QED  BY <2>5 DEF step
<1> HIDE DEF g
<1> DEFINE f == [k \in 0 .. n |-> h[k]]
<1>11. f = Body(f)
  <2>1. ASSUME NEW k \in 0 .. n PROVE f[k] = IF k = 0 THEN first ELSE AddToByte(f[k - 1], n + 1 - k)
    <3>1. CASE k = 0
      BY <1>9, <3>1
    <3>2. CASE k # 0
      <4>1. k \in 1 .. n /\ k - 1 \in 0 .. n
        BY <3>2
      <4>2. f[k] = h[k] /\ f[k - 1] = h[k - 1]
        BY <4>1
      <4> HIDE DEF f
      <4> QED  BY <1>10, <3>2, <4>1, <4>2
    <3> QED  BY <3>1, <3>2
  <2>2. f = [k \in 0 .. n |-> f[k]]
    OBVIOUS
  <2> HIDE DEF f
  <2> QED  BY <2>1, <2>2, Zenon
<1>12. turn = Body(turn)
  <2> HIDE DEF f
  <2> QED  BY <1>11, Zenon
<1> HIDE DEF f, turn
<1>13. turn[0] = first /\ \A k \in 1 .. n : turn[k] = AddToByte(turn[k - 1], n + 1 - k)
  <2>1. \A k \in 0 .. n : Body(turn)[k] = IF k = 0 THEN first ELSE AddToByte(turn[k - 1], n + 1 - k)
    BY Zenon
  <2> HIDE DEF Body
  <2>2. 0 \in 0 .. n /\ \A k \in 1 .. n : k \in 0 .. n /\ k # 0
    OBVIOUS
  <2> QED  BY <1>12, <2>1, <2>2, Zenon
<1>14. \A k \in 0 .. n : Added(turn[k], k, n, sum)
  <2> DEFINE T == {k \in 0 .. n : ~ Added(turn[k], k, n, sum)}
  <2> SUFFICES ASSUME T # {} PROVE FALSE
    OBVIOUS
  <2>1. PICK k \in T : \A j \in T : k <= j
    BY LeastNatural, T \subseteq Nat
  <2>2. k # 0
    BY <1>4, <1>13, <2>1
  <2>3. k \in 1 .. n /\ k - 1 \in 0 .. n /\ ~ (k <= k - 1)
    BY <2>1, <2>2
  <2>4. k - 1 \notin T
    <3> HIDE DEF T
    <3> QED  BY <2>1, <2>3
  <2>5. Added(turn[k - 1], k - 1, n, sum)
    BY <2>3, <2>4
  <2>6. Added(AddToByte(turn[k - 1], n + 1 - k), k, n, sum)
    BY <1>3, <2>3, <2>5, AddToByteKeepsSum
  <2>7. Added(turn[k], k, n, sum)
    BY <1>13, <2>3, <2>6
  <2> QED  BY <2>1, <2>7
<1> DEFINE after == turn[n].iv
           left == turn[n].left
<1>15. after \in [1 .. n -> Byte] /\ left \in Nat /\ BigEndian(after) + left * Power(n) = sum
  <2>1. n \in 0 .. n
    OBVIOUS
  <2> QED  BY <1>14, <2>1 DEF Added
<1> HIDE DEF after, left
<1>16. Len(after) = n /\ after \in Seq(Byte)
  BY <1>15
<1>17. BigEndian(after) \in Nat /\ BigEndian(after) < Power(n) /\ Power(n) \in Nat
  BY <1>16, BigEndianBound, PowerStep
<1>18. BigEndian(after) = sum % Power(n)
  BY <1>3, <1>15, <1>17, ModuloUnique
<1> QED  BY <1>2, <1>15, <1>18 DEF after, sum

\* Every size that fits has its bytes.
LEMMA SizeBytesFacts ==
    ASSUME NEW n \in Nat, NEW width \in Nat, n < Power(width)
    PROVE  /\ SizeBytes(n, width) \in [1 .. width -> Byte]
           /\ LittleEndian(SizeBytes(n, width)) = n
<1> DEFINE zeros == [k \in 1 .. width |-> 0]
           b == IncrementCounter(zeros, n)
           r == [k \in 1 .. width |-> b[width + 1 - k]]
<1>1. 0 \in Byte
  BY PowerStep DEF Byte
<1>2. zeros \in [1 .. width -> Byte]
  BY <1>1
<1>3. BigEndian(zeros) = 0
  <2>1. zeros \in Seq(Byte) /\ Len(zeros) = width
    BY <1>2
  <2>2. PICK v : Values(v, zeros)
    BY <2>1, BigEndianSteps
  <2>3. v[0] = 0 /\ \A k \in 1 .. width : v[k] = Base * v[k - 1] + zeros[k]
    BY <2>1, <2>2 DEF Values
  <2>4. \A k \in 1 .. width : zeros[k] = 0
    OBVIOUS
  <2> HIDE DEF zeros
  <2> DEFINE T == {k \in 0 .. width : v[k] # 0}
  <2>5. T = {}
    <3> SUFFICES ASSUME T # {} PROVE FALSE
      OBVIOUS
    <3>1. PICK k \in T : \A j \in T : k <= j
      BY LeastNatural, T \subseteq Nat
    <3>2. k # 0
      BY <2>3, <3>1
    <3>3. k \in 1 .. width /\ k - 1 \in 0 .. width /\ ~ (k <= k - 1)
      BY <3>1, <3>2
    <3>4. k - 1 \notin T
      <4> HIDE DEF T
      <4> QED  BY <3>1, <3>3
    <3>5. v[k - 1] = 0
      BY <3>3, <3>4
    <3>6. Base * 0 = 0
      BY PowerStep
    <3> QED  BY <2>3, <2>4, <3>1, <3>3, <3>5, <3>6
  <2>6. width \in 0 .. width
    OBVIOUS
  <2> QED  BY <2>1, <2>2, <2>5, <2>6 DEF Values
<1> HIDE DEF zeros
<1>4. b \in [1 .. width -> Byte] /\ BigEndian(b) = (0 + n) % Power(width)
  BY <1>2, <1>3, CounterAdds
<1>5. (0 + n) % Power(width) = n
  <2>1. Power(width) \in Nat /\ n + 0 * Power(width) = 0 + n
    BY PowerStep
  <2> QED  BY <2>1, ModuloUnique
<1> HIDE DEF b
<1>6. r \in [1 .. width -> Byte]
  <2>1. \A k \in 1 .. width : width + 1 - k \in 1 .. width
    OBVIOUS
  <2> QED  BY <1>4, <2>1
<1>7. Reverse(r) = b
  <2>1. Len(r) = width /\ DOMAIN r = 1 .. width
    OBVIOUS
  <2>2. Reverse(r) = [k \in 1 .. width |-> r[(width - k) + 1]]
    BY <2>1 DEF Reverse
  <2>3. \A k \in 1 .. width : (width - k) + 1 \in 1 .. width /\ width + 1 - ((width - k) + 1) = k
    OBVIOUS
  <2>4. \A k \in 1 .. width : r[(width - k) + 1] = b[k]
    BY <2>3
  <2>5. b = [k \in 1 .. width |-> b[k]]
    BY <1>4
  <2> HIDE DEF r
  <2> QED  BY <2>2, <2>4, <2>5
<1> HIDE DEF r
<1>8. r \in [1 .. width -> Byte] /\ LittleEndian(r) = n
  BY <1>4, <1>5, <1>6, <1>7 DEF LittleEndian
<1> QED  BY <1>8, Zenon DEF SizeBytes

\* The counter of AES-CTR is a number of its width: whatever it starts from and by
\* however many blocks it is moved on, every carry is made, and it wraps.
THEOREM CounterWraps == Spec => []CounterIsAddition
<1>1. StillInv => CounterIsAddition
  <2> SUFFICES ASSUME StillInv, example.part = "counter"
               PROVE  LET after == IncrementCounter(example.iv, example.increment)
                      IN  /\ after \in [1 .. Width + 1 -> Byte]
                          /\ BigEndian(after) = (BigEndian(example.iv) + example.increment) % Power(Width + 1)
    BY DEF CounterIsAddition
  <2>1. example.iv \in [1 .. Width + 1 -> Byte] /\ example.increment \in Nat
    BY IncrementsAssumption DEF StillInv, Counters
  <2>2. Width + 1 \in Nat
    BY NetIOStreamAssumption
  <2> QED  BY <2>1, <2>2, CounterAdds
<1> QED  BY <1>1, StillInvariance, PTL

-----------------------------------------------------------------------------
\* Vectors that SendVec can announce: their lengths fit in Width bytes.
Sendable(vs) ==
    /\ vs \in Seq(Seq(Byte))
    /\ \A k \in 1 .. Len(vs) : Len(vs[k]) < Power(Width)

\* S is what the client sends in all, and off[k] how much of it the first k
\* vectors are.
StreamOf(S, off, vs) ==
    /\ S \in Seq(Byte)
    /\ off \in [0 .. Len(vs) -> Nat]
    /\ off[0] = 0
    /\ off[Len(vs)] = Len(S)
    /\ \A k \in 0 .. Len(vs) : off[k] <= Len(S)
    /\ \A k \in 1 .. Len(vs) :
         /\ off[k] = off[k - 1] + Width + Len(vs[k])
         /\ \A j \in 1 .. Width : S[off[k - 1] + j] = SizeBytes(Len(vs[k]), Width)[j]
         /\ \A j \in 1 .. Len(vs[k]) : S[off[k - 1] + Width + j] = vs[k][j]

LEMMA AppendFacts ==
    ASSUME NEW a \in Seq(Byte), NEW b \in Seq(Byte)
    PROVE  /\ a \o b \in Seq(Byte) /\ Len(a \o b) = Len(a) + Len(b)
           /\ \A k \in 1 .. Len(a) : (a \o b)[k] = a[k]
           /\ \A k \in 1 .. Len(b) : (a \o b)[Len(a) + k] = b[k]
OBVIOUS

LEMMA SubSeqFacts ==
    ASSUME NEW s \in Seq(Byte), NEW i \in Nat, NEW j \in Nat, i >= 1, i <= j + 1, j <= Len(s)
    PROVE  /\ SubSeq(s, i, j) \in Seq(Byte) /\ Len(SubSeq(s, i, j)) = j + 1 - i
           /\ \A k \in 1 .. j + 1 - i : SubSeq(s, i, j)[k] = s[i + k - 1]
OBVIOUS

\* What a partial send or receive takes, and what it leaves.
LEMMA TakeAndDrop ==
    ASSUME NEW s \in Seq(Byte), NEW k \in 0 .. Len(s)
    PROVE  /\ SubSeq(s, 1, k) \in Seq(Byte) /\ Len(SubSeq(s, 1, k)) = k
           /\ \A j \in 1 .. k : SubSeq(s, 1, k)[j] = s[j]
           /\ SubSeq(s, k + 1, Len(s)) \in Seq(Byte) /\ Len(SubSeq(s, k + 1, Len(s))) = Len(s) - k
           /\ \A j \in 1 .. Len(s) - k : SubSeq(s, k + 1, Len(s))[j] = s[k + j]
<1> DEFINE l == Len(s)
           first == SubSeq(s, 1, k)
           a == k + 1
           rest == SubSeq(s, a, l)
<1>1. l \in Nat /\ k \in Nat /\ k <= l /\ a \in Nat /\ a >= 1 /\ a <= l + 1 /\ (l + 1) - a = l - k
  OBVIOUS
<1>2. first \in Seq(Byte) /\ Len(first) = (k + 1) - 1 /\ \A j \in 1 .. (k + 1) - 1 : first[j] = s[1 + j - 1]
  <2>1. 1 \in Nat /\ 1 >= 1 /\ 1 <= k + 1
    BY <1>1
  <2> HIDE DEF l, a
  <2> QED  BY <1>1, <2>1, SubSeqFacts DEF l
<1>3. Len(first) = k /\ \A j \in 1 .. k : first[j] = s[j]
  <2>1. (k + 1) - 1 = k /\ \A j \in 1 .. k : 1 + j - 1 = j
    BY <1>1
  <2> HIDE DEF first
  <2> QED  BY <1>2, <2>1
<1>4. rest \in Seq(Byte) /\ Len(rest) = (l + 1) - a /\ \A j \in 1 .. (l + 1) - a : rest[j] = s[a + j - 1]
  <2>1. l <= Len(s)
    BY <1>1
  <2> HIDE DEF l, a
  <2> QED  BY <1>1, <2>1, SubSeqFacts
<1>5. Len(rest) = l - k /\ \A j \in 1 .. l - k : rest[j] = s[k + j]
  <2>1. \A j \in 1 .. l - k : a + j - 1 = k + j
    BY <1>1
  <2> HIDE DEF rest, l, a
  <2> QED  BY <1>1, <1>4, <2>1
<1> QED  BY <1>2, <1>3, <1>4, <1>5

\* A vector with its size in front.
LEMMA EncodedFacts ==
    ASSUME NEW v \in Seq(Byte), Len(v) < Power(Width)
    PROVE  LET size == SizeBytes(Len(v), Width)
               e    == size \o v
           IN  /\ size \in Seq(Byte) /\ Len(size) = Width /\ LittleEndian(size) = Len(v)
               /\ e \in Seq(Byte) /\ Len(e) = Width + Len(v)
               /\ \A j \in 1 .. Width : e[j] = size[j]
               /\ \A j \in 1 .. Len(v) : e[Width + j] = v[j]
<1> DEFINE size == SizeBytes(Len(v), Width)
<1>1. Width \in Nat /\ Len(v) \in Nat
  BY NetIOStreamAssumption
<1>2. size \in [1 .. Width -> Byte] /\ LittleEndian(size) = Len(v)
  BY <1>1, SizeBytesFacts
<1>3. size \in Seq(Byte) /\ Len(size) = Width
  BY <1>1, <1>2
<1> HIDE DEF size
<1>4. /\ size \o v \in Seq(Byte) /\ Len(size \o v) = Len(size) + Len(v)
      /\ \A k \in 1 .. Len(size) : (size \o v)[k] = size[k]
      /\ \A k \in 1 .. Len(v) : (size \o v)[Len(size) + k] = v[k]
  BY <1>3, AppendFacts
<1> QED  BY <1>2, <1>3, <1>4 DEF size

\* The stream of any vectors exists: one vector is appended after the other.
LEMMA StreamExists ==
    ASSUME NEW vs, Sendable(vs)
    PROVE  \E S, off : StreamOf(S, off, vs)
<1> DEFINE n == Len(vs)
           B == Seq(Byte)
           e(k) == SizeBytes(Len(vs[k]), Width) \o vs[k]
           step(k, s) == IF k \in 1 .. n THEN s \o e(k) ELSE s
           g == [p \in Nat \X B |-> step(p[1] + 1, p[2])]
<1>1. n \in Nat /\ \A k \in 1 .. n : vs[k] \in B /\ Len(vs[k]) \in Nat /\ Len(vs[k]) < Power(Width)
  BY DEF Sendable
<1>2. << >> \in B
  OBVIOUS
<1>3. n \in Nat
  OBVIOUS
<1>4. Width \in Nat
  BY NetIOStreamAssumption
<1>5. ASSUME NEW k \in 1 .. n
      PROVE  /\ e(k) \in B /\ Len(e(k)) = Width + Len(vs[k])
             /\ \A j \in 1 .. Width : e(k)[j] = SizeBytes(Len(vs[k]), Width)[j]
             /\ \A j \in 1 .. Len(vs[k]) : e(k)[Width + j] = vs[k][j]
  <2> DEFINE v == vs[k]
  <2>1. v \in Seq(Byte) /\ Len(v) < Power(Width)
    BY <1>1
  <2> HIDE DEF v
  <2> QED  BY <2>1, EncodedFacts DEF v
<1> HIDE DEF n, e
<1>6. ASSUME NEW k \in Nat, NEW s \in B PROVE step(k + 1, s) \in B
  <2>1. CASE k + 1 \in 1 .. n
    <3>1. e(k + 1) \in B
      BY <1>5, <2>1
    <3>2. s \o e(k + 1) \in B
      BY <3>1, AppendFacts
    <3> QED  BY <2>1, <3>2
  <2>2. CASE k + 1 \notin 1 .. n
    BY <2>2
  <2> QED  BY <2>1, <2>2
<1> HIDE DEF step
<1>7. g \in [Nat \X B -> B]
  BY <1>6
<1>8. PICK h : Recursion(h, B, << >>, g)
  <2> HIDE DEF g, B
  <2> QED  BY <1>2, <1>7, RecursionExists, Zenon
<1>9. h \in [Nat -> B] /\ h[0] = << >>
  BY <1>8 DEF Recursion
<1>10. ASSUME NEW k \in 1 .. n PROVE h[k] = h[k - 1] \o e(k)
  <2>1. k - 1 \in Nat /\ (k - 1) + 1 = k
    BY <1>1
  <2>2. g[<<k - 1, h[k - 1]>>] = step((k - 1) + 1, h[k - 1])
    BY <1>9, <2>1
  <2>3. h[(k - 1) + 1] = g[<<k - 1, h[k - 1]>>]
    <3> HIDE DEF g
    <3> QED  BY <1>8, <2>1 DEF Recursion
  <2> HIDE DEF g
  <2>4. h[k] = step(k, h[k - 1])
    BY <2>1, <2>2, <2>3
  <2> QED  BY <2>4 DEF step
<1> HIDE DEF g
<1> DEFINE S == h[n]
           off == [k \in 0 .. n |-> Len(h[k])]
<1>11. \A k \in 0 .. n : h[k] \in B /\ Len(h[k]) \in Nat
  BY <1>1, <1>9
<1>12. ASSUME NEW k \in 1 .. n
       PROVE  /\ Len(h[k]) = Len(h[k - 1]) + (Width + Len(vs[k])) /\ Len(h[k - 1]) \in Nat
              /\ \A j \in 1 .. Len(h[k - 1]) : h[k][j] = h[k - 1][j]
              /\ \A j \in 1 .. Width + Len(vs[k]) : h[k][Len(h[k - 1]) + j] = e(k)[j]
  <2> DEFINE a == h[k - 1]
             b == e(k)
  <2>1. a \in B /\ b \in B /\ Len(a) \in Nat /\ Len(b) = Width + Len(vs[k]) /\ h[k] = a \o b
    BY <1>1, <1>5, <1>10, <1>11
  <2> HIDE DEF a, b
  <2>2. /\ Len(a \o b) = Len(a) + Len(b)
        /\ \A j \in 1 .. Len(a) : (a \o b)[j] = a[j]
        /\ \A j \in 1 .. Len(b) : (a \o b)[Len(a) + j] = b[j]
    BY <2>1, AppendFacts
  <2> QED  BY <2>1, <2>2 DEF a, b
\* What has been appended stays where it is.
<1>13. ASSUME NEW i \in 0 .. n
       PROVE  \A k \in 0 .. n - i : /\ Len(h[i]) <= Len(h[i + k])
                                    /\ \A j \in 1 .. Len(h[i]) : h[i + k][j] = h[i][j]
  <2> DEFINE P(k) == /\ Len(h[i]) <= Len(h[i + k])
                     /\ \A j \in 1 .. Len(h[i]) : h[i + k][j] = h[i][j]
             T == {k \in 0 .. n - i : ~ P(k)}
  <2> SUFFICES ASSUME T # {} PROVE FALSE
    BY Zenon
  <2>1. T \subseteq Nat
    <3> HIDE DEF P
    <3> QED  BY <1>1
  <2>2. PICK k \in T : \A j \in T : k <= j
    <3> HIDE DEF T
    <3> QED  BY <2>1, LeastNatural
  <2>3. k \in 0 .. n - i /\ ~ P(k)
    <3> HIDE DEF P
    <3> QED  BY <2>2
  <2>4. k # 0
    <3>1. i + 0 = i /\ Len(h[i]) \in Nat
      BY <1>1, <1>11
    <3>2. P(0)
      BY <3>1
    <3> HIDE DEF P
    <3> QED  BY <2>3, <3>2
  <2>5. /\ k - 1 \in 0 .. n - i /\ ~ (k <= k - 1) /\ i + k \in 1 .. n
        /\ (i + k) - 1 = i + (k - 1) /\ i + (k - 1) \in 0 .. n
    BY <1>1, <2>3, <2>4
  <2>6. P(k - 1)
    <3>1. k - 1 \notin T
      <4> HIDE DEF T
      <4> QED  BY <2>2, <2>5
    <3> HIDE DEF P
    <3> QED  BY <2>5, <3>1
  <2> DEFINE a == h[i]
             b == h[i + (k - 1)]
             c == h[i + k]
  <2>7. Len(a) <= Len(b) /\ \A j \in 1 .. Len(a) : b[j] = a[j]
    BY <2>6
  <2>8. /\ Len(c) = Len(b) + (Width + Len(vs[i + k])) /\ Len(b) \in Nat
        /\ \A j \in 1 .. Len(b) : c[j] = b[j]
    BY <1>12, <2>5
  <2>9. Len(a) \in Nat /\ Len(vs[i + k]) \in Nat
    BY <1>1, <1>11, <2>5
  <2> HIDE DEF a, b, c
  <2>10. Len(a) <= Len(b) /\ Len(b) <= Len(c)
    <3> DEFINE l == Len(vs[i + k])
    <3>1. Len(c) = Len(b) + (Width + l) /\ l \in Nat /\ Len(b) \in Nat
      BY <2>8, <2>9
    <3> HIDE DEF l
    <3> QED  BY <1>4, <2>7, <3>1
  <2>11. \A j \in 1 .. Len(a) : c[j] = a[j]
    <3> TAKE j \in 1 .. Len(a)
    <3>1. j \in 1 .. Len(b)
      BY <2>8, <2>9, <2>10
    <3> QED  BY <2>7, <2>8, <3>1
  <2>12. Len(a) <= Len(c)
    BY <2>8, <2>9, <2>10
  <2> QED  BY <2>3, <2>11, <2>12 DEF a, c
<1>14. ASSUME NEW i \in 0 .. n
       PROVE  Len(h[i]) <= Len(S) /\ \A j \in 1 .. Len(h[i]) : S[j] = h[i][j]
  <2>1. n - i \in 0 .. n - i /\ i + (n - i) = n
    BY <1>1
  <2> QED  BY <1>13, <2>1
<1>15. ASSUME NEW k \in 1 .. n
       PROVE  /\ off[k] = off[k - 1] + Width + Len(vs[k])
              /\ \A j \in 1 .. Width : S[off[k - 1] + j] = SizeBytes(Len(vs[k]), Width)[j]
              /\ \A j \in 1 .. Len(vs[k]) : S[off[k - 1] + Width + j] = vs[k][j]
  <2>1. k \in 0 .. n /\ k - 1 \in 0 .. n
    BY <1>1
  <2> DEFINE x == off[k - 1]
             y == off[k]
             l == Len(vs[k])
  <2>2. x = Len(h[k - 1]) /\ y = Len(h[k]) /\ x \in Nat /\ l \in Nat
    BY <1>1, <1>11, <2>1
  <2>0. x \in Nat /\ l \in Nat
    BY <2>2
  <2> HIDE DEF off, x, y, l, S
  <2>3. y = x + (Width + l) /\ \A j \in 1 .. Width + l : h[k][x + j] = e(k)[j]
    BY <1>12, <2>2 DEF l
  <2>4. \A j \in 1 .. y : S[j] = h[k][j]
    BY <1>14, <2>1, <2>2
  <2>5. \A j \in 1 .. Width + l : S[x + j] = e(k)[j]
    <3> TAKE j \in 1 .. Width + l
    <3>1. x + j \in 1 .. y
      BY <1>3, <1>4, <2>0, <2>3
    <3> QED  BY <2>3, <2>4, <3>1
  <2>6. y = x + Width + l
    BY <1>4, <2>2, <2>3
  <2>7. ASSUME NEW j \in 1 .. Width PROVE S[x + j] = SizeBytes(l, Width)[j]
    <3>1. j \in 1 .. Width + l
      BY <1>3, <1>4, <2>0
    <3> QED  BY <1>5, <2>5, <3>1 DEF l
  <2>8. ASSUME NEW j \in 1 .. l PROVE S[x + Width + j] = vs[k][j]
    <3>1. Width + j \in 1 .. Width + l /\ x + (Width + j) = x + Width + j
      BY <1>3, <1>4, <2>0
    <3>2. S[x + (Width + j)] = e(k)[Width + j]
      BY <2>5, <3>1
    <3> QED  BY <1>5, <3>1, <3>2 DEF l
  <2> QED  BY <2>6, <2>7, <2>8 DEF x, y, l
<1>16. S \in Seq(Byte) /\ off \in [0 .. n -> Nat] /\ off[0] = 0 /\ off[n] = Len(S)
  <2>1. n \in 0 .. n /\ 0 \in 0 .. n
    BY <1>1
  <2>2. Len(h[0]) = 0
    BY <1>9
  <2> QED  BY <1>11, <2>1, <2>2
<1>17. \A k \in 0 .. n : off[k] <= Len(S)
  BY <1>14
<1> HIDE DEF S, off
<1>18. StreamOf(S, off, vs)
  BY <1>15, <1>16, <1>17 DEF StreamOf, n
<1> QED  BY <1>18

-----------------------------------------------------------------------------
\* Where the two ends are in the stream S: the client has given m vectors to
\* SendVec and `sent' bytes to the kernel; `taken' bytes have become vectors, or
\* the size of the next.
SenderAt(S, off, m, sent) ==
    /\ m \in 0 .. Len(vectors) /\ sent \in Nat
    /\ unsent \in Seq(Seq(Byte)) /\ Len(unsent) = Len(vectors) - m
    /\ \A k \in 1 .. Len(unsent) : unsent[k] = vectors[m + k]
    /\ out \in Seq(Byte) /\ sent + Len(out) = off[m]
    /\ \A k \in 1 .. Len(out) : out[k] = S[sent + k]
    /\ client = "send" => link # "none"

ReceiverAt(off, taken) ==
    /\ received \in Seq(Seq(Byte)) /\ Len(received) <= Len(vectors)
    /\ \/ want = "size" /\ need = Width /\ taken = off[Len(received)]
       \/ /\ want = "data" /\ Len(received) < Len(vectors)
          /\ need = Len(vectors[Len(received) + 1]) /\ taken = off[Len(received)] + Width

\* The bytes on the way, of which only a lost connection loses some.
BytesAt(S, sent, taken) ==
    /\ taken \in Nat
    /\ got \in Seq(Byte) /\ wire \in Seq(Byte) /\ Len(got) <= need
    /\ \A k \in 1 .. Len(got) : got[k] = S[taken + k]
    /\ \A k \in 1 .. Len(wire) : wire[k] = S[taken + Len(got) + k]
    /\ taken + Len(got) + Len(wire) <= sent
    /\ link \in {"none", "up"} => taken + Len(got) + Len(wire) = sent

InStream(S, off, m, sent, taken) ==
    /\ Sendable(vectors) /\ StreamOf(S, off, vectors)
    /\ SenderAt(S, off, m, sent)
    /\ ReceiverAt(off, taken)
    /\ BytesAt(S, sent, taken)

StreamInv == \E S, off, m, sent, taken : InStream(S, off, m, sent, taken)

LEMMA StreamStarts ==
    ASSUME NEW vs, Sendable(vs), StreamInit(vs)
    PROVE  StreamInv
<1>1. PICK S, off : StreamOf(S, off, vs)
  BY StreamExists
<1>2. vectors = vs /\ unsent = vs /\ out = << >> /\ wire = << >> /\ got = << >> /\ received = << >>
      /\ want = "size" /\ need = Width /\ link = "none" /\ client = "retry"
  BY DEF StreamInit
<1>3. off[0] = 0 /\ vs \in Seq(Seq(Byte)) /\ Width \in Nat
  BY <1>1, NetIOStreamAssumption DEF StreamOf, Sendable
<1>4. SenderAt(S, off, 0, 0)
  BY <1>2, <1>3 DEF SenderAt
<1>5. ReceiverAt(off, 0)
  BY <1>2, <1>3 DEF ReceiverAt
<1>6. BytesAt(S, 0, 0)
  BY <1>2, <1>3 DEF BytesAt
<1>7. InStream(S, off, 0, 0, 0)
  BY <1>1, <1>2, <1>4, <1>5, <1>6 DEF InStream
<1> QED  BY <1>7 DEF StreamInv

LEMMA SendVecKeeps ==
    ASSUME NEW S, NEW off, NEW m, NEW sent, NEW taken, InStream(S, off, m, sent, taken), SendVec
    PROVE  InStream(S, off, m + 1, sent, taken)'
<1> DEFINE n == Len(vectors)
           v == Head(unsent)
           e == SizeBytes(Len(v), Width) \o v
<1>1. /\ out = << >> /\ unsent # << >> /\ out' = e /\ unsent' = Tail(unsent)
      /\ UNCHANGED <<vectors, client, link, wire, want, need, got, received>>
  BY DEF SendVec
<1>2. Sendable(vectors) /\ StreamOf(S, off, vectors) /\ ReceiverAt(off, taken) /\ BytesAt(S, sent, taken)
  BY DEF InStream
<1>3. SenderAt(S, off, m, sent)
  BY DEF InStream
<1>4. /\ m \in Nat /\ n \in Nat /\ sent \in Nat /\ Width \in Nat
      /\ unsent \in Seq(Seq(Byte)) /\ Len(unsent) = n - m
  BY <1>2, <1>3, NetIOStreamAssumption DEF SenderAt, Sendable
<1>5. v = vectors[m + 1] /\ v \in Seq(Byte) /\ m + 1 \in 1 .. n /\ v = unsent[1]
  <2>1. Len(unsent) \in Nat \ {0} /\ v = unsent[1] /\ unsent[1] \in Seq(Byte)
    BY <1>1, <1>4
  <2>2. m + 1 \in 1 .. n
    <3> HIDE DEF n
    <3> QED  BY <1>4, <2>1
  <2>3. unsent[1] = vectors[m + 1]
    BY <1>3, <2>1 DEF SenderAt
  <2> QED  BY <2>1, <2>2, <2>3
<1>6. Len(v) < Power(Width)
  BY <1>2, <1>5 DEF Sendable
<1> HIDE DEF v, e, n
<1>7. /\ e \in Seq(Byte) /\ Len(e) = Width + Len(v)
      /\ \A j \in 1 .. Width : e[j] = SizeBytes(Len(v), Width)[j]
      /\ \A j \in 1 .. Len(v) : e[Width + j] = v[j]
  BY <1>5, <1>6, EncodedFacts DEF e
<1>8. sent = off[m]
  BY <1>1, <1>3, <1>4 DEF SenderAt
<1>9. /\ off[m + 1] = off[m] + Width + Len(v)
      /\ \A j \in 1 .. Width : S[off[m] + j] = SizeBytes(Len(v), Width)[j]
      /\ \A j \in 1 .. Len(v) : S[off[m] + Width + j] = v[j]
  <2> DEFINE i == m + 1
  <2>1. i - 1 = m /\ i \in 1 .. Len(vectors) /\ vectors[i] = v
    BY <1>4, <1>5 DEF n
  <2> HIDE DEF i
  <2>2. /\ off[i] = off[i - 1] + Width + Len(vectors[i])
        /\ \A j \in 1 .. Width : S[off[i - 1] + j] = SizeBytes(Len(vectors[i]), Width)[j]
        /\ \A j \in 1 .. Len(vectors[i]) : S[off[i - 1] + Width + j] = vectors[i][j]
    BY <1>2, <2>1 DEF StreamOf
  <2>3. /\ off[i] = off[m] + Width + Len(v)
        /\ \A j \in 1 .. Width : S[off[m] + j] = SizeBytes(Len(v), Width)[j]
        /\ \A j \in 1 .. Len(v) : S[off[m] + Width + j] = v[j]
    BY <2>1, <2>2
  <2> QED  BY <2>3 DEF i
<1>10. Len(v) \in Nat
  BY <1>5
<1>11. ASSUME NEW k \in 1 .. Len(e) PROVE e[k] = S[sent + k]
  <2>1. CASE k \in 1 .. Width
    BY <1>7, <1>8, <1>9, <2>1
  <2>2. CASE k \notin 1 .. Width
    <3> DEFINE j == k - Width
    <3>1. j \in 1 .. Len(v) /\ k = Width + j /\ sent + k = sent + Width + j
      BY <1>4, <1>7, <1>10, <2>2
    <3> HIDE DEF j
    <3>2. e[Width + j] = v[j] /\ S[sent + Width + j] = v[j]
      BY <1>7, <1>8, <1>9, <3>1
    <3> QED  BY <3>1, <3>2
  <2> QED  BY <2>1, <2>2
<1>12. SenderAt(S, off, m + 1, sent)'
  <2>1. /\ Tail(unsent) \in Seq(Seq(Byte)) /\ Len(Tail(unsent)) = n - (m + 1)
        /\ \A k \in 1 .. Len(Tail(unsent)) : Tail(unsent)[k] = vectors[(m + 1) + k]
    <3> DEFINE t == Tail(unsent)
    <3>1. /\ t \in Seq(Seq(Byte)) /\ Len(t) = Len(unsent) - 1
          /\ \A k \in 1 .. Len(unsent) - 1 : t[k] = unsent[k + 1]
      BY <1>1, <1>4
    <3> HIDE DEF t
    <3>2. ASSUME NEW k \in 1 .. Len(t) PROVE t[k] = vectors[(m + 1) + k]
      <4>1. k + 1 \in 1 .. Len(unsent) /\ k \in 1 .. Len(unsent) - 1 /\ m + (k + 1) = (m + 1) + k
        BY <1>4, <3>1
      <4>2. unsent[k + 1] = vectors[m + (k + 1)]
        BY <1>3, <4>1 DEF SenderAt
      <4> QED  BY <3>1, <4>1, <4>2
    <3>3. Len(t) = n - (m + 1)
      BY <1>4, <3>1
    <3> QED  BY <3>1, <3>2, <3>3 DEF t
  <2>2. m + 1 \in 0 .. n
    BY <1>4, <1>5
  <2>3. sent + Len(e) = off[m + 1]
    BY <1>4, <1>7, <1>8, <1>9, <1>10
  <2>4. client = "send" => link # "none"
    BY <1>3 DEF SenderAt
  <2> QED  BY <1>1, <1>4, <1>7, <1>11, <2>1, <2>2, <2>3, <2>4 DEF SenderAt, n
<1>13. ReceiverAt(off, taken)' /\ BytesAt(S, sent, taken)'
  BY <1>1, <1>2 DEF ReceiverAt, BytesAt
<1> QED  BY <1>1, <1>2, <1>12, <1>13 DEF InStream

LEMMA SendSomeKeeps ==
    ASSUME NEW S, NEW off, NEW m, NEW sent, NEW taken, InStream(S, off, m, sent, taken), SendSome
    PROVE  \E after : InStream(S, off, m, after, taken)'
<1>1. out # << >> /\ client = "send" /\ UNCHANGED <<vectors, server, link, unsent, want, need, got, received>>
  BY DEF SendSome
<1>2. Sendable(vectors) /\ StreamOf(S, off, vectors) /\ ReceiverAt(off, taken) /\ BytesAt(S, sent, taken)
  BY DEF InStream
<1>3. SenderAt(S, off, m, sent)
  BY DEF InStream
<1>4. sent \in Nat /\ taken \in Nat /\ out \in Seq(Byte) /\ wire \in Seq(Byte) /\ got \in Seq(Byte)
  BY <1>2, <1>3 DEF SenderAt, BytesAt
<1>5. ReceiverAt(off, taken)'
  BY <1>1, <1>2 DEF ReceiverAt
\* Whether the kernel keeps the bytes or not, the client has got rid of them.
<1>6. ASSUME NEW k \in 1 .. Len(out), out' = SubSeq(out, k + 1, Len(out)), UNCHANGED client
      PROVE  SenderAt(S, off, m, sent + k)'
  <2> DEFINE l == Len(out)
             rest == SubSeq(out, k + 1, l)
  <2>1. l \in Nat /\ k \in 1 .. l
    BY <1>4
  <2>2. rest \in Seq(Byte) /\ Len(rest) = l - k /\ \A j \in 1 .. l - k : rest[j] = out[k + j]
    <3>1. k \in 0 .. Len(out)
      BY <1>4
    <3> QED  BY <1>4, <3>1, TakeAndDrop
  <2>3. sent + l = off[m] /\ \A j \in 1 .. l : out[j] = S[sent + j]
    BY <1>3 DEF SenderAt
  <2> HIDE DEF l, rest
  <2>4. ASSUME NEW j \in 1 .. Len(rest) PROVE rest[j] = S[(sent + k) + j]
    <3>1. j \in 1 .. l - k /\ k + j \in 1 .. l /\ sent + (k + j) = (sent + k) + j
      BY <1>4, <2>1, <2>2
    <3> QED  BY <2>2, <2>3, <3>1
  <2>5. (sent + k) + Len(rest) = off[m] /\ sent + k \in Nat
    BY <1>4, <2>1, <2>2, <2>3
  <2>6. out' = rest
    BY <1>6 DEF rest, l
  <2>7. /\ m \in 0 .. Len(vectors) /\ unsent \in Seq(Seq(Byte)) /\ Len(unsent) = Len(vectors) - m
        /\ \A j \in 1 .. Len(unsent) : unsent[j] = vectors[m + j]
        /\ client = "send" => link # "none"
    BY <1>3 DEF SenderAt
  <2> QED  BY <1>1, <1>6, <2>2, <2>4, <2>5, <2>6, <2>7 DEF SenderAt
<1>7. ASSUME NEW k \in 1 .. Len(out), link = "up", wire' = wire \o SubSeq(out, 1, k)
      PROVE  BytesAt(S, sent + k, taken)'
  <2> DEFINE first == SubSeq(out, 1, k)
             g == Len(got)
             w == Len(wire)
  <2>1. k \in Nat /\ first \in Seq(Byte) /\ Len(first) = k /\ \A j \in 1 .. k : first[j] = out[j]
    <3>1. k \in Nat /\ k \in 0 .. Len(out)
      BY <1>4
    <3> QED  BY <1>4, <3>1, TakeAndDrop
  <2> HIDE DEF first
  <2>2. /\ wire \o first \in Seq(Byte) /\ Len(wire \o first) = w + k
        /\ \A j \in 1 .. w : (wire \o first)[j] = wire[j]
        /\ \A j \in 1 .. k : (wire \o first)[w + j] = first[j]
    BY <1>4, <2>1, AppendFacts
  <2>3. g \in Nat /\ w \in Nat
    BY <1>4
  <2>4. /\ g <= need /\ taken + g + w = sent
        /\ \A j \in 1 .. g : got[j] = S[taken + j]
        /\ \A j \in 1 .. w : wire[j] = S[taken + g + j]
    BY <1>2, <1>7 DEF BytesAt
  <2>5. \A j \in 1 .. Len(out) : out[j] = S[sent + j]
    BY <1>3 DEF SenderAt
  <2> HIDE DEF g, w
  <2>6. ASSUME NEW j \in 1 .. w + k PROVE (wire \o first)[j] = S[taken + g + j]
    <3>1. CASE j \in 1 .. w
      BY <2>2, <2>4, <3>1
    <3>2. CASE j \notin 1 .. w
      <4> DEFINE i == j - w
      <4>1. i \in 1 .. k /\ j = w + i /\ taken + g + j = sent + i
        BY <1>4, <2>1, <2>3, <2>4, <3>2
      <4>2. i \in 1 .. Len(out)
        BY <1>4, <4>1
      <4> HIDE DEF i
      <4>3. (wire \o first)[w + i] = first[i] /\ first[i] = out[i] /\ out[i] = S[sent + i]
        BY <2>1, <2>2, <2>5, <4>1, <4>2
      <4> QED  BY <4>1, <4>3
    <3> QED  BY <3>1, <3>2
  <2>7. taken + g + (w + k) = sent + k
    <3>1. taken + g + w = sent
      BY <2>4
    <3>2. taken \in Nat /\ k \in Nat
      BY <1>4, <2>1
    <3> QED  BY <2>3, <3>1, <3>2
  <2>8. sent + k <= sent + k
    BY <1>4, <2>1
  <2> QED  BY <1>1, <1>4, <1>7, <2>2, <2>4, <2>6, <2>7, <2>8 DEF BytesAt, first, g, w
<1>8. ASSUME NEW k \in Nat, link # "up", link # "none", UNCHANGED wire
      PROVE  BytesAt(S, sent + k, taken)'
  <2>1. taken + Len(got) + Len(wire) <= sent /\ taken + Len(got) + Len(wire) \in Nat
    BY <1>2, <1>4 DEF BytesAt
  <2>2. taken + Len(got) + Len(wire) <= sent + k
    BY <1>4, <2>1
  <2> QED  BY <1>1, <1>2, <1>8, <2>2 DEF BytesAt
<1>9. CASE link = "up"
  <2>1. PICK k \in 1 .. Len(out) : wire' = wire \o SubSeq(out, 1, k) /\ out' = SubSeq(out, k + 1, Len(out))
    BY <1>9 DEF SendSome
  <2>2. UNCHANGED client
    BY <1>9 DEF SendSome
  <2>3. InStream(S, off, m, sent + k, taken)'
    BY <1>1, <1>2, <1>5, <1>6, <1>7, <1>9, <2>1, <2>2 DEF InStream
  <2> QED  BY <2>3
<1>10. CASE link # "up"
  <2>1. link # "none"
    BY <1>1, <1>3 DEF SenderAt
  <2>2. UNCHANGED wire
    BY <1>10 DEF SendSome
  <2>3. CASE \E k \in 1 .. Len(out) : out' = SubSeq(out, k + 1, Len(out)) /\ UNCHANGED client
    <3>1. PICK k \in 1 .. Len(out) : out' = SubSeq(out, k + 1, Len(out)) /\ UNCHANGED client
      BY <2>3
    <3>2. k \in Nat
      BY <1>4
    <3>3. InStream(S, off, m, sent + k, taken)'
      BY <1>1, <1>2, <1>5, <1>6, <1>8, <1>10, <2>1, <2>2, <3>1, <3>2 DEF InStream
    <3> QED  BY <3>3
  <2>4. CASE client' = "threw" /\ UNCHANGED out
    <3>1. SenderAt(S, off, m, sent)'
      BY <1>1, <1>3, <2>4 DEF SenderAt
    <3>2. BytesAt(S, sent, taken)'
      BY <1>1, <1>2, <2>2 DEF BytesAt
    <3>3. InStream(S, off, m, sent, taken)'
      BY <1>1, <1>2, <1>5, <3>1, <3>2 DEF InStream
    <3> QED  BY <3>3
  <2> QED  BY <1>10, <2>3, <2>4 DEF SendSome
<1> QED  BY <1>9, <1>10

LEMMA RecvSomeKeeps ==
    ASSUME NEW S, NEW off, NEW m, NEW sent, NEW taken, InStream(S, off, m, sent, taken), RecvSome
    PROVE  InStream(S, off, m, sent, taken)'
<1>1. Sendable(vectors) /\ StreamOf(S, off, vectors) /\ SenderAt(S, off, m, sent) /\ ReceiverAt(off, taken)
  BY DEF InStream
<1>2. BytesAt(S, sent, taken)
  BY DEF InStream
<1>3. PICK k \in 1 .. Len(wire) :
          /\ Len(got) + k <= need
          /\ got' = got \o SubSeq(wire, 1, k)
          /\ wire' = SubSeq(wire, k + 1, Len(wire))
  BY DEF RecvSome
<1>4. UNCHANGED <<vectors, server, client, link, unsent, out, want, need, received>>
  BY DEF RecvSome
<1> DEFINE g == Len(got)
           w == Len(wire)
           first == SubSeq(wire, 1, k)
           rest == SubSeq(wire, k + 1, w)
<1>5. /\ taken \in Nat /\ g \in Nat /\ w \in Nat /\ k \in Nat /\ k \in 1 .. w
      /\ got \in Seq(Byte) /\ wire \in Seq(Byte)
  BY <1>2 DEF BytesAt
<1>6. first \in Seq(Byte) /\ Len(first) = k /\ \A j \in 1 .. k : first[j] = wire[j]
  <2>1. k \in 0 .. Len(wire)
    BY <1>5
  <2> QED  BY <1>5, <2>1, TakeAndDrop
<1>7. rest \in Seq(Byte) /\ Len(rest) = w - k /\ \A j \in 1 .. w - k : rest[j] = wire[k + j]
  <2>1. k \in 0 .. Len(wire)
    BY <1>5
  <2> QED  BY <1>5, <2>1, TakeAndDrop
<1>8. /\ \A j \in 1 .. g : got[j] = S[taken + j]
      /\ \A j \in 1 .. w : wire[j] = S[taken + g + j]
      /\ taken + g + w <= sent
      /\ link \in {"none", "up"} => taken + g + w = sent
  BY <1>2 DEF BytesAt
<1>9. got' = got \o first /\ wire' = rest /\ g + k <= need
  BY <1>3
<1> HIDE DEF first, rest
<1>10. /\ got \o first \in Seq(Byte) /\ Len(got \o first) = g + k
       /\ \A j \in 1 .. g : (got \o first)[j] = got[j]
       /\ \A j \in 1 .. k : (got \o first)[g + j] = first[j]
  BY <1>5, <1>6, AppendFacts
<1> HIDE DEF g, w
<1>11. ASSUME NEW j \in 1 .. g + k PROVE (got \o first)[j] = S[taken + j]
  <2>1. CASE j \in 1 .. g
    BY <1>8, <1>10, <2>1
  <2>2. CASE j \notin 1 .. g
    <3> DEFINE i == j - g
    <3>1. i \in 1 .. k /\ j = g + i /\ taken + j = taken + g + i /\ i \in 1 .. w
      BY <1>5, <2>2
    <3> HIDE DEF i
    <3>2. (got \o first)[g + i] = first[i] /\ first[i] = wire[i] /\ wire[i] = S[taken + g + i]
      BY <1>6, <1>8, <1>10, <3>1
    <3> QED  BY <3>1, <3>2
  <2> QED  BY <2>1, <2>2
<1>12. ASSUME NEW j \in 1 .. w - k PROVE rest[j] = S[taken + (g + k) + j]
  <2>1. k + j \in 1 .. w /\ taken + g + (k + j) = taken + (g + k) + j
    BY <1>5
  <2>2. rest[j] = wire[k + j] /\ wire[k + j] = S[taken + g + (k + j)]
    BY <1>7, <1>8, <2>1
  <2> QED  BY <2>1, <2>2
<1>13. taken + (g + k) + (w - k) = taken + g + w
  BY <1>5
<1>14. BytesAt(S, sent, taken)'
  BY <1>4, <1>5, <1>7, <1>8, <1>9, <1>10, <1>11, <1>12, <1>13 DEF BytesAt
<1>15. SenderAt(S, off, m, sent)' /\ ReceiverAt(off, taken)'
  BY <1>1, <1>4 DEF SenderAt, ReceiverAt
<1> QED  BY <1>1, <1>4, <1>14, <1>15 DEF InStream

\* Once a size is complete it is that of the next vector.
LEMMA SizeArrives ==
    ASSUME NEW S, NEW off, NEW m, NEW sent, NEW taken, InStream(S, off, m, sent, taken),
           want = "size", Len(got) = need
    PROVE  Len(received) < Len(vectors) /\ LittleEndian(got) = Len(vectors[Len(received) + 1])
<1> DEFINE n == Len(vectors)
           r == Len(received)
<1>1. Sendable(vectors) /\ StreamOf(S, off, vectors) /\ SenderAt(S, off, m, sent) /\ BytesAt(S, sent, taken)
  BY DEF InStream
<1>2. /\ received \in Seq(Seq(Byte)) /\ r <= n /\ need = Width /\ taken = off[r]
      /\ vectors \in Seq(Seq(Byte)) /\ Width \in Nat /\ Width >= 1
  BY <1>1, NetIOStreamAssumption DEF InStream, ReceiverAt, Sendable
<1>3. r \in Nat /\ n \in Nat /\ r \in 0 .. n
  BY <1>2
<1>4. taken + Width <= sent
  <2>1. taken + Len(got) + Len(wire) <= sent /\ taken \in Nat /\ Len(wire) \in Nat /\ sent \in Nat
    BY <1>1 DEF BytesAt, SenderAt
  <2> QED  BY <1>2, <2>1
<1>5. sent <= off[n]
  <2>1. off[m] <= off[n] /\ sent + Len(out) = off[m] /\ Len(out) \in Nat /\ sent \in Nat
    BY <1>1 DEF StreamOf, SenderAt
  <2>2. off[m] \in Nat /\ off[n] \in Nat
    <3>1. m \in 0 .. n /\ n \in 0 .. n
      BY <1>1, <1>3 DEF SenderAt
    <3> QED  BY <1>1, <3>1 DEF StreamOf
  <2> QED  BY <2>1, <2>2
<1>6. r # n
  <2> SUFFICES ASSUME r = n PROVE FALSE
    OBVIOUS
  <2>1. off[n] \in Nat /\ sent \in Nat /\ taken = off[n]
    <3>1. n \in 0 .. n
      BY <1>3
    <3> QED  BY <1>1, <1>2, <3>1 DEF StreamOf, SenderAt
  <2> HIDE DEF r, n
  <2> QED  BY <1>2, <1>4, <1>5, <2>1
<1> DEFINE v == vectors[r + 1]
<1>7. r + 1 \in 1 .. n /\ (r + 1) - 1 = r
  BY <1>2, <1>3, <1>6
<1>8. v \in Seq(Byte) /\ Len(v) < Power(Width)
  BY <1>1, <1>2, <1>7 DEF Sendable
<1> DEFINE size == SizeBytes(Len(v), Width)
<1>9. size \in Seq(Byte) /\ Len(size) = Width /\ LittleEndian(size) = Len(v)
  <2> HIDE DEF v
  <2> QED  BY <1>8, EncodedFacts
<1>10. \A j \in 1 .. Width : S[off[r] + j] = size[j]
  <2> DEFINE i == r + 1
  <2>1. i \in 1 .. Len(vectors) /\ i - 1 = r /\ vectors[i] = v
    BY <1>7
  <2> HIDE DEF i, v, r
  <2>2. \A j \in 1 .. Width : S[off[i - 1] + j] = SizeBytes(Len(vectors[i]), Width)[j]
    BY <1>1, <2>1 DEF StreamOf
  <2> QED  BY <2>1, <2>2
<1>11. got \in Seq(Byte) /\ Len(got) = Width /\ \A j \in 1 .. Width : got[j] = S[off[r] + j]
  BY <1>1, <1>2 DEF BytesAt
<1> HIDE DEF size, v
<1>12. got = size
  BY <1>2, <1>9, <1>10, <1>11
<1> QED  BY <1>2, <1>3, <1>6, <1>9, <1>12 DEF v

\* Once its data are complete they are those of the next vector.
LEMMA DataArrive ==
    ASSUME NEW S, NEW off, NEW m, NEW sent, NEW taken, InStream(S, off, m, sent, taken),
           want = "data", Len(got) = need
    PROVE  /\ Len(received) < Len(vectors) /\ got = vectors[Len(received) + 1]
           /\ off[Len(received) + 1] = taken + Len(got)
<1> DEFINE n == Len(vectors)
           r == Len(received)
           i == r + 1
           v == vectors[i]
<1>1. Sendable(vectors) /\ StreamOf(S, off, vectors) /\ BytesAt(S, sent, taken)
  BY DEF InStream
<1>2. /\ received \in Seq(Seq(Byte)) /\ r < n /\ need = Len(v) /\ taken = off[r] + Width
      /\ vectors \in Seq(Seq(Byte))
  BY <1>1 DEF InStream, ReceiverAt, Sendable
<1>3. r \in Nat /\ n \in Nat
  BY <1>2
<1>4. i \in 1 .. n /\ i - 1 = r
  <2> HIDE DEF r, n
  <2> QED  BY <1>2, <1>3
<1>5. v \in Seq(Byte)
  BY <1>2, <1>4
<1> HIDE DEF i
<1>6. /\ off[i] = off[i - 1] + Width + Len(v)
      /\ \A j \in 1 .. Len(v) : S[off[i - 1] + Width + j] = v[j]
  BY <1>1, <1>4 DEF StreamOf
<1>7. got \in Seq(Byte) /\ Len(got) = Len(v) /\ \A j \in 1 .. Len(got) : got[j] = S[taken + j]
  BY <1>1, <1>2 DEF BytesAt
<1> HIDE DEF v
<1>8. \A j \in 1 .. Len(v) : got[j] = v[j]
  BY <1>2, <1>4, <1>6, <1>7
<1>9. got = v
  BY <1>5, <1>7, <1>8
<1>10. off[i] = taken + Len(got)
  BY <1>2, <1>4, <1>6, <1>7
<1> QED  BY <1>2, <1>9, <1>10 DEF i, v

LEMMA RecvVecKeeps ==
    ASSUME NEW S, NEW off, NEW m, NEW sent, NEW taken, InStream(S, off, m, sent, taken), RecvVec
    PROVE  \E after : InStream(S, off, m, sent, after)'
<1>1. /\ Len(got) = need /\ got' = << >> /\ server = "recv"
      /\ UNCHANGED <<vectors, client, link, unsent, out, wire>>
  BY DEF RecvVec, RecvDataReturns
<1>2. /\ Sendable(vectors) /\ StreamOf(S, off, vectors) /\ SenderAt(S, off, m, sent)
      /\ ReceiverAt(off, taken) /\ BytesAt(S, sent, taken)
  BY DEF InStream
<1>3. PICK after : after = taken + Len(got)
  OBVIOUS
<1>4. /\ taken \in Nat /\ Len(got) \in Nat /\ after \in Nat /\ Width \in Nat
      /\ wire \in Seq(Byte) /\ Len(wire) \in Nat
      /\ received \in Seq(Seq(Byte)) /\ vectors \in Seq(Seq(Byte))
  BY <1>2, <1>3, NetIOStreamAssumption DEF BytesAt, ReceiverAt, Sendable
<1>5. SenderAt(S, off, m, sent)'
  BY <1>1, <1>2 DEF SenderAt
<1>6. /\ \A k \in 1 .. Len(wire) : wire[k] = S[after + k]
      /\ after + Len(wire) <= sent
      /\ link \in {"none", "up"} => after + Len(wire) = sent
  BY <1>2, <1>3 DEF BytesAt
<1>7. need' \in Nat => BytesAt(S, sent, after)'
  <2> HAVE need' \in Nat
  <2>1. got' \in Seq(Byte) /\ Len(got') = 0 /\ Len(got') <= need'
    <3>1. << >> \in Seq(Byte) /\ Len(<< >>) = 0
      OBVIOUS
    <3>2. 0 <= need'
      OBVIOUS
    <3> QED  BY <1>1, <3>1, <3>2
  <2>2. after + Len(got') = after
    BY <1>4, <2>1
  <2>3. wire' = wire /\ link' = link
    BY <1>1
  <2>4. \A k \in 1 .. Len(got') : got'[k] = S[after + k]
    BY <2>1
  <2>5. \A k \in 1 .. Len(wire') : wire'[k] = S[after + Len(got') + k]
    BY <1>6, <2>2, <2>3
  <2>6. after + Len(got') + Len(wire') <= sent
    BY <1>6, <2>2, <2>3
  <2>7. link' \in {"none", "up"} => after + Len(got') + Len(wire') = sent
    BY <1>6, <2>2, <2>3
  <2>8. wire' \in Seq(Byte)
    BY <1>4, <2>3
  <2> QED  BY <1>4, <2>1, <2>4, <2>5, <2>6, <2>7, <2>8, Zenon DEF BytesAt
<1>8. need' \in Nat /\ ReceiverAt(off, after)'
  <2> DEFINE r == Len(received)
  <2>1. CASE want = "size"
    <3>1. r < Len(vectors) /\ LittleEndian(got) = Len(vectors[r + 1])
      BY <1>1, <2>1, SizeArrives
    <3>2. want' = "data" /\ need' = LittleEndian(got) /\ UNCHANGED <<server, received>>
      BY <2>1 DEF RecvVec
    <3>3. after = off[r] + Width
      BY <1>1, <1>2, <1>3, <2>1 DEF ReceiverAt
    <3>4. Len(vectors[r + 1]) \in Nat
      <4>1. r + 1 \in 1 .. Len(vectors)
        BY <1>4, <3>1
      <4> QED  BY <1>4, <4>1
    <3>5. r <= Len(vectors)
      BY <1>4, <3>1
    <3>6. received' = received /\ vectors' = vectors
      BY <1>1, <3>2
    <3>7. need' \in Nat
      BY <3>1, <3>2, <3>4
    <3>8. received' \in Seq(Seq(Byte)) /\ Len(received') <= Len(vectors')
      BY <1>4, <3>5, <3>6
    <3>9. /\ want' = "data" /\ Len(received') < Len(vectors')
          /\ need' = Len(vectors'[Len(received') + 1]) /\ after = off[Len(received')] + Width
      BY <3>1, <3>2, <3>3, <3>6
    <3> QED  BY <3>7, <3>8, <3>9, Zenon DEF ReceiverAt
  <2>2. CASE want # "size"
    <3>1. want = "data"
      BY <1>2, <2>2 DEF ReceiverAt
    <3>2. r < Len(vectors) /\ off[r + 1] = after
      BY <1>1, <1>3, <3>1, DataArrive
    <3>3. want' = "size" /\ need' = Width /\ received' = Append(received, got)
      BY <2>2 DEF RecvVec
    <3>4. got \in Seq(Byte)
      BY <1>2 DEF BytesAt
    <3>5. received' \in Seq(Seq(Byte)) /\ Len(received') = r + 1
      BY <1>4, <3>3, <3>4
    <3>6. Len(received') <= Len(vectors')
      <4>1. r + 1 <= Len(vectors)
        BY <1>4, <3>2
      <4> QED  BY <1>1, <3>5, <4>1
    <3>7. want' = "size" /\ need' = Width /\ after = off[Len(received')]
      BY <3>2, <3>3, <3>5
    <3> QED  BY <1>4, <3>5, <3>6, <3>7, Zenon DEF ReceiverAt
  <2> QED  BY <2>1, <2>2
<1>9. InStream(S, off, m, sent, after)'
  BY <1>1, <1>2, <1>5, <1>7, <1>8 DEF InStream
<1> QED  BY <1>9

LEMMA LinkLostKeeps ==
    ASSUME NEW S, NEW off, NEW m, NEW sent, NEW taken, InStream(S, off, m, sent, taken), LinkLost
    PROVE  InStream(S, off, m, sent, taken)'
<1>1. Sendable(vectors) /\ StreamOf(S, off, vectors) /\ SenderAt(S, off, m, sent) /\ ReceiverAt(off, taken)
  BY DEF InStream
<1>2. BytesAt(S, sent, taken)
  BY DEF InStream
<1>3. PICK k \in 0 .. Len(wire) : wire' = SubSeq(wire, 1, k)
  BY DEF LinkLost
<1>4. link' = "lost" /\ UNCHANGED <<vectors, server, client, unsent, out, want, need, got, received>>
  BY DEF LinkLost
<1> DEFINE g == Len(got)
           w == Len(wire)
           first == SubSeq(wire, 1, k)
<1>5. /\ taken \in Nat /\ g \in Nat /\ w \in Nat /\ k \in Nat /\ k <= w /\ wire \in Seq(Byte) /\ sent \in Nat
  BY <1>1, <1>2 DEF BytesAt, SenderAt
<1>6. first \in Seq(Byte) /\ Len(first) = k /\ \A j \in 1 .. k : first[j] = wire[j]
  <2>1. k \in 0 .. Len(wire)
    BY <1>5
  <2> QED  BY <1>5, <2>1, TakeAndDrop
<1>7. taken + g + w <= sent /\ \A j \in 1 .. w : wire[j] = S[taken + g + j]
  BY <1>2 DEF BytesAt
<1>8. wire' = first
  BY <1>3
<1> HIDE DEF g, w, first
<1>9. taken + g + k <= sent
  <2>1. taken + g + w <= sent
    BY <1>7
  <2> QED  BY <1>5, <2>1
<1>10. \A j \in 1 .. k : first[j] = S[taken + g + j]
  <2> TAKE j \in 1 .. k
  <2>1. j \in 1 .. w
    BY <1>5
  <2> QED  BY <1>6, <1>7, <2>1
<1>11. BytesAt(S, sent, taken)'
  BY <1>2, <1>4, <1>6, <1>8, <1>9, <1>10 DEF BytesAt, g
<1>12. SenderAt(S, off, m, sent)' /\ ReceiverAt(off, taken)'
  BY <1>1, <1>4 DEF SenderAt, ReceiverAt
<1> QED  BY <1>1, <1>4, <1>11, <1>12 DEF InStream

\* The steps that move no byte.
LEMMA QuietKeeps ==
    ASSUME NEW S, NEW off, NEW m, NEW sent, NEW taken, InStream(S, off, m, sent, taken),
           Listen \/ Connect \/ Accept \/ CloseClient \/ RecvThrows \/ UNCHANGED streamVars
    PROVE  InStream(S, off, m, sent, taken)'
<1>1. UNCHANGED <<vectors, unsent, out, wire, want, need, got, received>>
  BY DEF Listen, Connect, Accept, CloseClient, RecvThrows, streamVars
<1>2. client' = "send" => link' # "none"
  <2>1. client = "send" => link # "none"
    BY DEF InStream, SenderAt
  <2> QED  BY <2>1 DEF Listen, Connect, Accept, CloseClient, RecvThrows, streamVars
<1>3. link' \in {"none", "up"} => link \in {"none", "up"}
  BY DEF Listen, Connect, Accept, CloseClient, RecvThrows, streamVars
<1>4. Sendable(vectors)' /\ StreamOf(S, off, vectors)'
  BY <1>1 DEF InStream
<1>5. SenderAt(S, off, m, sent)'
  BY <1>1, <1>2 DEF InStream, SenderAt
<1>6. ReceiverAt(off, taken)'
  BY <1>1 DEF InStream, ReceiverAt
<1>7. BytesAt(S, sent, taken)'
  BY <1>1, <1>3 DEF InStream, BytesAt
<1> QED  BY <1>4, <1>5, <1>6, <1>7 DEF InStream

LEMMA StreamInvStep == StreamInv /\ [StreamNext]_streamVars => StreamInv'
<1> SUFFICES ASSUME StreamInv, [StreamNext]_streamVars PROVE StreamInv'
  OBVIOUS
<1>1. PICK S, off, m, sent, taken : InStream(S, off, m, sent, taken)
  BY DEF StreamInv
<1>2. CASE SendVec
  <2>1. InStream(S, off, m + 1, sent, taken)'
    BY <1>1, <1>2, SendVecKeeps
  <2> QED  BY <2>1 DEF StreamInv
<1>3. CASE SendSome
  <2>1. PICK after : InStream(S, off, m, after, taken)'
    BY <1>1, <1>3, SendSomeKeeps
  <2> QED  BY <2>1 DEF StreamInv
<1>4. CASE RecvSome
  <2>1. InStream(S, off, m, sent, taken)'
    BY <1>1, <1>4, RecvSomeKeeps
  <2> QED  BY <2>1 DEF StreamInv
<1>5. CASE RecvVec
  <2>1. PICK after : InStream(S, off, m, sent, after)'
    BY <1>1, <1>5, RecvVecKeeps
  <2> QED  BY <2>1 DEF StreamInv
<1>6. CASE LinkLost
  <2>1. InStream(S, off, m, sent, taken)'
    BY <1>1, <1>6, LinkLostKeeps
  <2> QED  BY <2>1 DEF StreamInv
<1>7. CASE Listen \/ Connect \/ Accept \/ CloseClient \/ RecvThrows \/ UNCHANGED streamVars
  <2>1. InStream(S, off, m, sent, taken)'
    BY <1>1, <1>7, QuietKeeps
  <2> QED  BY <2>1 DEF StreamInv
<1> QED  BY <1>2, <1>3, <1>4, <1>5, <1>6, <1>7 DEF StreamNext, ClientStep, ServerStep

LEMMA PendingFacts ==
    ASSUME NEW vs \in Seq(Seq(Byte)), NEW r \in Nat, r < Len(vs)
    PROVE  LET pending == SubSeq(vs, r + 1, Len(vs))
           IN  /\ pending # << >> /\ Head(pending) = vs[r + 1]
               /\ Tail(pending) = SubSeq(vs, (r + 1) + 1, Len(vs))
<1> DEFINE B == Seq(Byte)
           n == Len(vs)
           i == r + 1
           pending == SubSeq(vs, i, n)
<1>1. vs \in Seq(B) /\ n \in Nat /\ r < n
  OBVIOUS
<1> HIDE DEF B
<1>2. i \in 1 .. n /\ n \in i .. n /\ i \in Int /\ n \in Int /\ i <= n /\ n - i + 1 >= 1
  <2> HIDE DEF n
  <2> QED  BY <1>1
<1> HIDE DEF i
<1>3. Head(pending) = vs[i] /\ Tail(pending) = SubSeq(vs, i + 1, n)
  BY <1>1, <1>2, HeadTailOfSubSeq
<1>4. Len(pending) = n - i + 1
  <2>1. \A k \in i .. n : vs[k] \in B
    BY <1>1, <1>2
  <2> QED  BY <1>2, <2>1, SubSeqProperties
<1>5. pending # << >>
  <2> HIDE DEF pending, n
  <2>1. Len(pending) # 0
    BY <1>2, <1>4
  <2> QED  BY <2>1
<1> QED  BY <1>3, <1>5 DEF i

\* Every step of the stream delivers the next vector, ends the receiver, or is
\* none for Transfer.
LEMMA StepDelivers ==
    ASSUME StreamInv, [StreamNext]_streamVars
    PROVE  [Whole!TransferNext]_(Whole!transferVars)
<1> DEFINE n == Len(vectors)
           r == Len(received)
           pending == SubSeq(vectors, r + 1, n)
           broken == server = "threw"
<1> SUFFICES Whole!Deliver \/ Whole!Break \/ UNCHANGED <<pending, received, broken>>
  BY DEF Whole!TransferNext, Whole!transferVars
<1>1. CASE RecvVec /\ want # "size"
  <2>1. PICK S, off, m, sent, taken : InStream(S, off, m, sent, taken)
    BY DEF StreamInv
  <2>2. server = "recv" /\ received' = Append(received, got) /\ server' \in {"done", "recv"}
        /\ vectors' = vectors /\ Len(got) = need
    BY <1>1 DEF RecvVec, RecvDataReturns
  <2>3. want = "data"
    BY <1>1, <2>1 DEF InStream, ReceiverAt
  <2>4. r < n /\ got = vectors[r + 1]
    BY <2>1, <2>2, <2>3, DataArrive
  <2>5. received \in Seq(Seq(Byte)) /\ vectors \in Seq(Seq(Byte)) /\ got \in Seq(Byte)
    BY <2>1 DEF InStream, ReceiverAt, Sendable, BytesAt
  <2>6. r \in Nat /\ Len(received') = r + 1
    BY <2>2, <2>5
  <2>7. pending # << >> /\ Head(pending) = vectors[r + 1] /\ Tail(pending) = SubSeq(vectors, (r + 1) + 1, n)
    BY <2>4, <2>5, <2>6, PendingFacts
  <2>8. pending' = Tail(pending)
    BY <2>2, <2>6, <2>7
  <2>9. ~ broken /\ ~ broken'
    BY <2>2
  <2>10. received' = Append(received, Head(pending))
    BY <2>2, <2>4, <2>7
  <2> QED  BY <2>7, <2>8, <2>9, <2>10 DEF Whole!Deliver
<1>2. CASE RecvVec /\ want = "size"
  <2>1. UNCHANGED <<vectors, server, received>>
    BY <1>2 DEF RecvVec
  <2> QED  BY <2>1
<1>3. CASE RecvThrows
  <2>1. server' = "threw" /\ UNCHANGED <<vectors, received>>
    BY <1>3 DEF RecvThrows
  <2> QED  BY <2>1 DEF Whole!Break
<1>4. CASE Listen
  <2>1. server = "start" /\ server' \in {"accept", "threw"} /\ UNCHANGED <<vectors, received>>
    BY <1>4 DEF Listen
  <2>2. CASE server' = "threw"
    BY <2>1, <2>2 DEF Whole!Break
  <2>3. CASE server' = "accept"
    BY <2>1, <2>3
  <2> QED  BY <2>1, <2>2, <2>3
<1>5. CASE Accept
  <2>1. server = "accept" /\ server' = "recv" /\ UNCHANGED <<vectors, received>>
    BY <1>5 DEF Accept
  <2> QED  BY <2>1
<1>6. CASE Connect \/ SendVec \/ SendSome \/ CloseClient \/ RecvSome \/ LinkLost \/ UNCHANGED streamVars
  <2>1. UNCHANGED <<vectors, server, received>>
    BY <1>6 DEF Connect, SendVec, SendSome, CloseClient, RecvSome, LinkLost, streamVars
  <2> QED  BY <2>1
<1> QED  BY <1>1, <1>2, <1>3, <1>4, <1>5, <1>6 DEF StreamNext, ClientStep, ServerStep

\* However the kernel cuts the stream of bytes, and wherever the connection
\* breaks, RecvVec returns the vectors that were sent, whole and in their order:
\* for any vectors whose lengths fit into the bytes of a size, and a kernel that
\* holds any number of bytes.
THEOREM StreamDelivers ==
    (\E vs : Sendable(vs) /\ StreamInit(vs)) /\ [][StreamNext]_streamVars => VectorsArriveWhole
<1>1. (\E vs : Sendable(vs) /\ StreamInit(vs)) => StreamInv /\ Whole!TransferInit
  <2> SUFFICES ASSUME NEW vs, Sendable(vs), StreamInit(vs) PROVE StreamInv /\ Whole!TransferInit
    OBVIOUS
  <2>1. received = << >> /\ server = "start"
    BY DEF StreamInit
  <2> QED  BY <2>1, StreamStarts DEF Whole!TransferInit
<1>2. StreamInv /\ [StreamNext]_streamVars => [Whole!TransferNext]_(Whole!transferVars)
  BY StepDelivers
<1> QED
  BY <1>1, <1>2, StreamInvStep, PTL DEF VectorsArriveWhole, Whole!TransferSpec

\* The same of the vectors of the run.  One byte for the size would be too few
\* for the longest of them; the code has eight.
THEOREM VectorsWhole ==
    ASSUME Width >= 2
    PROVE  Spec => VectorsArriveWhole
<1>1. Init => \E vs : Sendable(vs) /\ StreamInit(vs)
  <2> SUFFICES ASSUME Init PROVE \E vs : Sendable(vs) /\ StreamInit(vs)
    OBVIOUS
  <2>1. \A v \in Vectors : v \in Seq(Byte) /\ Len(v) < Power(Width)
    <3> DEFINE long == [k \in 1 .. Base |-> k - 1]
    <3>1. Base < Power(Width) /\ Power(Width) \in Nat
      <4>1. Width - 1 \in Nat \ {0} /\ (Width - 1) - 1 \in Nat /\ (Width - 1) + 1 = Width /\ ((Width - 1) - 1) + 1 = Width - 1
        BY NetIOStreamAssumption
      <4> DEFINE p == Power((Width - 1) - 1)
                 q == Power(Width - 1)
      <4>2. p \in Nat /\ p >= 1 /\ q = Base * p /\ Power(Width) = Base * q /\ q \in Nat
        BY <4>1, PowerStep
      <4> HIDE DEF p, q
      <4>3. \A x, y \in Nat : x >= 2 /\ y >= 2 => x * y > x
        <5> TAKE x, y \in Nat
        <5> HAVE x >= 2 /\ y >= 2
        <5>1. PICK d \in Nat : y = 2 + d
          <6>1. y - 2 \in Nat /\ y = 2 + (y - 2)
            OBVIOUS
          <6> QED  BY <6>1
        <5>2. x * y = x + x + x * d /\ x * d \in Nat
          BY <5>1
        <5> QED  BY <5>2
      <4>4. \A x, y \in Nat : x >= 2 /\ y >= 1 => x * y >= 2
        <5> TAKE x, y \in Nat
        <5> HAVE x >= 2 /\ y >= 1
        <5>1. PICK d \in Nat : y = 1 + d
          <6>1. y - 1 \in Nat /\ y = 1 + (y - 1)
            OBVIOUS
          <6> QED  BY <6>1
        <5>2. x * y = x + x * d /\ x * d \in Nat
          BY <5>1
        <5> QED  BY <5>2
      <4>5. q >= 2
        BY <4>2, <4>4, PowerStep
      <4>6. Base * q > Base /\ Base * q \in Nat
        BY <4>2, <4>3, <4>5, PowerStep, ProductInNat
      <4> QED  BY <4>2, <4>6, PowerStep
    <3>2. << >> \in Seq(Byte) /\ Len(<< >>) = 0
      OBVIOUS
    <3>3. <<Base - 1>> \in Seq(Byte) /\ Len(<<Base - 1>>) = 1
      <4>1. Base - 1 \in Byte
        BY PowerStep DEF Byte
      <4> QED  BY <4>1
    <3>4. long \in Seq(Byte) /\ Len(long) = Base
      <4>1. \A k \in 1 .. Base : k - 1 \in Byte
        BY PowerStep DEF Byte
      <4>2. long \in [1 .. Base -> Byte]
        BY <4>1
      <4> HIDE DEF long
      <4> QED  BY <4>2, PowerStep
    <3> HIDE DEF long
    <3>5. 0 < Power(Width) /\ 1 < Power(Width)
      BY <3>1, PowerStep
    <3> QED  BY <3>1, <3>2, <3>3, <3>4, <3>5 DEF Vectors, long
  <2>2. CASE StreamInit(<< >>)
    <3>1. Sendable(<< >>)
      BY DEF Sendable
    <3> QED  BY <2>2, <3>1
  <2>3. CASE \E vs \in [1 .. 2 -> Vectors] : StreamInit(vs)
    <3>1. PICK vs \in [1 .. 2 -> Vectors] : StreamInit(vs)
      BY <2>3
    <3>2. \A k \in 1 .. 2 : vs[k] \in Seq(Byte) /\ Len(vs[k]) < Power(Width)
      BY <2>1
    <3>3. vs \in Seq(Seq(Byte)) /\ Len(vs) = 2
      <4>1. vs \in [1 .. 2 -> Seq(Byte)]
        BY <3>2
      <4> DEFINE B == Seq(Byte)
      <4>2. vs \in [1 .. 2 -> B]
        BY <4>1
      <4> HIDE DEF B
      <4>3. \A n \in Nat : \A s \in [1 .. n -> B] : s \in Seq(B) /\ Len(s) = n
        OBVIOUS
      <4>4. vs \in Seq(B) /\ Len(vs) = 2
        BY <4>2, <4>3, 2 \in Nat, Zenon
      <4> QED  BY <4>4 DEF B
    <3>4. Sendable(vs)
      BY <3>2, <3>3 DEF Sendable
    <3> QED  BY <3>1, <3>4
  <2> QED  BY <2>2, <2>3 DEF Init
<1>2. [Next]_vars => [StreamNext]_streamVars
  BY DEF Next, Climb, Stream, Done, vars, streamVars
<1> QED  BY <1>1, <1>2, StreamDelivers, PTL DEF Spec
=============================================================================
