--------------------------- MODULE RingORAMProofs ---------------------------
(***************************************************************************)
(* Theorems about Ring ORAM for any tree, Z, S and A, any addresses and    *)
(* any faults: the types, the budget of reads of each bucket and the       *)
(* conversation of client and server; then where the copies of a block     *)
(* are, what each call holds at each of its points, why nothing throws     *)
(* where nothing fails, and the refinement of the RAM.                     *)
(***************************************************************************)
EXTENDS RingORAM, FoundationsLemmas, FiniteSetTheorems

LEMMA Constants ==
    /\ TreeHeight \in Nat /\ Z \in Nat \ {0} /\ S \in Nat \ {0} /\ A \in Nat \ {0}
    /\ NumBlocks \in Nat \ {0} /\ SizeTModulus \in Nat \ {0}
    /\ Zero \in Data /\ NoResult \notin Data /\ 0 \in Leaves
    /\ NumLeaves \in Nat \ {0} /\ NumTreeNodes \in Nat \ {0}
<1>1. /\ Pow2(TreeHeight) \in Nat /\ Pow2(TreeHeight) >= 1
      /\ Pow2(TreeHeight + 1) = 2 * Pow2(TreeHeight)
  BY TreeHeightAssumption, Pow2Step
<1> QED
  BY <1>1, TreeHeightAssumption, RingBlocksAssumption, RingClientAssumption
     DEF NumLeaves, NumTreeNodes, Leaves

-----------------------------------------------------------------------------
\* The recursive function in Pick is defined, and each of its values lists the
\* chosen elements up to there, each once.
PickedUpTo(f, s, indices, k) ==
    \E e \in [1 .. Len(f[k]) -> indices \cap (1 .. k)] :
        /\ \A i, j \in 1 .. Len(f[k]) : e[i] = e[j] => i = j
        /\ \A j \in indices \cap (1 .. k) : \E i \in 1 .. Len(f[k]) : e[i] = j
        /\ \A i \in 1 .. Len(f[k]) : f[k][i] = s[e[i]]

PickPrefixes(f, X, s, indices) ==
    /\ f \in [0 .. Len(s) -> Seq(X)]
    /\ f[0] = << >>
    /\ \A k \in 1 .. Len(s) :
         f[k] = IF k \in indices THEN Append(f[k - 1], s[k]) ELSE f[k - 1]
    /\ Pick(s, indices) = f[Len(s)]

LEMMA PickSteps ==
    ASSUME NEW X, NEW s \in Seq(X), NEW indices
    PROVE  \E f : PickPrefixes(f, X, s, indices)
<1> DEFINE Q == Seq(X)
           N == Len(s)
           g == [p \in Nat \X Q |->
                   IF p[1] + 1 \in indices /\ p[1] + 1 \in 1 .. N
                   THEN Append(p[2], s[p[1] + 1]) ELSE p[2]]
           Body(h) == [k \in 0 .. N |-> IF k = 0 THEN << >>
                         ELSE IF k \in indices THEN Append(h[k - 1], s[k]) ELSE h[k - 1]]
           kept == CHOOSE h : h = Body(h)
<1>1. << >> \in Q /\ N \in Nat
  OBVIOUS
<1>2. g \in [Nat \X Q -> Q]
  <2>1. ASSUME NEW p \in Nat \X Q, p[1] + 1 \in 1 .. N
        PROVE  Append(p[2], s[p[1] + 1]) \in Q
    BY <2>1
  <2> HIDE DEF Q
  <2> QED  BY <2>1
<1>3. PICK h \in [Nat -> Q] : h[0] = << >> /\ \A n \in Nat : h[n + 1] = g[<<n, h[n]>>]
  <2>1. \E h : Recursion(h, Q, << >>, g)
    <3> HIDE DEF g, Q
    <3> QED  BY <1>1, <1>2, RecursionExists, Zenon
  <2> HIDE DEF g, Q
  <2> QED  BY <2>1 DEF Recursion
<1> DEFINE f == [k \in 0 .. N |-> h[k]]
<1>4. f \in [0 .. N -> Q] /\ f[0] = << >>
  BY <1>1, <1>3
<1>5. ASSUME NEW k \in 1 .. N
      PROVE  f[k] = IF k \in indices THEN Append(f[k - 1], s[k]) ELSE f[k - 1]
  <2> DEFINE m == k - 1
  <2>1. m \in Nat /\ m \in 0 .. N /\ m + 1 = k /\ k \in 0 .. N
    BY <1>1
  <2>2. h[m] \in Q /\ h[m + 1] = g[<<m, h[m]>>]
    <3> HIDE DEF m, g, Q
    <3> QED  BY <1>3, <2>1
  <2>3. g[<<m, h[m]>>] = IF k \in indices THEN Append(h[m], s[k]) ELSE h[m]
    <3> HIDE DEF Q
    <3> QED  BY <2>1, <2>2
  <2> HIDE DEF g
  <2> QED  BY <2>1, <2>2, <2>3
<1>6. f = Body(f)
  <2>1. ASSUME NEW k \in 0 .. N
        PROVE  f[k] = IF k = 0 THEN << >>
                      ELSE IF k \in indices THEN Append(f[k - 1], s[k]) ELSE f[k - 1]
    <3>1. CASE k = 0
      BY <1>4, <3>1
    <3>2. CASE k # 0
      <4>1. k \in 1 .. N
        BY <1>1, <3>2
      <4> HIDE DEF f
      <4> QED  BY <1>5, <3>2, <4>1
    <3> QED  BY <3>1, <3>2
  <2>2. f = [k \in 0 .. N |-> f[k]]
    OBVIOUS
  <2> HIDE DEF f, N
  <2> QED  BY <2>1, <2>2
<1>7. kept = Body(kept)
  <2> HIDE DEF f
  <2> QED  BY <1>6, Zenon
<1>8. Pick(s, indices) = kept[N]
  BY Zenon DEF Pick
<1> HIDE DEF f, kept, Q
<1>9. \A k \in 0 .. N : kept[k] = f[k]
  <2> DEFINE T == {k \in 0 .. N : kept[k] # f[k]}
  <2> SUFFICES ASSUME T # {} PROVE FALSE
    OBVIOUS
  <2>1. PICK k \in T : \A j \in T : k <= j
    BY LeastNatural, T \subseteq Nat
  <2>2. k \in 0 .. N /\ kept[k] # f[k]
    OBVIOUS
  <2>3. kept[0] = << >>
    <3>1. 0 \in 0 .. N
      BY <1>1
    <3> HIDE DEF N
    <3> QED  BY <1>7, <3>1
  <2>4. k \in 1 .. N /\ k - 1 \in 0 .. N /\ k - 1 \notin T
    BY <1>4, <2>1, <2>2, <2>3
  <2>5. kept[k - 1] = f[k - 1]
    BY <2>4
  <2>6. kept[k] = IF k \in indices THEN Append(kept[k - 1], s[k]) ELSE kept[k - 1]
    <3>1. k \in 0 .. N /\ k # 0
      BY <2>4
    <3> HIDE DEF N
    <3> QED  BY <1>7, <3>1
  <2>7. f[k] = IF k \in indices THEN Append(f[k - 1], s[k]) ELSE f[k - 1]
    BY <1>5, <2>4
  <2> QED  BY <2>2, <2>5, <2>6, <2>7
<1>10. Pick(s, indices) = f[N]
  BY <1>1, <1>8, <1>9
<1>11. PickPrefixes(f, X, s, indices)
  BY <1>4, <1>5, <1>10 DEF Q, PickPrefixes
<1> QED  BY <1>11

\* Pick keeps the chosen elements, each once.
Enumerates(e, s, indices) ==
    /\ e \in [1 .. Len(Pick(s, indices)) -> indices \cap (1 .. Len(s))]
    /\ \A i, j \in 1 .. Len(Pick(s, indices)) : e[i] = e[j] => i = j
    /\ \A j \in indices \cap (1 .. Len(s)) : \E i \in 1 .. Len(Pick(s, indices)) : e[i] = j
    /\ \A i \in 1 .. Len(Pick(s, indices)) : Pick(s, indices)[i] = s[e[i]]

LEMMA PickEnumerates ==
    ASSUME NEW X, NEW s \in Seq(X), NEW indices
    PROVE  Pick(s, indices) \in Seq(X) /\ \E e : Enumerates(e, s, indices)
<1>1. PICK f : PickPrefixes(f, X, s, indices)
  BY PickSteps, Zenon
<1>2. /\ f \in [0 .. Len(s) -> Seq(X)] /\ f[0] = << >> /\ Len(s) \in Nat
      /\ \A k \in 1 .. Len(s) :
           f[k] = IF k \in indices THEN Append(f[k - 1], s[k]) ELSE f[k - 1]
      /\ Pick(s, indices) = f[Len(s)]
  BY <1>1 DEF PickPrefixes
<1> DEFINE T == {k \in 0 .. Len(s) : ~ PickedUpTo(f, s, indices, k)}
<1>3. T = {}
  <2> SUFFICES ASSUME T # {} PROVE FALSE
    OBVIOUS
  <2>1. PICK k \in T : \A j \in T : k <= j
    BY LeastNatural, T \subseteq Nat
  <2>2. k \in 0 .. Len(s) /\ ~ PickedUpTo(f, s, indices, k)
    OBVIOUS
  <2>3. CASE k = 0
    <3>1. Len(f[0]) = 0 /\ indices \cap (1 .. 0) = {} /\ 1 .. 0 = {}
      BY <1>2
    <3>2. [i \in {} |-> 0] \in [{} -> {}]
      OBVIOUS
    <3>3. PickedUpTo(f, s, indices, 0)
      BY <3>1, <3>2 DEF PickedUpTo
    <3> QED  BY <2>2, <2>3, <3>3
  <2>4. CASE k # 0
    <3> DEFINE m == k - 1
    <3>1. k \in 1 .. Len(s) /\ m \in 0 .. Len(s) /\ m \notin T /\ m \in Nat /\ k = m + 1
      BY <1>2, <2>1, <2>2, <2>4
    <3>2. PickedUpTo(f, s, indices, m)
      BY <3>1
    <3>3. f[m] \in Seq(X) /\ Len(f[m]) \in Nat /\ s[k] \in X
      BY <1>2, <3>1
    <3>4. f[k] = IF k \in indices THEN Append(f[m], s[k]) ELSE f[m]
      BY <1>2, <3>1
    <3> HIDE DEF m, T
    <3>5. CASE k \notin indices
      <4>1. f[k] = f[m] /\ indices \cap (1 .. k) = indices \cap (1 .. m)
        BY <3>1, <3>4, <3>5
      <4> QED  BY <2>2, <3>2, <4>1 DEF PickedUpTo
    <3>6. CASE k \in indices
      <4> DEFINE n == Len(f[m])
      <4>1. /\ f[k] = Append(f[m], s[k]) /\ Len(f[k]) = n + 1 /\ f[k][n + 1] = s[k]
            /\ \A i \in 1 .. n : f[k][i] = f[m][i]
        BY <3>3, <3>4, <3>6
      <4>2. PICK e \in [1 .. n -> indices \cap (1 .. m)] :
              /\ \A i, j \in 1 .. n : e[i] = e[j] => i = j
              /\ \A j \in indices \cap (1 .. m) : \E i \in 1 .. n : e[i] = j
              /\ \A i \in 1 .. n : f[m][i] = s[e[i]]
        BY <3>2 DEF PickedUpTo
      <4> DEFINE ee == [i \in 1 .. n + 1 |-> IF i = n + 1 THEN k ELSE e[i]]
      <4> HIDE DEF n
      <4>3. /\ n \in Nat /\ ee[n + 1] = k /\ \A i \in 1 .. n : ee[i] = e[i] /\ e[i] \in 1 .. m /\ e[i] # k
            /\ \A i \in 1 .. n + 1 : i = n + 1 \/ i \in 1 .. n
            /\ \A j \in indices \cap (1 .. k) : j = k \/ j \in indices \cap (1 .. m)
        <5>1. n \in Nat
          BY <3>3 DEF n
        <5>2. ee[n + 1] = k /\ \A i \in 1 .. n : ee[i] = e[i]
          BY <5>1
        <5>3. \A i \in 1 .. n : e[i] \in 1 .. m /\ e[i] # k
          BY <3>1, <4>2
        <5> QED  BY <3>1, <5>1, <5>2, <5>3
      <4>4. ee \in [1 .. n + 1 -> indices \cap (1 .. k)]
        <5>1. \A i \in 1 .. n + 1 : (IF i = n + 1 THEN k ELSE e[i]) \in indices \cap (1 .. k)
          BY <3>1, <3>6, <4>2, <4>3
        <5> QED  BY <5>1
      <4> HIDE DEF ee
      <4>5. ASSUME NEW i \in 1 .. n + 1, NEW j \in 1 .. n + 1, ee[i] = ee[j]
            PROVE  i = j
        <5>1. CASE i = n + 1 \/ j = n + 1
          BY <4>3, <4>5, <5>1
        <5>2. CASE i \in 1 .. n /\ j \in 1 .. n
          <6>1. e[i] = e[j]
            BY <4>3, <4>5, <5>2
          <6> QED  BY <4>2, <5>2, <6>1
        <5> QED  BY <4>3, <5>1, <5>2
      <4>6. \A j \in indices \cap (1 .. k) : \E i \in 1 .. n + 1 : ee[i] = j
        <5> TAKE j \in indices \cap (1 .. k)
        <5>1. CASE j = k
          BY <4>3, <5>1
        <5>2. CASE j \in indices \cap (1 .. m)
          <6>1. PICK i \in 1 .. n : e[i] = j
            BY <4>2, <5>2
          <6>2. i \in 1 .. n + 1 /\ ee[i] = e[i]
            BY <4>3, <6>1
          <6> QED  BY <6>1, <6>2
        <5> QED  BY <4>3, <5>1, <5>2
      <4>7. \A i \in 1 .. n + 1 : f[k][i] = s[ee[i]]
        BY <4>1, <4>2, <4>3
      <4>8. PickedUpTo(f, s, indices, k)
        <5>1. Len(f[k]) = n + 1
          BY <4>1 DEF n
        <5> HIDE DEF ee, n
        <5> QED  BY <4>4, <4>5, <4>6, <4>7, <5>1 DEF PickedUpTo
      <4> QED  BY <2>2, <4>8
    <3> QED  BY <3>5, <3>6
  <2> QED  BY <2>3, <2>4
<1>4. PickedUpTo(f, s, indices, Len(s)) /\ Pick(s, indices) \in Seq(X)
  <2>1. Len(s) \in 0 .. Len(s)
    BY <1>2
  <2> QED  BY <1>2, <1>3, <2>1
<1>5. \E e : Enumerates(e, s, indices)
  <2> DEFINE p == Pick(s, indices)
             n == Len(s)
  <2>1. f[n] = p /\ PickedUpTo(f, s, indices, n)
    BY <1>2, <1>4
  <2> HIDE DEF p, n
  <2>2. \E e \in [1 .. Len(f[n]) -> indices \cap (1 .. n)] :
            /\ \A i, j \in 1 .. Len(f[n]) : e[i] = e[j] => i = j
            /\ \A j \in indices \cap (1 .. n) : \E i \in 1 .. Len(f[n]) : e[i] = j
            /\ \A i \in 1 .. Len(f[n]) : f[n][i] = s[e[i]]
    BY <2>1, Zenon DEF PickedUpTo
  <2> QED  BY <2>1, <2>2 DEF Enumerates, p, n
<1> QED  BY <1>4, <1>5

LEMMA PickType ==
    ASSUME NEW X, NEW s \in Seq(X), NEW indices
    PROVE  /\ Pick(s, indices) \in Seq(X)
           /\ IsFiniteSet(indices \cap (1 .. Len(s)))
           /\ Len(Pick(s, indices)) = Cardinality(indices \cap (1 .. Len(s)))
<1> DEFINE D == indices \cap (1 .. Len(s))
           L == Len(Pick(s, indices))
<1>1. PICK e : Enumerates(e, s, indices)
  BY PickEnumerates, Zenon
<1>2. Pick(s, indices) \in Seq(X) /\ L \in Nat
  BY PickEnumerates
<1>3. e \in Bijection(1 .. L, D)
  BY <1>1 DEF Enumerates, Bijection, Injection, Surjection, IsInjective
<1> HIDE DEF L, D
<1>4. IsFiniteSet(1 .. L) /\ Cardinality(1 .. L) = L
  BY <1>2, FS_Interval
<1>5. IsFiniteSet(D) /\ Cardinality(D) = L
  BY <1>3, <1>4, FS_Bijection DEF ExistsBijection
<1> QED  BY <1>2, <1>5 DEF D, L

LEMMA SelectionBound ==
    ASSUME NEW s \in Seq(Block), NEW n
    PROVE  Selection(s, n) \subseteq 1 .. Len(s) /\ Cardinality(Selection(s, n)) <= Z
<1> DEFINE E == {k \in 1 .. Len(s) : ResidesIn[n][s[k].leaf]}
           T == Selection(s, n)
           Below(k) == {j \in E : j < k}
<1>1. T = {k \in E : Cardinality(Below(k)) < Z}
  BY Zenon DEF Selection
<1>2. /\ T \subseteq 1 .. Len(s) /\ Len(s) \in Nat /\ E \subseteq 1 .. Len(s)
      /\ IsFiniteSet(1 .. Len(s))
  <2>1. Len(s) \in Nat /\ 1 \in Int /\ Len(s) \in Int
    OBVIOUS
  <2>2. IsFiniteSet(1 .. Len(s))
    BY <2>1, FS_Interval
  <2> HIDE DEF T
  <2> QED  BY <1>1, <2>1, <2>2
<1>3. IsFiniteSet(T) /\ IsFiniteSet(E) /\ Cardinality(T) \in Nat
  BY <1>2, FS_Subset, FS_CardinalityType
<1> HIDE DEF T, E
<1>4. CASE T = {}
  BY <1>2, <1>4, FS_EmptySet, Constants DEF T
<1>5. CASE T # {}
  <2> DEFINE U == {Len(s) - k : k \in T}
  <2>1. PICK u \in U : \A v \in U : u <= v
    <3>1. U # {}
      BY <1>5
    <3>2. U \subseteq Nat
      BY <1>2
    <3> HIDE DEF U
    <3> QED  BY <3>1, <3>2, LeastNatural
  <2>2. PICK m \in T : \A k \in T : k <= m
    <3>1. PICK m \in T : u = Len(s) - m
      OBVIOUS
    <3>2. \A k \in T : Len(s) - m <= Len(s) - k
      BY <2>1, <3>1
    <3> QED  BY <1>2, <3>2
  <2>3. T \ {m} \subseteq Below(m) /\ Below(m) \subseteq E
    BY <1>1, <1>2, <2>2
  <2>4. Cardinality(T \ {m}) <= Cardinality(Below(m)) /\ Cardinality(Below(m)) \in Nat
    <3>1. IsFiniteSet(Below(m))
      BY <1>3, <2>3, FS_Subset
    <3> HIDE DEF Below
    <3> QED  BY <2>3, <3>1, FS_Subset, FS_CardinalityType
  <2>5. Cardinality(T \ {m}) = Cardinality(T) - 1
    BY <1>3, <2>2, FS_RemoveElement
  <2>6. Cardinality(Below(m)) < Z
    BY <1>1, <2>2
  <2> QED  BY <1>2, <1>3, <2>4, <2>5, <2>6, Constants DEF T
<1> QED  BY <1>4, <1>5

LEMMA SelectedType ==
    ASSUME NEW s \in Seq(Block), NEW n
    PROVE  /\ Selected(s, n) \in Seq(Block) /\ Len(Selected(s, n)) <= Z
           /\ Unselected(s, n) \in Seq(Block)
<1>1. Selection(s, n) \cap (1 .. Len(s)) = Selection(s, n)
  BY SelectionBound
<1>2. Selected(s, n) \in Seq(Block) /\ Len(Selected(s, n)) = Cardinality(Selection(s, n))
  BY <1>1, PickType DEF Selected
<1> QED  BY <1>2, SelectionBound, PickType DEF Unselected

LEMMA PutType ==
    ASSUME NEW s \in Seq(Block)
    PROVE  /\ \A a : Without(s, a) \in Seq(Block)
           /\ \A b \in Block : Put(s, b) \in Seq(Block)
<1>1. \A a : Without(s, a) \in Seq(Block)
  BY PickType DEF Without
<1>2. ASSUME NEW b \in Block PROVE Put(s, b) \in Seq(Block)
  <2>1. Without(s, b.addr) \in Seq(Block)
    BY <1>1
  <2> HIDE DEF Block
  <2> QED  BY <2>1 DEF Put
<1> QED  BY <1>1, <1>2

LEMMA ResetType ==
    ASSUME NEW blocks \in Seq(Block), Len(blocks) <= Z, NEW ptrs \in Layouts(blocks)
    PROVE  ResetWithBlocks(blocks, ptrs) \in FreshBuckets
<1> DEFINE e(i) == [addr |-> blocks[i].addr, leaf |-> blocks[i].leaf,
                    ptr |-> ptrs[i], data |-> blocks[i].data]
           es == [i \in 1 .. Len(blocks) |-> e(i)]
<1>1. /\ ptrs \in [1 .. Len(blocks) -> Slots] /\ Len(blocks) \in Nat
      /\ \A i, j \in 1 .. Len(blocks) : ptrs[i] = ptrs[j] => i = j
  BY DEF Layouts
<1>2. \A i \in 1 .. Len(blocks) : e(i) \in Entries /\ e(i).ptr = ptrs[i]
  <2>1. \A i \in 1 .. Len(blocks) : blocks[i] \in Block
    OBVIOUS
  <2> QED  BY <1>1, <2>1 DEF Block, Entries
<1> HIDE DEF e
<1>3. /\ es \in Seq(Entries) /\ Len(es) = Len(blocks)
      /\ \A i \in 1 .. Len(blocks) : es[i].ptr = ptrs[i]
  <2> HIDE DEF Entries
  <2> QED  BY <1>1, <1>2
<1>4. ResetWithBlocks(blocks, ptrs) = [count |-> 0, valids |-> Slots, entries |-> es]
  BY DEF ResetWithBlocks, e
<1> HIDE DEF es
<1>5. [count |-> 0, valids |-> Slots, entries |-> es] \in Buckets
  BY <1>1, <1>3 DEF Buckets
<1> QED  BY <1>4, <1>5 DEF FreshBuckets

LEMMA BlocksReadType ==
    ASSUME NEW b \in Buckets
    PROVE  BlocksRead(b) \in Seq(Block)
<1> DEFINE valid == Pick(b.entries, ValidReals(b))
<1>1. valid \in Seq(Entries)
  BY PickType DEF Buckets
<1>2. BlocksRead(b) = [k \in 1 .. Len(valid) |->
           [addr |-> valid[k].addr, leaf |-> valid[k].leaf, data |-> valid[k].data]]
  BY DEF BlocksRead
<1> HIDE DEF valid
<1>3. \A k \in 1 .. Len(valid) :
         [addr |-> valid[k].addr, leaf |-> valid[k].leaf, data |-> valid[k].data] \in Block
  <2>1. \A k \in 1 .. Len(valid) : valid[k] \in Entries
    BY <1>1
  <2> QED  BY <2>1 DEF Entries, Block
<1> HIDE DEF Block
<1> QED  BY <1>1, <1>2, <1>3

\* The stash while the constructor fills the initial tree.
LEMMA RemainingSteps ==
    ASSUME stash \in Seq(Block)
    PROVE  /\ Remaining \in [0 .. NumTreeNodes -> Seq(Block)]
           /\ Remaining[0] = stash
           /\ \A k \in 1 .. NumTreeNodes : Remaining[k] = Unselected(Remaining[k - 1], NumTreeNodes - k)
<1> DEFINE N == NumTreeNodes
           Q == Seq(Block)
           g == [p \in Nat \X Q |-> Unselected(p[2], N - (p[1] + 1))]
           Body(h) == [k \in 0 .. N |-> IF k = 0 THEN stash ELSE Unselected(h[k - 1], N - k)]
           kept == CHOOSE h : h = Body(h)
<1>1. N \in Nat /\ stash \in Q
  BY Constants
<1>2. g \in [Nat \X Q -> Q]
  BY SelectedType
<1> HIDE DEF Q, N
<1>3. PICK h \in [Nat -> Q] : h[0] = stash /\ \A n \in Nat : h[n + 1] = g[<<n, h[n]>>]
  <2>1. \E h : Recursion(h, Q, stash, g)
    <3> HIDE DEF g
    <3> QED  BY <1>1, <1>2, RecursionExists, Zenon
  <2> HIDE DEF g
  <2> QED  BY <2>1 DEF Recursion
<1> DEFINE f == [k \in 0 .. N |-> h[k]]
<1>4. f = Body(f)
  <2>1. ASSUME NEW k \in 0 .. N
        PROVE  h[k] = IF k = 0 THEN stash ELSE Unselected(f[k - 1], N - k)
    <3>1. CASE k = 0
      BY <1>3, <3>1
    <3>2. CASE k # 0
      <4> DEFINE m == k - 1
      <4>1. m \in Nat /\ m \in 0 .. N /\ m + 1 = k
        BY <1>1, <3>2
      <4> HIDE DEF m
      <4>2. h[m + 1] = g[<<m, h[m]>>] /\ h[m] \in Q
        <5> HIDE DEF g
        <5> QED  BY <1>3, <4>1
      <4>3. h[m + 1] = Unselected(h[m], N - (m + 1))
        BY <4>1, <4>2
      <4> QED  BY <3>2, <4>1, <4>3 DEF m
    <3> QED  BY <3>1, <3>2
  <2> QED  BY <2>1, Zenon
<1>5. kept = Body(kept)
  <2> HIDE DEF f
  <2> QED  BY <1>4, Zenon
<1>6. Remaining = kept
  BY Zenon DEF Remaining, N
<1> HIDE DEF kept, f
<1>7. /\ Remaining[0] = stash /\ DOMAIN Remaining = 0 .. N
      /\ \A k \in 1 .. N : Remaining[k] = Unselected(Remaining[k - 1], N - k)
  <2>1. 0 \in 0 .. N /\ \A k \in 1 .. N : k \in 0 .. N /\ k # 0
    BY <1>1
  <2>2. Remaining = [k \in 0 .. N |-> IF k = 0 THEN stash ELSE Unselected(Remaining[k - 1], N - k)]
    BY <1>5, <1>6
  <2> QED  BY <2>1, <2>2
<1>8. \A k \in 0 .. N : Remaining[k] \in Q
  <2> DEFINE T == {k \in 0 .. N : Remaining[k] \notin Q}
  <2> SUFFICES ASSUME T # {} PROVE FALSE
    OBVIOUS
  <2>1. PICK k \in T : \A j \in T : k <= j
    BY LeastNatural, T \subseteq Nat
  <2>2. k # 0 /\ k \in 1 .. N /\ k - 1 \in 0 .. N /\ k - 1 \notin T
    BY <1>1, <1>7, <2>1
  <2>3. Remaining[k - 1] \in Q
    BY <2>2
  <2>4. Remaining[k] \in Q
    BY <1>7, <2>2, <2>3, SelectedType DEF Q
  <2> QED  BY <2>4
<1>9. Remaining \in [0 .. N -> Q]
  <2>1. Remaining = [k \in 0 .. N |-> Remaining[k]]
    BY <1>5, <1>6, <1>7
  <2> QED  BY <1>8, <2>1
<1> QED  BY <1>7, <1>9 DEF N, Q

LEMMA InitialBlocksType ==
    ASSUME stash \in Seq(Block), NEW n \in Nodes
    PROVE  InitialBlocks(n) \in Seq(Block) /\ Len(InitialBlocks(n)) <= Z
<1>1. NumTreeNodes - 1 - n \in 0 .. NumTreeNodes
  BY Constants DEF Nodes
<1> QED  BY <1>1, RemainingSteps, SelectedType DEF InitialBlocks

\* The stash while ReadBucket puts the blocks of a bucket in it, one by one.
StashSteps(f, blocks) ==
    /\ f \in [0 .. Len(blocks) -> Seq(Block)]
    /\ f[0] = stash
    /\ \A k \in 1 .. Len(blocks) : f[k] = Put(f[k - 1], blocks[k])
    /\ \A k \in 0 .. Len(blocks) : StashAfter(blocks, k) = f[k]

LEMMA StashAfterSteps ==
    ASSUME stash \in Seq(Block), NEW blocks \in Seq(Block)
    PROVE  \E f : StashSteps(f, blocks)
<1> DEFINE N == Len(blocks)
           Q == Seq(Block)
           g == [p \in Nat \X Q |-> IF p[1] + 1 \in 1 .. N THEN Put(p[2], blocks[p[1] + 1]) ELSE p[2]]
<1>1. N \in Nat /\ stash \in Q /\ \A k \in 1 .. N : blocks[k] \in Block
  OBVIOUS
<1>2. g \in [Nat \X Q -> Q]
  <2>1. \A p \in Nat \X Q : p[1] + 1 \in 1 .. N => Put(p[2], blocks[p[1] + 1]) \in Q
    BY <1>1, PutType
  <2> HIDE DEF Q, N
  <2> QED  BY <2>1
<1> HIDE DEF Q, N
<1>3. PICK h \in [Nat -> Q] : h[0] = stash /\ \A n \in Nat : h[n + 1] = g[<<n, h[n]>>]
  <2>1. \E h : Recursion(h, Q, stash, g)
    <3> HIDE DEF g
    <3> QED  BY <1>1, <1>2, RecursionExists, Zenon
  <2> HIDE DEF g
  <2> QED  BY <2>1 DEF Recursion
<1>4. ASSUME NEW k \in 1 .. N
      PROVE  h[k] = Put(h[k - 1], blocks[k])
  <2> DEFINE m == k - 1
  <2>1. m \in Nat /\ m + 1 = k
    BY <1>1
  <2> HIDE DEF m
  <2>2. h[m + 1] = g[<<m, h[m]>>] /\ h[m] \in Q
    <3> HIDE DEF g
    <3> QED  BY <1>3, <2>1
  <2>3. h[m + 1] = Put(h[m], blocks[m + 1])
    BY <2>1, <2>2
  <2> QED  BY <2>1, <2>3 DEF m
<1>5. ASSUME NEW k \in 0 .. N
      PROVE  StashAfter(blocks, k) = h[k]
  <2> DEFINE Body(b) == [j \in 0 .. k |-> IF j = 0 THEN stash ELSE Put(b[j - 1], blocks[j])]
             kept == CHOOSE b : b = Body(b)
             f == [j \in 0 .. k |-> h[j]]
  <2>1. f = Body(f)
    <3>1. ASSUME NEW j \in 0 .. k
          PROVE  h[j] = IF j = 0 THEN stash ELSE Put(f[j - 1], blocks[j])
      <4>1. CASE j = 0
        BY <1>3, <4>1
      <4>2. CASE j # 0
        <5>1. j \in 1 .. N /\ j - 1 \in 0 .. k
          BY <1>1, <4>2
        <5> QED  BY <1>4, <4>2, <5>1
      <4> QED  BY <4>1, <4>2
    <3> QED  BY <3>1, Zenon
  <2>2. kept = Body(kept)
    <3> HIDE DEF f
    <3> QED  BY <2>1, Zenon
  <2>3. StashAfter(blocks, k) = kept[k]
    BY Zenon DEF StashAfter
  <2> HIDE DEF kept, f
  <2>4. \A j \in 0 .. k : kept[j] = IF j = 0 THEN stash ELSE Put(kept[j - 1], blocks[j])
    <3>1. \A j \in 0 .. k : Body(kept)[j] = IF j = 0 THEN stash ELSE Put(kept[j - 1], blocks[j])
      OBVIOUS
    <3> HIDE DEF Body
    <3> QED  BY <2>2, <3>1
  <2> HIDE DEF Body
  <2> DEFINE T == {j \in 0 .. k : kept[j] # h[j]}
  <2>5. T = {}
    <3> SUFFICES ASSUME T # {} PROVE FALSE
      OBVIOUS
    <3>1. PICK j \in T : \A i \in T : j <= i
      BY LeastNatural, T \subseteq Nat
    <3>2. j \in 0 .. k /\ j # 0 /\ j \in 1 .. N /\ j - 1 \in 0 .. k /\ j - 1 \notin T
      BY <1>1, <1>3, <2>4, <3>1
    <3>3. kept[j - 1] = h[j - 1]
      BY <3>2
    <3>4. kept[j] = h[j]
      BY <1>4, <2>4, <3>2, <3>3
    <3> QED  BY <3>4
  <2>6. k \in 0 .. k
    BY <1>1
  <2> QED  BY <2>3, <2>5, <2>6
<1> DEFINE f == [k \in 0 .. N |-> h[k]]
<1>6. /\ f \in [0 .. N -> Q] /\ f[0] = stash
      /\ \A k \in 1 .. N : f[k] = Put(f[k - 1], blocks[k])
      /\ \A k \in 0 .. N : StashAfter(blocks, k) = f[k]
  <2>1. \A k \in 0 .. N : f[k] = h[k] /\ h[k] \in Q
    BY <1>1, <1>3
  <2>2. 0 \in 0 .. N /\ \A k \in 1 .. N : k \in 0 .. N /\ k - 1 \in 0 .. N
    BY <1>1
  <2>3. f \in [0 .. N -> Q]
    BY <2>1
  <2> HIDE DEF f
  <2> QED  BY <1>3, <1>4, <1>5, <2>1, <2>2, <2>3
<1> HIDE DEF f
<1>7. StashSteps(f, blocks)
  BY <1>6 DEF StashSteps, N, Q
<1> QED  BY <1>7

LEMMA StashAfterType ==
    ASSUME stash \in Seq(Block), NEW blocks \in Seq(Block), NEW k \in 0 .. Len(blocks)
    PROVE  StashAfter(blocks, k) \in Seq(Block)
<1>1. PICK f : StashSteps(f, blocks)
  BY StashAfterSteps, Zenon
<1> QED  BY <1>1 DEF StashSteps

-----------------------------------------------------------------------------
LEMMA PathsFacts ==
    ASSUME NEW leaf \in Leaves
    PROVE  /\ Paths[leaf] \in Seq(Nodes) /\ Len(Paths[leaf]) = TreeHeight + 1
           /\ DOMAIN Paths[leaf] = 1 .. TreeHeight + 1 /\ Paths[leaf] # << >>
           /\ \A k \in 1 .. TreeHeight + 1 : Paths[leaf][k] \in Nodes
           /\ \A j, k \in 1 .. TreeHeight + 1 : Paths[leaf][j] = Paths[leaf][k] => j = k
<1>1. Paths[leaf] = PathFromRoot(leaf)
  BY DEF Paths
<1>2. PathFromRoot(leaf) \in Seq(Nodes) /\ Len(PathFromRoot(leaf)) = TreeHeight + 1
  BY PathFromRootNodes
<1>3. DOMAIN Paths[leaf] = 1 .. TreeHeight + 1 /\ Paths[leaf] # << >>
  BY <1>1, <1>2, Constants
<1> QED  BY <1>1, <1>2, <1>3, PathFromRootNodes

LEMMA SlotDataFacts ==
    ASSUME NEW b \in Buckets, NEW slot
    PROVE  /\ SlotData(b, slot) \in Data
           /\ slot \in ValidDummyOffsets(b) => SlotData(b, slot) = Zero
<1> DEFINE hit == \E i \in 1 .. Len(b.entries) : b.entries[i].ptr = slot
           i == CHOOSE i \in 1 .. Len(b.entries) : b.entries[i].ptr = slot
<1>1. b.entries \in Seq(Entries)
  BY DEF Buckets
<1>2. CASE hit
  <2>1. i \in 1 .. Len(b.entries) /\ b.entries[i].ptr = slot
    BY <1>2
  <2>2. SlotData(b, slot) = b.entries[i].data
    BY <1>2 DEF SlotData
  <2> HIDE DEF i
  <2>3. b.entries[i] \in Entries
    BY <1>1, <2>1
  <2>4. slot \notin ValidDummyOffsets(b)
    BY <2>1 DEF ValidDummyOffsets, ValidReals
  <2> QED  BY <2>2, <2>3, <2>4 DEF Entries
<1>3. CASE ~ hit
  BY <1>3, Constants DEF SlotData
<1> QED  BY <1>2, <1>3

LEMMA InvalidateFacts ==
    ASSUME NEW b \in Buckets, NEW slot
    PROVE  /\ Invalidate(b, slot) \in Buckets
           /\ Invalidate(b, slot).count = b.count + 1
           /\ Invalidate(b, slot).valids = b.valids \ {slot}
           /\ Invalidate(b, slot).entries = b.entries
BY DEF Invalidate, Buckets

\* Taking a valid slot out of a bucket is counted.
LEMMA CountStep ==
    ASSUME NEW b \in Buckets, NEW slot \in b.valids, b.count = Cardinality(Slots \ b.valids)
    PROVE  b.count + 1 = Cardinality(Slots \ (b.valids \ {slot}))
<1>1. IsFiniteSet(Slots)
  <2>1. 0 \in Int /\ Z + S - 1 \in Int
    BY Constants
  <2> QED  BY <2>1, FS_Interval DEF Slots
<1>2. IsFiniteSet(Slots \ b.valids)
  BY <1>1, FS_Subset, Slots \ b.valids \subseteq Slots
<1>3. slot \in Slots /\ Slots \ (b.valids \ {slot}) = (Slots \ b.valids) \cup {slot}
  BY DEF Buckets
<1>4. slot \notin Slots \ b.valids
  OBVIOUS
<1>5. Cardinality((Slots \ b.valids) \cup {slot}) = Cardinality(Slots \ b.valids) + 1
  BY <1>2, <1>4, FS_AddElement, Zenon
<1> QED  BY <1>3, <1>5, Zenon

LEMMA TargetsType ==
    ASSUME NEW b \in Buckets, NEW a
    PROVE  /\ Targets(b, a) \subseteq 1 .. Len(b.entries)
           /\ \A i \in Targets(b, a) : b.entries[i].ptr \in b.valids /\ b.entries[i].addr = a
           /\ BlockOffsets(b, a) \subseteq b.valids
           /\ Targets(b, a) = {} => BlockOffsets(b, a) = ValidDummyOffsets(b)
           /\ Targets(b, a) # {} =>
                \E i \in Targets(b, a) : BlockOffsets(b, a) = {b.entries[i].ptr}
<1> DEFINE hits == Targets(b, a)
           first == CHOOSE i \in hits : \A j \in hits : i <= j
<1>1. /\ hits \subseteq 1 .. Len(b.entries) /\ hits \subseteq Nat
      /\ \A i \in hits : b.entries[i].ptr \in b.valids /\ b.entries[i].addr = a
  BY DEF Targets, ValidReals
<1>2. CASE hits = {}
  BY <1>1, <1>2 DEF BlockOffsets, ValidDummyOffsets
<1>3. CASE hits # {}
  <2>1. \E i \in hits : \A j \in hits : i <= j
    <3> HIDE DEF hits
    <3> QED  BY <1>1, <1>3, LeastNatural
  <2>2. first \in hits
    <3> HIDE DEF hits
    <3> QED  BY <2>1
  <2>3. BlockOffsets(b, a) = {b.entries[first].ptr}
    BY <1>3 DEF BlockOffsets
  <2> HIDE DEF first, hits
  <2> QED  BY <1>1, <1>3, <2>2, <2>3 DEF hits
<1> QED  BY <1>2, <1>3

\* The client decides from the metadata as it would from the bucket.
LEMMA MetadataTells ==
    ASSUME NEW b \in Buckets, NEW a
    PROVE  /\ BlockOffsets(MetadataFromBucket(b), a) = BlockOffsets(b, a)
           /\ Targets(MetadataFromBucket(b), a) = Targets(b, a)
<1> DEFINE m == MetadataFromBucket(b)
<1>1. b.entries \in Seq(Entries) /\ Len(b.entries) \in Nat
  BY DEF Buckets
<1>2. /\ m.valids = b.valids
      /\ m.entries = [i \in 1 .. Len(b.entries) |->
                    [addr |-> b.entries[i].addr, leaf |-> b.entries[i].leaf, ptr |-> b.entries[i].ptr]]
  BY DEF MetadataFromBucket
<1> HIDE DEF m
<1>3. /\ Len(m.entries) = Len(b.entries)
      /\ \A i \in 1 .. Len(b.entries) : /\ m.entries[i].addr = b.entries[i].addr
                                        /\ m.entries[i].ptr = b.entries[i].ptr
  BY <1>1, <1>2
<1>4. ValidReals(m) = ValidReals(b)
  BY <1>2, <1>3 DEF ValidReals
<1>5. Targets(m, a) = Targets(b, a)
  BY <1>3, <1>4 DEF Targets, ValidReals
<1>6. ValidDummyOffsets(m) = ValidDummyOffsets(b)
  BY <1>2, <1>3, <1>4 DEF ValidDummyOffsets, ValidReals
<1>7. Targets(b, a) \subseteq 1 .. Len(b.entries)
  BY DEF Targets, ValidReals
<1> DEFINE hits == Targets(b, a)
           first == CHOOSE i \in hits : \A j \in hits : i <= j
<1>8. CASE hits = {}
  BY <1>5, <1>6, <1>8 DEF BlockOffsets, m
<1>9. CASE hits # {}
  <2>1. BlockOffsets(m, a) = {m.entries[first].ptr} /\ BlockOffsets(b, a) = {b.entries[first].ptr}
    BY <1>5, <1>9 DEF BlockOffsets
  <2>2. first \in hits
    <3>1. hits \subseteq Nat
      BY <1>7
    <3>2. \E i \in hits : \A j \in hits : i <= j
      <4> HIDE DEF hits
      <4> QED  BY <1>9, <3>1, LeastNatural
    <3> HIDE DEF hits
    <3> QED  BY <3>2
  <2> HIDE DEF first
  <2> QED  BY <1>3, <1>5, <1>7, <2>1, <2>2 DEF m
<1> QED  BY <1>5, <1>8, <1>9 DEF m

LEMMA RequestShapes ==
    ASSUME NEW m \in Requests
    PROVE  /\ m.cmd \in {"none", "S", "Q", "I", "M", "X", "B", "T", "W"}
           /\ m.cmd = "none" => m = NoMsg
           /\ m.cmd = "I" => m.buckets \in Seq(FreshBuckets) /\ Len(m.buckets) <= NumTreeNodes
           /\ m.cmd \in {"M", "X"} => m.leaf \in Leaves
           /\ m.cmd = "X" => m.offsets \in [1 .. TreeHeight + 1 -> Slots]
           /\ m.cmd \in {"B", "T", "W"} => m.node \in Nodes
           /\ m.cmd = "W" => m.bucket \in FreshBuckets
<1> DEFINE Trees == {b \in Seq(FreshBuckets) : Len(b) <= NumTreeNodes}
           Offsets == [1 .. TreeHeight + 1 -> Slots]
<1>1. \A b \in Trees : b \in Seq(FreshBuckets) /\ Len(b) <= NumTreeNodes
  OBVIOUS
<1>2. \/ m = NoMsg \/ m = [cmd |-> "S"] \/ m = [cmd |-> "Q"]
      \/ m \in [cmd : {"I"}, buckets : Trees]
      \/ m \in [cmd : {"M"}, leaf : Leaves]
      \/ m \in [cmd : {"X"}, leaf : Leaves, offsets : Offsets]
      \/ m \in [cmd : {"B", "T"}, node : Nodes]
      \/ m \in [cmd : {"W"}, node : Nodes, bucket : FreshBuckets]
  BY DEF Requests
<1>3. NoMsg.cmd = "none"
  BY DEF NoMsg
<1> HIDE DEF Trees, Offsets
<1>4. CASE m \in [cmd : {"I"}, buckets : Trees]
  BY <1>1, <1>4
<1>5. CASE m \in [cmd : {"X"}, leaf : Leaves, offsets : Offsets]
  BY <1>5 DEF Offsets
<1>6. CASE m \in [cmd : {"W"}, node : Nodes, bucket : FreshBuckets]
  BY <1>6
<1>7. CASE m \in [cmd : {"M"}, leaf : Leaves] \/ m \in [cmd : {"B", "T"}, node : Nodes]
  BY <1>7
<1>8. CASE m = NoMsg \/ m = [cmd |-> "S"] \/ m = [cmd |-> "Q"]
  BY <1>3, <1>8
<1> QED  BY <1>2, <1>4, <1>5, <1>6, <1>7, <1>8

-----------------------------------------------------------------------------
ServerTypes ==
    /\ tree \in [Nodes -> Buckets \cup {NoBucket}]
    /\ nodeCount \in {0, NumTreeNodes}
    /\ running \in BOOLEAN
    /\ spc \in ServerPoints
    /\ xorReads \in 0 .. SizeTModulus - 1
    /\ lastSlots \in {0, TreeHeight + 1}
    /\ picked \in Seq(Data) /\ Len(picked) <= TreeHeight + 1
    /\ conn \in {"up", "down"}
    /\ req \in Requests

ClientTypes ==
    /\ posMap \in [Addr -> Leaves]
    /\ stash = Malformed \/ stash \in Seq(Block)
    /\ round \in 0 .. A - 1
    /\ evictions \in 0 .. SizeTModulus - 1
    /\ readPaths \in 0 .. SizeTModulus - 1
    /\ cpc \in ClientPoints
    /\ call \in Calls \cup {NoCall}
    /\ oldLeaf \in Leaves
    /\ targets \subseteq 1 .. TreeHeight + 1
    /\ block \in Block \cup {NoBlock}
    /\ {reads, writes, checks} \subseteq Seq(Nodes)
    /\ result \in Data \cup {NoResult}
    /\ failed \in BOOLEAN
    /\ oracle \in [Addr -> Data]

LEMMA TypeParts ==
    /\ TypeOK <=> ServerTypes /\ ClientTypes
    /\ TypeOK' <=> ServerTypes' /\ ClientTypes'
BY DEF TypeOK, ServerTypes, ClientTypes

LEMMA NoMsgFacts == NoMsg.cmd = "none" /\ NoMsg \in Requests
BY DEF NoMsg, Requests

LEMMA NoCallFacts == NoCall.op = "none" /\ NoBlock.addr = -1
BY DEF NoCall, NoBlock

LEMMA InitIInv == Init => IInv
<1> SUFFICES ASSUME Init PROVE IInv
  OBVIOUS
<1> USE Constants, NoMsgFacts
<1>1. /\ tree = [n \in Nodes |-> NoBucket] /\ nodeCount = 0 /\ running = FALSE
      /\ spc = "constructed" /\ xorReads = 0 /\ lastSlots = 0 /\ picked = << >>
      /\ conn = "up" /\ req = NoMsg /\ resp = NoMsg /\ oracle = [a \in Addr |-> Zero]
  BY DEF Init, ConstructServer
<1>2. /\ posMap \in [Addr -> Leaves]
      /\ stash = [k \in 1 .. NumBlocks |-> [addr |-> k - 1, leaf |-> posMap[k - 1], data |-> Zero]]
      /\ round = 0 /\ evictions = 0 /\ readPaths = 0 /\ cpc = "build" /\ call = NoCall
      /\ oldLeaf = 0 /\ targets = {} /\ block = NoBlock /\ reads = << >> /\ writes = << >>
      /\ checks = << >> /\ result = NoResult /\ failed = FALSE
  BY DEF Init, ConstructClient
<1>3. ServerTypes
  <2>1. tree \in [Nodes -> Buckets \cup {NoBucket}]
    BY <1>1
  <2>2. picked \in Seq(Data) /\ Len(picked) <= TreeHeight + 1
    BY <1>1
  <2>3. 0 \in 0 .. SizeTModulus - 1
    OBVIOUS
  <2> QED  BY <1>1, <2>1, <2>2, <2>3 DEF ServerTypes, ServerPoints
<1>4. ClientTypes
  <2>1. \A k \in 1 .. NumBlocks : [addr |-> k - 1, leaf |-> posMap[k - 1], data |-> Zero] \in Block
    BY <1>2 DEF Block, Addr
  <2>2. stash \in Seq(Block)
    <3> HIDE DEF Block
    <3> QED  BY <1>2, <2>1
  <2>3. /\ oracle \in [Addr -> Data] /\ {reads, writes, checks} \subseteq Seq(Nodes)
        /\ 0 \in 0 .. A - 1 /\ 0 \in 0 .. SizeTModulus - 1
    BY <1>1, <1>2
  <2> QED  BY <1>1, <1>2, <2>2, <2>3 DEF ClientTypes, ClientPoints
<1>5. CallState
  <2>1. \A k \in 1 .. NumBlocks : [addr |-> k - 1, leaf |-> posMap[k - 1], data |-> Zero] \in Block
    BY <1>2 DEF Block, Addr
  <2>2. stash \in Seq(Block)
    <3> HIDE DEF Block
    <3> QED  BY <1>2, <2>1
  <2> QED  BY <1>2, <2>2 DEF CallState
<1>6. Conversation
  BY <1>1, <1>2 DEF Conversation, InStep, Waiting
<1>7. RepliesAreTrue /\ SlotsAsAsked
  BY <1>1, <1>2 DEF RepliesAreTrue, SlotsAsAsked
<1>8. CountInv
  BY <1>1 DEF CountInv
<1>9. ReadsCounted
  BY <1>1, <1>2 DEF ReadsCounted
<1> QED  BY <1>3, <1>4, <1>5, <1>6, <1>7, <1>8, <1>9, TypeParts DEF IInv

\* Steps of the owner of the server, of the thread that stops it and of the
\* network, which touch nothing but the flag, the socket and the server's point.
LEMMA LullKeeps ==
    ASSUME IInv, UNCHANGED <<clientVars, oracle, tree, nodeCount, xorReads, lastSlots, picked, req, resp>>,
           running' \in BOOLEAN, spc' \in ServerPoints, conn' \in {conn, "down"},
           spc' = spc \/ (spc \notin {"init", "xor"} /\ spc' \notin {"init", "xor"})
    PROVE  IInv'
<1>1. TypeOK'
  BY DEF IInv, TypeOK, clientVars
<1>2. CallState'
  BY DEF IInv, CallState, clientVars
<1>3. Conversation'
  BY DEF IInv, Conversation, InStep, Waiting, clientVars
<1>4. RepliesAreTrue'
  BY DEF IInv, RepliesAreTrue, clientVars
<1>5. SlotsAsAsked'
  BY DEF IInv, SlotsAsAsked, Dummies, clientVars
<1>6. CountInv'
  BY DEF IInv, CountInv, AwaitsReshuffle, Among, clientVars
<1>7. ReadsCounted'
  BY DEF IInv, ReadsCounted, clientVars
<1> QED  BY <1>1, <1>2, <1>3, <1>4, <1>5, <1>6, <1>7 DEF IInv

LEMMA FreshFacts ==
    \A b \in FreshBuckets : b \in Buckets /\ b.count = 0 /\ b.count = Cardinality(Slots \ b.valids)
<1>1. \A b \in FreshBuckets : b \in Buckets /\ b.count = 0 /\ b.valids = Slots
  BY DEF FreshBuckets
<1>2. Cardinality({}) = 0 /\ Slots \ Slots = {}
  BY FS_EmptySet
<1> QED  BY <1>1, <1>2

LEMMA WriteFacts ==
    ASSUME tree \in [Nodes -> Buckets \cup {NoBucket}], NEW n, NEW b \in Buckets
    PROVE  /\ WriteBucketToDisk(n, b) =>
                /\ n \in Nodes /\ n < nodeCount /\ tree' \in [Nodes -> Buckets \cup {NoBucket}]
                /\ tree'[n] \in {b, NoBucket}
                /\ \A m \in Nodes : m # n => tree'[m] = tree[m]
           /\ WriteBucketThrows(n, b) =>
                /\ tree' \in [Nodes -> Buckets \cup {NoBucket}]
                /\ \A m \in Nodes : tree'[m] \in {tree[m], NoBucket}
<1>1. ASSUME n \in Nodes, NEW c \in {b, NoBucket}, tree' = [tree EXCEPT ![n] = c]
      PROVE  /\ tree' \in [Nodes -> Buckets \cup {NoBucket}] /\ tree'[n] = c
             /\ \A m \in Nodes : m # n => tree'[m] = tree[m]
  BY <1>1
<1>2. ASSUME WriteBucketToDisk(n, b)
      PROVE  /\ n \in Nodes /\ n < nodeCount /\ tree' \in [Nodes -> Buckets \cup {NoBucket}]
             /\ tree'[n] \in {b, NoBucket}
             /\ \A m \in Nodes : m # n => tree'[m] = tree[m]
  <2>1. n \in Nodes /\ n < nodeCount
    BY <1>2 DEF WriteBucketToDisk, Writable
  <2>2. PICK c \in {b, NoBucket} : tree' = [tree EXCEPT ![n] = c]
    BY <1>2 DEF WriteBucketToDisk
  <2> QED  BY <1>1, <2>1, <2>2
<1>3. ASSUME WriteBucketThrows(n, b)
      PROVE  /\ tree' \in [Nodes -> Buckets \cup {NoBucket}]
             /\ \A m \in Nodes : tree'[m] \in {tree[m], NoBucket}
  <2>1. CASE tree' = tree
    BY <2>1
  <2>2. CASE tree' # tree
    <3>1. n \in Nodes /\ tree' = [tree EXCEPT ![n] = NoBucket]
      BY <1>3, <2>2 DEF WriteBucketThrows, Writable
    <3> QED  BY <1>1, <3>1
  <2> QED  BY <2>1, <2>2
<1> QED  BY <1>2, <1>3

\* The server drops a request without an answer, or its answer is lost with the
\* connection; a bucket may have been written or truncated on the way.
LEMMA RefuseKeeps ==
    ASSUME IInv, UNCHANGED <<clientVars, oracle, conn, resp>>,
           nodeCount' \in {0, NumTreeNodes},
           req' = NoMsg, picked' = << >>, running' \in BOOLEAN, spc' \in {"recv", "left"},
           tree' \in [Nodes -> Buckets \cup {NoBucket}],
           \A n \in Nodes : tree'[n] \in {tree[n], NoBucket} \cup FreshBuckets,
           tree' = tree \/ resp = NoMsg \/ cpc = "destroyed",
           \/ xorReads' = xorReads /\ lastSlots' = lastSlots
           \/ /\ conn = "down" /\ xorReads' \in 0 .. SizeTModulus - 1
              /\ lastSlots' = TreeHeight + 1
    PROVE  IInv'
<1> USE NoMsgFacts, Constants
<1>1. TypeOK'
  BY DEF IInv, TypeOK, clientVars, ServerPoints
<1>2. CallState'
  BY DEF IInv, CallState, clientVars
<1>3. Conversation'
  BY DEF IInv, Conversation, InStep, Waiting, clientVars
<1>4. RepliesAreTrue'
  <2>1. CASE tree' = tree
    BY <2>1 DEF IInv, RepliesAreTrue, clientVars
  <2>2. CASE resp = NoMsg
    BY <2>2 DEF RepliesAreTrue
  <2>3. CASE cpc = "destroyed"
    BY <2>3 DEF IInv, Conversation, InStep, RepliesAreTrue, clientVars
  <2> QED  BY <2>1, <2>2, <2>3
<1>5. SlotsAsAsked'
  BY DEF IInv, SlotsAsAsked, Dummies, clientVars
<1>6. CountInv'
  <2> SUFFICES ASSUME NEW n \in Nodes, tree'[n] # NoBucket
               PROVE  /\ tree'[n].count = Cardinality(Slots \ tree'[n].valids)
                      /\ ~ failed => tree'[n].count <= S /\ (tree'[n].count = S => AwaitsReshuffle(n)')
    BY DEF CountInv, clientVars
  <2>1. AwaitsReshuffle(n) => AwaitsReshuffle(n)'
    BY DEF AwaitsReshuffle, Among, clientVars
  <2>2. CASE tree'[n] = tree[n]
    BY <2>1, <2>2 DEF IInv, CountInv
  <2>3. CASE tree'[n] \in FreshBuckets
    BY <2>3, FreshFacts
  <2> QED  BY <2>2, <2>3
<1>7. ReadsCounted'
  BY DEF IInv, ReadsCounted, clientVars
<1> QED  BY <1>1, <1>2, <1>3, <1>4, <1>5, <1>6, <1>7 DEF IInv

\* The server sends a reply that is true when it is sent.
LEMMA AnswerKeeps ==
    ASSUME IInv, UNCHANGED <<clientVars, oracle, nodeCount, conn>>, conn = "up",
           req' = NoMsg, picked' = << >>, running' \in BOOLEAN, spc' \in {"recv", "left"},
           tree' \in [Nodes -> Buckets \cup {NoBucket}],
           \A n \in Nodes : tree'[n] \in {tree[n], NoBucket} \cup FreshBuckets,
           \/ (req.cmd = "I" /\ resp'.cmd = "ack") \/ (req.cmd = "M" /\ resp'.cmd = "metadata")
           \/ (req.cmd = "X" /\ resp'.cmd = "xor") \/ (req.cmd = "B" /\ resp'.cmd = "bucket")
           \/ (req.cmd = "W" /\ resp'.cmd = "ack") \/ (req.cmd = "T" /\ resp'.cmd = "count")
           \/ req.cmd = "S" /\ resp'.cmd = "stats",
           resp'.cmd # "xor" => xorReads' = xorReads /\ lastSlots' = lastSlots,
           resp'.cmd = "xor" =>
             /\ xorReads' = (xorReads + 1) % SizeTModulus /\ lastSlots' = TreeHeight + 1
             /\ resp'.slots \in Seq(Data) /\ Len(resp'.slots) = TreeHeight + 1 /\ Dummies(resp'.slots),
           RepliesAreTrue'
    PROVE  IInv'
<1> USE NoMsgFacts, Constants
<1>0. req # NoMsg /\ InStep
  BY DEF IInv, Conversation
<1>1. TypeOK'
  <2>1. xorReads' \in 0 .. SizeTModulus - 1 /\ lastSlots' \in {0, TreeHeight + 1}
    BY DEF IInv, TypeOK
  <2> QED  BY <2>1 DEF IInv, TypeOK, clientVars, ServerPoints
<1>2. CallState'
  BY DEF IInv, CallState, clientVars
<1>3. Conversation'
  <2>1. InStep'
    BY <1>0 DEF IInv, TypeOK, ClientPoints, InStep, Waiting, clientVars
  <2> QED  BY <2>1 DEF Conversation
<1>4. SlotsAsAsked'
  BY <1>0 DEF IInv, SlotsAsAsked, Dummies, clientVars
<1>5. CountInv'
  <2> SUFFICES ASSUME NEW n \in Nodes, tree'[n] # NoBucket
               PROVE  /\ tree'[n].count = Cardinality(Slots \ tree'[n].valids)
                      /\ ~ failed => tree'[n].count <= S /\ (tree'[n].count = S => AwaitsReshuffle(n)')
    BY DEF CountInv, clientVars
  <2>1. AwaitsReshuffle(n) => AwaitsReshuffle(n)'
    BY DEF AwaitsReshuffle, Among, clientVars
  <2>2. CASE tree'[n] = tree[n]
    BY <2>1, <2>2 DEF IInv, CountInv
  <2>3. CASE tree'[n] \in FreshBuckets
    BY <2>3, FreshFacts
  <2> QED  BY <2>2, <2>3
<1>6. ReadsCounted'
  <2>1. cpc = "xor" <=> req.cmd = "X"
    BY <1>0 DEF IInv, TypeOK, ClientPoints, InStep, Waiting
  <2>2. cpc = "xor" => resp = NoMsg
    BY <1>0 DEF InStep, Waiting
  <2>3. resp'.cmd = "xor" <=> cpc = "xor"
    BY <2>1
  <2> QED  BY <2>1, <2>2, <2>3 DEF IInv, ReadsCounted, clientVars
<1> QED  BY <1>1, <1>2, <1>3, <1>4, <1>5, <1>6 DEF IInv

\* A handler that only reads, whether or not its reply gets out.
RepliesOrNot ==
    \/ resp' = resp
    \/ /\ conn = "up" /\ RepliesAreTrue'
       /\ \/ (req.cmd = "I" /\ resp'.cmd = "ack") \/ (req.cmd = "M" /\ resp'.cmd = "metadata")
          \/ (req.cmd = "B" /\ resp'.cmd = "bucket") \/ (req.cmd = "T" /\ resp'.cmd = "count")
          \/ req.cmd = "S" /\ resp'.cmd = "stats"

LEMMA ReplyKeeps ==
    ASSUME IInv, UNCHANGED <<clientVars, oracle, tree, nodeCount, xorReads, lastSlots, conn>>,
           req' = NoMsg, picked' = << >>, running' \in BOOLEAN, spc' \in {"recv", "left"},
           RepliesOrNot
    PROVE  IInv'
<1>1. /\ tree' \in [Nodes -> Buckets \cup {NoBucket}] /\ nodeCount' \in {0, NumTreeNodes}
      /\ \A n \in Nodes : tree'[n] \in {tree[n], NoBucket} \cup FreshBuckets
  BY DEF IInv, TypeOK
<1>2. CASE resp' = resp
  BY <1>1, <1>2, RefuseKeeps
<1>3. CASE resp' # resp
  <2>1. /\ conn = "up" /\ RepliesAreTrue'
        /\ \/ (req.cmd = "I" /\ resp'.cmd = "ack") \/ (req.cmd = "M" /\ resp'.cmd = "metadata")
           \/ (req.cmd = "B" /\ resp'.cmd = "bucket") \/ (req.cmd = "T" /\ resp'.cmd = "count")
           \/ req.cmd = "S" /\ resp'.cmd = "stats"
    BY <1>3 DEF RepliesOrNot
  <2> QED  BY <1>1, <2>1, AnswerKeeps
<1> QED  BY <1>2, <1>3

LEMMA ReadersKeep ==
    ASSUME IInv, UNCHANGED <<clientVars, oracle>>,
           \/ AckInit \/ HandleReadPathMetadata \/ HandleReadBucket
           \/ HandleReadBucketCount \/ HandleReadStats
    PROVE  IInv'
<1> USE Constants, NoMsgFacts
<1>1. /\ running \in BOOLEAN /\ tree \in [Nodes -> Buckets \cup {NoBucket}]
      /\ nodeCount \in {0, NumTreeNodes} /\ oldLeaf \in Leaves /\ req \in Requests
      /\ spc = "init" => req.cmd = "I"
      /\ spc # "xor" => picked = << >>
  BY DEF IInv, TypeOK, Conversation
<1>2. CASE AckInit
  <2>1. /\ UNCHANGED <<tree, nodeCount, xorReads, lastSlots, picked, conn>> /\ picked' = << >>
        /\ req.cmd = "I" /\ Answer([cmd |-> "ack"], TRUE, FALSE)
    BY <1>1, <1>2 DEF AckInit
  <2>2. /\ req' = NoMsg /\ running' \in BOOLEAN /\ spc' \in {"recv", "left"}
        /\ (conn = "up" /\ resp' = [cmd |-> "ack"]) \/ resp' = resp
    BY <1>1, <2>1 DEF Answer, SendReply, Consume, NextTurn, Leave
  <2>3. ASSUME conn = "up", resp' = [cmd |-> "ack"] PROVE RepliesAreTrue'
    <3>1. cpc # "ack"
      BY <2>1, <2>3 DEF IInv, Conversation, InStep, Waiting
    <3> QED  BY <2>3, <3>1 DEF RepliesAreTrue, clientVars
  <2>4. RepliesOrNot
    BY <2>1, <2>2, <2>3 DEF RepliesOrNot
  <2>5. UNCHANGED <<clientVars, oracle, tree, nodeCount, xorReads, lastSlots, conn>>
    BY <2>1
  <2> QED  BY <2>1, <2>2, <2>4, <2>5, ReplyKeeps, Zenon
<1>3. CASE HandleReadPathMetadata
  <2> DEFINE path == Paths[req.leaf]
             m == [cmd |-> "metadata",
                   buckets |-> [k \in DOMAIN path |-> MetadataFromBucket(tree[path[k]])]]
             possible == \A k \in DOMAIN path : Stored(path[k])
             mayThrow == \E k \in DOMAIN path : ReadMayThrow(path[k])
  <2>1. /\ UNCHANGED <<tree, nodeCount, xorReads, lastSlots, picked, conn>> /\ picked' = << >>
        /\ req.cmd = "M" /\ req.leaf \in Leaves
    BY <1>1, <1>3, RequestShapes DEF HandleReadPathMetadata, Command
  <2>2. Answer(m, possible, mayThrow)
    BY <1>3, <2>1 DEF HandleReadPathMetadata
  <2>3. ASSUME conn = "up", possible, resp' = m
        PROVE  RepliesAreTrue' /\ resp'.cmd = "metadata"
    <3>1. req.leaf = oldLeaf
      BY <2>1, <2>3 DEF IInv, Conversation, InStep
    <3>2. DOMAIN path = 1 .. TreeHeight + 1
      BY <2>1, PathsFacts
    <3>3. \A k \in 1 .. TreeHeight + 1 : tree[path[k]] # NoBucket
      BY <2>3, <3>2 DEF Stored
    <3> QED  BY <2>1, <2>3, <3>1, <3>2, <3>3 DEF RepliesAreTrue, clientVars
  <2> HIDE DEF m, possible, mayThrow
  <2>4. /\ req' = NoMsg /\ running' \in BOOLEAN /\ spc' \in {"recv", "left"}
        /\ (conn = "up" /\ possible /\ resp' = m) \/ resp' = resp
    BY <1>1, <2>2 DEF Answer, SendReply, Consume, NextTurn, Leave
  <2>5. RepliesOrNot
    BY <2>1, <2>3, <2>4 DEF RepliesOrNot
  <2>6. UNCHANGED <<clientVars, oracle, tree, nodeCount, xorReads, lastSlots, conn>>
    BY <2>1
  <2> QED  BY <2>1, <2>4, <2>5, <2>6, ReplyKeeps, Zenon
<1>4. CASE HandleReadBucket
  <2> DEFINE m == [cmd |-> "bucket", bucket |-> IF req.node \in Nodes THEN tree[req.node] ELSE NoBucket]
  <2>1. /\ UNCHANGED <<tree, nodeCount, xorReads, lastSlots, picked, conn>> /\ picked' = << >>
        /\ req.cmd = "B" /\ Answer(m, Stored(req.node), ReadMayThrow(req.node))
    BY <1>1, <1>4 DEF HandleReadBucket, Command
  <2>2. ASSUME conn = "up", Stored(req.node), resp' = m
        PROVE  RepliesAreTrue' /\ resp'.cmd = "bucket"
    <3>1. req.node = Head(reads)
      BY <2>1, <2>2 DEF IInv, Conversation, InStep
    <3> QED  BY <2>1, <2>2, <3>1 DEF RepliesAreTrue, Stored, clientVars
  <2> HIDE DEF m
  <2>3. /\ req' = NoMsg /\ running' \in BOOLEAN /\ spc' \in {"recv", "left"}
        /\ (conn = "up" /\ Stored(req.node) /\ resp' = m) \/ resp' = resp
    BY <1>1, <2>1 DEF Answer, SendReply, Consume, NextTurn, Leave
  <2>4. RepliesOrNot
    BY <2>1, <2>2, <2>3 DEF RepliesOrNot
  <2>5. UNCHANGED <<clientVars, oracle, tree, nodeCount, xorReads, lastSlots, conn>>
    BY <2>1
  <2> QED  BY <2>1, <2>3, <2>4, <2>5, ReplyKeeps, Zenon
<1>5. CASE HandleReadBucketCount
  <2> DEFINE m == [cmd |-> "count", count |-> IF Stored(req.node) THEN tree[req.node].count ELSE 0]
  <2>1. /\ UNCHANGED <<tree, nodeCount, xorReads, lastSlots, picked, conn>> /\ picked' = << >>
        /\ req.cmd = "T" /\ Answer(m, Stored(req.node), ReadMayThrow(req.node))
    BY <1>1, <1>5 DEF HandleReadBucketCount, Command
  <2>2. ASSUME conn = "up", Stored(req.node), resp' = m
        PROVE  RepliesAreTrue' /\ resp'.cmd = "count"
    <3>1. req.node = Head(checks)
      BY <2>1, <2>2 DEF IInv, Conversation, InStep
    <3> QED  BY <2>1, <2>2, <3>1 DEF RepliesAreTrue, Stored, clientVars
  <2> HIDE DEF m
  <2>3. /\ req' = NoMsg /\ running' \in BOOLEAN /\ spc' \in {"recv", "left"}
        /\ (conn = "up" /\ Stored(req.node) /\ resp' = m) \/ resp' = resp
    BY <1>1, <2>1 DEF Answer, SendReply, Consume, NextTurn, Leave
  <2>4. RepliesOrNot
    BY <2>1, <2>2, <2>3 DEF RepliesOrNot
  <2>5. UNCHANGED <<clientVars, oracle, tree, nodeCount, xorReads, lastSlots, conn>>
    BY <2>1
  <2> QED  BY <2>1, <2>3, <2>4, <2>5, ReplyKeeps, Zenon
<1>6. CASE HandleReadStats
  <2> DEFINE m == [cmd |-> "stats", xorReads |-> xorReads, slots |-> lastSlots]
  <2>1. /\ UNCHANGED <<tree, nodeCount, xorReads, lastSlots, picked, conn>> /\ picked' = << >>
        /\ req.cmd = "S" /\ Answer(m, TRUE, FALSE)
    BY <1>1, <1>6 DEF HandleReadStats, Command
  <2>2. ASSUME conn = "up", resp' = m PROVE RepliesAreTrue' /\ resp'.cmd = "stats"
    <3>1. cpc # "xor"
      BY <2>1, <2>2 DEF IInv, Conversation, InStep, Waiting
    <3>2. xorReads = readPaths /\ (lastSlots = 0 => xorReads = 0) /\ lastSlots \in {0, TreeHeight + 1}
      BY <2>2, <3>1 DEF IInv, ReadsCounted, TypeOK
    <3> QED  BY <2>2, <3>2 DEF RepliesAreTrue, clientVars
  <2> HIDE DEF m
  <2>3. /\ req' = NoMsg /\ running' \in BOOLEAN /\ spc' \in {"recv", "left"}
        /\ (conn = "up" /\ resp' = m) \/ resp' = resp
    BY <1>1, <2>1 DEF Answer, SendReply, Consume, NextTurn, Leave
  <2>4. RepliesOrNot
    BY <2>1, <2>2, <2>3 DEF RepliesOrNot
  <2>5. UNCHANGED <<clientVars, oracle, tree, nodeCount, xorReads, lastSlots, conn>>
    BY <2>1
  <2> QED  BY <2>1, <2>3, <2>4, <2>5, ReplyKeeps, Zenon
<1> QED  BY <1>2, <1>3, <1>4, <1>5, <1>6

\* What a request that is still there says of the client that sent it.
LEMMA PendingFacts ==
    ASSUME IInv, req.cmd # "none"
    PROVE  /\ resp = NoMsg \/ cpc = "destroyed"
           /\ cpc = "xor" => req.cmd = "X" /\ req.leaf = oldLeaf
           /\ req.cmd = "X" => failed \/ cpc = "xor"
           /\ conn = "up" /\ req.cmd = "X" => cpc = "xor"
           /\ conn = "up" /\ req.cmd = "W" => cpc = "ack" /\ req.node = Head(writes)
<1>1. req # NoMsg /\ cpc \in ClientPoints
  BY NoMsgFacts DEF IInv, TypeOK
<1>2. CASE InStep
  BY <1>1, <1>2, NoMsgFacts DEF ClientPoints, InStep, Waiting, IInv, Conversation
<1>3. CASE ~ InStep
  BY <1>3 DEF IInv, Conversation
<1> QED  BY <1>2, <1>3

\* A turn of the loop that unpacks the initial tree.
LEMMA InitTurnKeeps ==
    ASSUME IInv, UNCHANGED <<clientVars, oracle, running, xorReads, lastSlots, picked, conn, resp>>,
           req.cmd = "I", req'.cmd = "I", req' \in Requests, spc # "xor", spc' = "init",
           nodeCount' \in {0, NumTreeNodes},
           tree' \in [Nodes -> Buckets \cup {NoBucket}],
           \A n \in Nodes : tree'[n] \in {tree[n], NoBucket} \cup FreshBuckets
    PROVE  IInv'
<1> USE NoMsgFacts, Constants
<1>0. /\ resp = NoMsg \/ cpc = "destroyed"
      /\ cpc # "xor"
  BY PendingFacts
<1>1. TypeOK'
  BY DEF IInv, TypeOK, clientVars, ServerPoints
<1>2. CallState'
  BY DEF IInv, CallState, clientVars
<1>3. Conversation'
  BY DEF IInv, Conversation, InStep, Waiting, clientVars
<1>4. RepliesAreTrue'
  <2>1. CASE resp = NoMsg
    BY <2>1 DEF RepliesAreTrue
  <2>2. CASE cpc = "destroyed"
    BY <2>2 DEF IInv, Conversation, InStep, RepliesAreTrue, clientVars
  <2> QED  BY <1>0, <2>1, <2>2
<1>5. SlotsAsAsked'
  BY <1>0 DEF SlotsAsAsked, clientVars
<1>6. CountInv'
  <2> SUFFICES ASSUME NEW n \in Nodes, tree'[n] # NoBucket
               PROVE  /\ tree'[n].count = Cardinality(Slots \ tree'[n].valids)
                      /\ ~ failed => tree'[n].count <= S /\ (tree'[n].count = S => AwaitsReshuffle(n)')
    BY DEF CountInv, clientVars
  <2>1. AwaitsReshuffle(n) => AwaitsReshuffle(n)'
    BY <1>0 DEF AwaitsReshuffle, Among, clientVars
  <2>2. CASE tree'[n] = tree[n]
    BY <2>1, <2>2 DEF IInv, CountInv
  <2>3. CASE tree'[n] \in FreshBuckets
    BY <2>3, FreshFacts
  <2> QED  BY <2>2, <2>3
<1>7. ReadsCounted'
  BY <1>0 DEF IInv, ReadsCounted, clientVars
<1> QED  BY <1>1, <1>2, <1>3, <1>4, <1>5, <1>6, <1>7 DEF IInv

LEMMA LoaderKeeps ==
    ASSUME IInv, UNCHANGED <<clientVars, oracle>>, HandleInit \/ InitBucket
    PROVE  IInv'
<1> USE Constants, NoMsgFacts
<1>1. /\ running \in BOOLEAN /\ tree \in [Nodes -> Buckets \cup {NoBucket}]
      /\ nodeCount \in {0, NumTreeNodes} /\ req \in Requests
      /\ spc = "init" => req.cmd = "I"
      /\ spc # "xor" => picked = << >>
  BY DEF IInv, TypeOK, Conversation
<1>2. req.cmd = "I" /\ spc # "xor" /\ (resp = NoMsg \/ cpc = "destroyed")
  <2>1. req.cmd = "I" /\ spc # "xor"
    BY <1>1 DEF HandleInit, InitBucket, Command
  <2> QED  BY <2>1, PendingFacts
<1>3. CASE HandleInit
  <2>1. UNCHANGED <<xorReads, lastSlots, picked, conn, resp>> /\ picked' = << >>
    BY <1>1, <1>2, <1>3 DEF HandleInit
  <2>2. CASE Len(req.buckets) = NumTreeNodes
    <3>1. /\ tree' = [n \in Nodes |-> NoBucket] /\ nodeCount' = NumTreeNodes
          /\ spc' = "init" /\ UNCHANGED <<running, req>>
      BY <1>3, <2>2 DEF HandleInit
    <3>2. /\ tree' \in [Nodes -> Buckets \cup {NoBucket}]
          /\ \A n \in Nodes : tree'[n] \in {tree[n], NoBucket} \cup FreshBuckets
      BY <3>1
    <3> QED  BY <1>1, <1>2, <2>1, <3>1, <3>2, InitTurnKeeps
  <2>3. CASE Len(req.buckets) # NumTreeNodes
    <3>1. req' = NoMsg /\ spc' = "left" /\ running' = FALSE /\ UNCHANGED <<tree, nodeCount>>
      BY <1>3, <2>3 DEF HandleInit, Consume, Leave
    <3> QED  BY <1>1, <2>1, <3>1, RefuseKeeps
  <2> QED  BY <2>2, <2>3
<1>4. CASE InitBucket
  <2> DEFINE n == NumTreeNodes - Len(req.buckets)
             b == Head(req.buckets)
             rest == [cmd |-> "I", buckets |-> Tail(req.buckets)]
  <2>1. /\ UNCHANGED <<nodeCount, xorReads, lastSlots, picked, conn, resp>> /\ picked' = << >>
        /\ spc = "init" /\ req.buckets # << >>
    BY <1>1, <1>2, <1>4 DEF InitBucket
  <2>2. req.buckets \in Seq(FreshBuckets) /\ Len(req.buckets) <= NumTreeNodes
    BY <1>1, <1>2, RequestShapes
  <2>3. b \in FreshBuckets /\ b \in Buckets
    <3>1. b \in FreshBuckets
      BY <2>1, <2>2
    <3> QED  BY <3>1, FreshFacts
  <2>4. rest \in Requests /\ rest.cmd = "I"
    <3>1. Tail(req.buckets) \in Seq(FreshBuckets) /\ Len(Tail(req.buckets)) <= NumTreeNodes
      BY <2>1, <2>2
    <3> QED  BY <3>1 DEF Requests
  <2>5. \/ WriteBucketToDisk(n, b) /\ req' = rest /\ UNCHANGED <<spc, running>>
        \/ WriteBucketThrows(n, b) /\ req' = NoMsg /\ spc' = "left" /\ running' = FALSE
    BY <1>4 DEF InitBucket, Consume, Leave
  <2> HIDE DEF n, b, rest
  <2>6. CASE WriteBucketToDisk(n, b) /\ req' = rest /\ UNCHANGED <<spc, running>>
    <3>1. /\ tree' \in [Nodes -> Buckets \cup {NoBucket}] /\ tree'[n] \in {b, NoBucket}
          /\ \A m \in Nodes : m # n => tree'[m] = tree[m]
      BY <1>1, <2>3, <2>6, WriteFacts
    <3>2. \A m \in Nodes : tree'[m] \in {tree[m], NoBucket} \cup FreshBuckets
      BY <2>3, <3>1
    <3> QED  BY <1>1, <1>2, <2>1, <2>4, <2>6, <3>1, <3>2, InitTurnKeeps
  <2>7. CASE WriteBucketThrows(n, b) /\ req' = NoMsg /\ spc' = "left" /\ running' = FALSE
    <3>1. /\ tree' \in [Nodes -> Buckets \cup {NoBucket}]
          /\ \A m \in Nodes : tree'[m] \in {tree[m], NoBucket}
      BY <1>1, <2>3, <2>7, WriteFacts
    <3>2. \A m \in Nodes : tree'[m] \in {tree[m], NoBucket} \cup FreshBuckets
      BY <3>1
    <3> QED  BY <1>1, <1>2, <2>1, <2>7, <3>1, <3>2, RefuseKeeps
  <2> QED  BY <2>5, <2>6, <2>7
<1> QED  BY <1>3, <1>4
\* Bucket k of the path is as the client saw it when it chose its slot.
AsSeen(t, k) ==
    /\ t[Paths[oldLeaf][k]] # NoBucket
    /\ req.offsets[k] \in BlockOffsets(t[Paths[oldLeaf][k]], call.addr)
    /\ k \in targets <=> Targets(t[Paths[oldLeaf][k]], call.addr) # {}

\* A turn of the loop over the slots of a path that takes its slot.
LEMMA SlotTaken ==
    ASSUME IInv, UNCHANGED <<clientVars, oracle, nodeCount, running, spc, xorReads, lastSlots, conn, req, resp>>,
           spc = "xor", Len(picked) < TreeHeight + 1,
           NEW n, n = Paths[req.leaf][Len(picked) + 1],
           NEW slot, slot = req.offsets[Len(picked) + 1],
           SlotIsValid(n, slot), WriteBucketToDisk(n, Invalidate(tree[n], slot)),
           picked' = Append(picked, SlotData(tree[n], slot))
    PROVE  IInv'
<1> DEFINE b == tree[n]
           j == Len(picked) + 1
<1> USE NoMsgFacts, Constants
<1>0. /\ req.cmd = "X" /\ req.leaf \in Leaves /\ tree \in [Nodes -> Buckets \cup {NoBucket}]
      /\ picked \in Seq(Data) /\ nodeCount \in {0, NumTreeNodes} /\ oldLeaf \in Leaves
      /\ Len(picked) \in Nat /\ j \in 1 .. TreeHeight + 1 /\ j = Len(picked) + 1
      /\ n = Paths[req.leaf][j] /\ slot = req.offsets[j]
  <2>1. req.cmd = "X" /\ req \in Requests
    BY DEF IInv, TypeOK, Conversation
  <2>2. req.leaf \in Leaves
    BY <2>1, RequestShapes
  <2>3. /\ tree \in [Nodes -> Buckets \cup {NoBucket}] /\ picked \in Seq(Data)
        /\ nodeCount \in {0, NumTreeNodes} /\ oldLeaf \in Leaves
    BY DEF IInv, TypeOK
  <2> QED  BY <2>1, <2>2, <2>3
<1> HIDE DEF j
<1>1. /\ resp = NoMsg \/ cpc = "destroyed"
      /\ cpc = "xor" => req.leaf = oldLeaf
      /\ failed \/ cpc = "xor"
  BY <1>0, PendingFacts
<1>2. n \in Nodes /\ b \in Buckets /\ slot \in b.valids
  BY <1>0 DEF SlotIsValid, Stored
<1>3. /\ Invalidate(b, slot) \in Buckets /\ Invalidate(b, slot).count = b.count + 1
      /\ Invalidate(b, slot).valids = b.valids \ {slot}
  <2> HIDE DEF b
  <2> QED  BY <1>2, InvalidateFacts
<1>4. SlotData(b, slot) \in Data /\ (slot \in ValidDummyOffsets(b) => SlotData(b, slot) = Zero)
  BY <1>2, SlotDataFacts
<1> HIDE DEF b
<1>5. /\ tree' \in [Nodes -> Buckets \cup {NoBucket}]
      /\ tree'[n] \in {Invalidate(b, slot), NoBucket}
      /\ \A m \in Nodes : m # n => tree'[m] = tree[m]
  BY <1>0, <1>3, WriteFacts DEF b
<1>6. /\ picked' \in Seq(Data) /\ Len(picked') = j /\ picked'[j] = SlotData(b, slot)
      /\ \A k \in 1 .. Len(picked) : picked'[k] = picked[k]
  <2>1. picked' = Append(picked, SlotData(b, slot))
    BY DEF b
  <2> QED  BY <1>0, <1>4, <2>1
<1>7. \A i, k \in 1 .. TreeHeight + 1 : Paths[req.leaf][i] = Paths[req.leaf][k] => i = k
  BY <1>0, PathsFacts
<1>8. TypeOK'
  BY <1>0, <1>5, <1>6 DEF IInv, TypeOK, clientVars
<1>9. CallState'
  BY DEF IInv, CallState, clientVars
<1>10. Conversation'
  BY <1>0 DEF IInv, Conversation, InStep, Waiting, clientVars
<1>11. RepliesAreTrue'
  <2>1. CASE resp = NoMsg
    BY <2>1 DEF RepliesAreTrue
  <2>2. CASE cpc = "destroyed"
    BY <2>2 DEF IInv, Conversation, InStep, RepliesAreTrue, clientVars
  <2> QED  BY <1>1, <2>1, <2>2
<1>12. SlotsAsAsked'
  <2> SUFFICES ASSUME cpc = "xor" PROVE SlotsAsAsked'
    BY DEF SlotsAsAsked, clientVars
  <2>1. resp = NoMsg /\ req.leaf = oldLeaf
    BY <1>1
  <2>2. Dummies(picked) /\ \A k \in j .. TreeHeight + 1 : AsSeen(tree, k)
    <3>1. /\ Dummies(picked)
          /\ \A k \in Len(picked) + 1 .. TreeHeight + 1 :
               LET c == tree[Paths[oldLeaf][k]]
               IN  /\ c # NoBucket
                   /\ req.offsets[k] \in BlockOffsets(c, call.addr)
                   /\ k \in targets <=> Targets(c, call.addr) # {}
      BY <1>0 DEF IInv, SlotsAsAsked
    <3>2. \A k \in Len(picked) + 1 .. TreeHeight + 1 : AsSeen(tree, k)
      BY <3>1 DEF AsSeen
    <3> QED  BY <1>0, <3>1, <3>2
  <2>3. j \notin targets => SlotData(b, slot) = Zero
    <3>1. AsSeen(tree, j)
      BY <1>0, <2>2
    <3>2. /\ slot \in BlockOffsets(b, call.addr)
          /\ j \in targets <=> Targets(b, call.addr) # {}
      BY <1>0, <2>1, <3>1 DEF b, AsSeen
    <3>3. Targets(b, call.addr) = {} => BlockOffsets(b, call.addr) = ValidDummyOffsets(b)
      BY <1>2, TargetsType
    <3> QED  BY <1>4, <3>2, <3>3
  <2>4. Dummies(picked')
    <3> SUFFICES ASSUME NEW k \in 1 .. Len(picked'), k \notin targets
                 PROVE  picked'[k] = Zero
      BY DEF Dummies
    <3>1. CASE k = j
      BY <1>6, <2>3, <3>1
    <3>2. CASE k # j
      <4>1. k \in 1 .. Len(picked)
        BY <1>0, <1>6, <3>2
      <4> QED  BY <1>6, <2>2, <4>1 DEF Dummies
    <3> QED  BY <3>1, <3>2
  <2>5. ASSUME NEW k \in j + 1 .. TreeHeight + 1
        PROVE  tree'[Paths[oldLeaf][k]] = tree[Paths[oldLeaf][k]] /\ k \in j .. TreeHeight + 1
    <3>1. k \in 1 .. TreeHeight + 1 /\ k # j /\ k \in j .. TreeHeight + 1
      BY <1>0
    <3>2. Paths[oldLeaf][k] # n
      BY <1>0, <1>7, <2>1, <3>1
    <3>3. Paths[oldLeaf][k] \in Nodes
      BY <1>0, <3>1, PathsFacts
    <3> QED  BY <1>5, <3>1, <3>2, <3>3
  <2>6. Dummies(picked)'
    BY <2>4 DEF Dummies, clientVars
  <2>7. \A k \in j + 1 .. TreeHeight + 1 : AsSeen(tree', k)
    BY <2>2, <2>5 DEF AsSeen
  <2>8. \A k \in Len(picked') + 1 .. TreeHeight + 1 :
             LET c == tree'[Paths[oldLeaf][k]]
             IN  /\ c # NoBucket
                 /\ req.offsets[k] \in BlockOffsets(c, call.addr)
                 /\ k \in targets <=> Targets(c, call.addr) # {}
    BY <1>6, <2>7 DEF AsSeen
  <2> QED  BY <2>1, <2>6, <2>8 DEF SlotsAsAsked, clientVars
<1>13. CountInv'
  <2> SUFFICES ASSUME NEW m \in Nodes, tree'[m] # NoBucket
               PROVE  /\ tree'[m].count = Cardinality(Slots \ tree'[m].valids)
                      /\ ~ failed => tree'[m].count <= S /\ (tree'[m].count = S => AwaitsReshuffle(m)')
    BY DEF CountInv, clientVars
  <2>1. CASE m # n
    <3>1. AwaitsReshuffle(m) => AwaitsReshuffle(m)'
      BY <1>0, <1>6 DEF AwaitsReshuffle, Among, clientVars
    <3> QED  BY <1>5, <2>1, <3>1 DEF IInv, CountInv
  <2>2. CASE m = n
    <3>1. /\ tree'[n].count = b.count + 1 /\ tree'[n].valids = b.valids \ {slot}
      BY <1>3, <1>5, <2>2
    <3>2. /\ b.count = Cardinality(Slots \ b.valids)
          /\ ~ failed => b.count <= S /\ (b.count = S => AwaitsReshuffle(n))
      BY <1>2 DEF IInv, CountInv, SlotIsValid, Stored, b
    <3>3. tree'[n].count = Cardinality(Slots \ tree'[n].valids)
      <4> HIDE DEF b
      <4> QED  BY <1>2, <3>1, <3>2, CountStep
    <3>4. ASSUME ~ failed PROVE tree'[n].count <= S /\ AwaitsReshuffle(n)'
      <4>1. cpc = "xor" /\ req.leaf = oldLeaf
        BY <1>1, <3>4
      <4>2. ~ AwaitsReshuffle(n)
        <5> SUFFICES ASSUME NEW k \in 1 .. TreeHeight + 1, n = Paths[oldLeaf][k], k <= Len(picked)
                     PROVE  FALSE
          BY <1>0, <4>1 DEF AwaitsReshuffle
        <5>1. Paths[req.leaf][k] = Paths[req.leaf][j]
          BY <1>0, <4>1, Zenon
        <5>2. k = j
          BY <1>0, <1>7, <5>1
        <5> QED  BY <1>0, <5>2
      <4>3. b.count \in Nat
        BY <1>2 DEF Buckets
      <4>4. AwaitsReshuffle(n)'
        <5>1. j \in 1 .. TreeHeight + 1 /\ n = Paths[oldLeaf][j] /\ j <= Len(picked')
          BY <1>0, <1>6, <4>1
        <5> QED  BY <4>1, <5>1 DEF AwaitsReshuffle, clientVars
      <4>5. b.count + 1 <= S
        <5>1. b.count <= S /\ b.count # S
          BY <3>2, <3>4, <4>2
        <5> HIDE DEF b
        <5> QED  BY <4>3, <5>1, Constants
      <4> QED  BY <3>1, <4>4, <4>5
    <3> QED  BY <2>2, <3>3, <3>4
  <2> QED  BY <2>1, <2>2
<1>14. ReadsCounted'
  BY DEF IInv, ReadsCounted, clientVars
<1> QED  BY <1>8, <1>9, <1>10, <1>11, <1>12, <1>13, <1>14 DEF IInv
\* The read of a path, from its request to its answer.
LEMMA XorKeeps ==
    ASSUME IInv, UNCHANGED <<clientVars, oracle>>, HandleXorPathSlots \/ XorSlot \/ AnswerXor
    PROVE  IInv'
<1> USE Constants, NoMsgFacts
<1>1. /\ running \in BOOLEAN /\ tree \in [Nodes -> Buckets \cup {NoBucket}]
      /\ nodeCount \in {0, NumTreeNodes} /\ req \in Requests /\ picked \in Seq(Data)
      /\ xorReads \in 0 .. SizeTModulus - 1 /\ lastSlots \in {0, TreeHeight + 1}
      /\ spc = "xor" => req.cmd = "X"
      /\ spc # "xor" => picked = << >>
  BY DEF IInv, TypeOK, Conversation
<1>2. req.cmd = "X" /\ (resp = NoMsg \/ cpc = "destroyed") /\ (conn = "up" => cpc = "xor")
  <2>1. req.cmd = "X"
    BY <1>1 DEF HandleXorPathSlots, XorSlot, AnswerXor, Command
  <2> QED  BY <2>1, PendingFacts
<1>3. CASE HandleXorPathSlots
  <2>1. /\ spc = "recv" /\ picked' = << >> /\ picked = << >>
        /\ UNCHANGED <<tree, nodeCount, xorReads, lastSlots, conn, resp>>
    BY <1>1, <1>3 DEF HandleXorPathSlots, Command
  <2>2. CASE spc' = "xor" /\ UNCHANGED <<running, req>>
    <3>1. UNCHANGED picked
      BY <2>1
    <3>2. TypeOK'
      BY <2>1, <2>2, <3>1 DEF IInv, TypeOK, clientVars, ServerPoints
    <3>3. CallState'
      BY DEF IInv, CallState, clientVars
    <3>4. Conversation'
      BY <1>2, <2>1, <2>2, <3>1 DEF IInv, Conversation, InStep, Waiting, clientVars
    <3>5. RepliesAreTrue' /\ ReadsCounted'
      BY <2>1, <2>2 DEF IInv, RepliesAreTrue, ReadsCounted, clientVars
    <3>6. SlotsAsAsked'
      BY <2>1, <2>2, <3>1 DEF IInv, SlotsAsAsked, Dummies, clientVars
    <3>7. CountInv'
      BY <2>1, <2>2, <3>1 DEF IInv, CountInv, AwaitsReshuffle, Among, clientVars
    <3> QED  BY <3>2, <3>3, <3>4, <3>5, <3>6, <3>7 DEF IInv
  <2>3. CASE ~ (spc' = "xor" /\ UNCHANGED <<running, req>>)
    <3>1. req' = NoMsg /\ spc' = "left" /\ running' = FALSE
      BY <1>3, <2>3 DEF HandleXorPathSlots, Consume, Leave
    <3>2. /\ tree' \in [Nodes -> Buckets \cup {NoBucket}]
          /\ \A m \in Nodes : tree'[m] \in {tree[m], NoBucket} \cup FreshBuckets
      BY <1>1, <2>1
    <3> QED  BY <1>1, <2>1, <3>1, <3>2, RefuseKeeps
  <2> QED  BY <2>2, <2>3
<1>4. CASE XorSlot
  <2> DEFINE n    == Paths[req.leaf][Len(picked) + 1]
             slot == req.offsets[Len(picked) + 1]
  <2>1. /\ spc = "xor" /\ Len(picked) < TreeHeight + 1
        /\ UNCHANGED <<nodeCount, xorReads, lastSlots, conn, resp>>
    BY <1>4 DEF XorSlot
  <2>2. \/ /\ SlotIsValid(n, slot) /\ WriteBucketToDisk(n, Invalidate(tree[n], slot))
           /\ picked' = Append(picked, SlotData(tree[n], slot)) /\ UNCHANGED <<spc, running, req>>
        \/ /\ \/ UNCHANGED tree
              \/ SlotIsValid(n, slot) /\ WriteBucketThrows(n, Invalidate(tree[n], slot))
           /\ req' = NoMsg /\ spc' = "left" /\ running' = FALSE /\ picked' = << >>
    BY <1>4 DEF XorSlot, Consume, Leave
  <2> HIDE DEF n, slot
  <2>3. CASE /\ SlotIsValid(n, slot) /\ WriteBucketToDisk(n, Invalidate(tree[n], slot))
             /\ picked' = Append(picked, SlotData(tree[n], slot)) /\ UNCHANGED <<spc, running, req>>
    BY <2>1, <2>3, SlotTaken DEF n, slot
  <2>4. CASE /\ \/ UNCHANGED tree
                \/ SlotIsValid(n, slot) /\ WriteBucketThrows(n, Invalidate(tree[n], slot))
             /\ req' = NoMsg /\ spc' = "left" /\ running' = FALSE /\ picked' = << >>
    <3>1. /\ tree' \in [Nodes -> Buckets \cup {NoBucket}]
          /\ \A m \in Nodes : tree'[m] \in {tree[m], NoBucket}
      <4>1. CASE UNCHANGED tree
        BY <1>1, <4>1
      <4>2. CASE SlotIsValid(n, slot) /\ WriteBucketThrows(n, Invalidate(tree[n], slot))
        <5>1. tree[n] \in Buckets
          BY <1>1, <4>2 DEF SlotIsValid, Stored
        <5>2. Invalidate(tree[n], slot) \in Buckets
          BY <5>1, InvalidateFacts
        <5> QED  BY <1>1, <4>2, <5>2, WriteFacts
      <4> QED  BY <2>4, <4>1, <4>2
    <3>2. \A m \in Nodes : tree'[m] \in {tree[m], NoBucket} \cup FreshBuckets
      BY <3>1
    <3> QED  BY <1>1, <1>2, <2>1, <2>4, <3>1, <3>2, RefuseKeeps
  <2> QED  BY <2>2, <2>3, <2>4
<1>5. CASE AnswerXor
  <2> DEFINE m == [cmd |-> "xor", slots |-> picked]
  <2>1. /\ spc = "xor" /\ Len(picked) = TreeHeight + 1 /\ picked' = << >>
        /\ xorReads' = (xorReads + 1) % SizeTModulus /\ lastSlots' = TreeHeight + 1
        /\ UNCHANGED <<tree, nodeCount, conn>> /\ Answer(m, TRUE, FALSE)
    BY <1>5 DEF AnswerXor, CountXorRead
  <2>2. m.cmd = "xor" /\ m.slots = picked
    OBVIOUS
  <2> HIDE DEF m
  <2>3. /\ req' = NoMsg /\ running' \in BOOLEAN /\ spc' \in {"recv", "left"}
        /\ (conn = "up" /\ resp' = m) \/ (resp' = resp /\ conn # "up")
    BY <1>1, <2>1 DEF Answer, SendReply, MayThrow, Consume, NextTurn, Leave
  <2>4. /\ tree' \in [Nodes -> Buckets \cup {NoBucket}]
        /\ \A n \in Nodes : tree'[n] \in {tree[n], NoBucket} \cup FreshBuckets
    BY <1>1, <2>1
  <2>5. CASE conn = "up" /\ resp' = m
    <3>1. cpc = "xor" /\ Dummies(picked)
      BY <1>2, <2>5 DEF IInv, SlotsAsAsked
    <3>2. RepliesAreTrue'
      BY <2>2, <2>5 DEF RepliesAreTrue
    <3>3. resp'.cmd = "xor" /\ resp'.slots = picked
      BY <2>2, <2>5
    <3>4. Dummies(resp'.slots)
      BY <3>1, <3>3
    <3> QED  BY <1>1, <1>2, <2>1, <2>3, <2>4, <2>5, <3>2, <3>3, <3>4, AnswerKeeps
  <2>6. CASE resp' = resp /\ conn # "up"
    <3>1. conn = "down" /\ xorReads' \in 0 .. SizeTModulus - 1
      BY <1>1, <2>1, <2>6 DEF IInv, TypeOK
    <3> QED  BY <1>1, <2>1, <2>3, <2>4, <2>6, <3>1, RefuseKeeps
  <2> QED  BY <2>3, <2>5, <2>6
<1> QED  BY <1>3, <1>4, <1>5

LEMMA WriterKeeps ==
    ASSUME IInv, UNCHANGED <<clientVars, oracle>>, HandleWriteBucket
    PROVE  IInv'
<1> USE Constants, NoMsgFacts
<1>1. /\ running \in BOOLEAN /\ tree \in [Nodes -> Buckets \cup {NoBucket}]
      /\ nodeCount \in {0, NumTreeNodes} /\ req \in Requests /\ spc = "recv" /\ req.cmd = "W"
      /\ picked = << >> /\ picked' = << >>
      /\ UNCHANGED <<nodeCount, xorReads, lastSlots, picked, conn>>
  BY DEF IInv, TypeOK, Conversation, HandleWriteBucket, Command
<1>2. /\ resp = NoMsg \/ cpc = "destroyed"
      /\ conn = "up" => cpc = "ack" /\ req.node = Head(writes)
  BY <1>1, PendingFacts
<1>3. req.bucket \in FreshBuckets /\ req.bucket \in Buckets
  <2>1. req.bucket \in FreshBuckets
    BY <1>1, RequestShapes
  <2> QED  BY <2>1, FreshFacts
<1>4. CASE WriteBucketToDisk(req.node, req.bucket) /\ Answer([cmd |-> "ack"], TRUE, FALSE)
  <2>1. /\ tree' \in [Nodes -> Buckets \cup {NoBucket}] /\ req.node \in Nodes
        /\ tree'[req.node] \in {req.bucket, NoBucket}
        /\ \A m \in Nodes : m # req.node => tree'[m] = tree[m]
    BY <1>1, <1>3, <1>4, WriteFacts
  <2>2. \A m \in Nodes : tree'[m] \in {tree[m], NoBucket} \cup FreshBuckets
    BY <1>3, <2>1
  <2>3. /\ req' = NoMsg /\ running' \in BOOLEAN /\ spc' \in {"recv", "left"}
        /\ (conn = "up" /\ resp' = [cmd |-> "ack"]) \/ resp' = resp
    BY <1>1, <1>4 DEF Answer, SendReply, Consume, NextTurn, Leave
  <2>4. CASE conn = "up" /\ resp' = [cmd |-> "ack"]
    <3>1. RepliesAreTrue'
      BY <1>2, <1>3, <2>1, <2>4 DEF RepliesAreTrue, clientVars
    <3>2. resp'.cmd = "ack"
      BY <2>4
    <3> QED  BY <1>1, <2>1, <2>2, <2>3, <2>4, <3>1, <3>2, AnswerKeeps
  <2>5. CASE resp' = resp
    BY <1>1, <1>2, <2>1, <2>2, <2>3, <2>5, RefuseKeeps
  <2> QED  BY <2>3, <2>4, <2>5
<1>5. CASE /\ WriteBucketThrows(req.node, req.bucket) \/ UNCHANGED tree
           /\ req' = NoMsg /\ spc' = "left" /\ running' = FALSE /\ UNCHANGED resp
  <2>1. /\ tree' \in [Nodes -> Buckets \cup {NoBucket}]
        /\ \A m \in Nodes : tree'[m] \in {tree[m], NoBucket}
    <3>1. CASE UNCHANGED tree
      BY <1>1, <3>1
    <3>2. CASE WriteBucketThrows(req.node, req.bucket)
      BY <1>1, <1>3, <3>2, WriteFacts
    <3> QED  BY <1>5, <3>1, <3>2
  <2>2. \A m \in Nodes : tree'[m] \in {tree[m], NoBucket} \cup FreshBuckets
    BY <2>1
  <2> QED  BY <1>1, <1>2, <1>5, <2>1, <2>2, RefuseKeeps
<1> QED  BY <1>4, <1>5 DEF HandleWriteBucket, Consume, Leave

LEMMA ServerKeeps == IInv /\ ServerNext => IInv'
<1> SUFFICES ASSUME IInv, ServerNext PROVE IInv'
  OBVIOUS
<1> USE NoMsgFacts
<1>1. /\ UNCHANGED <<clientVars, oracle>> /\ running \in BOOLEAN /\ spc \in ServerPoints
      /\ tree \in [Nodes -> Buckets \cup {NoBucket}] /\ nodeCount \in {0, NumTreeNodes}
      /\ spc # "xor" => picked = << >>
  BY DEF ServerNext, IInv, TypeOK, Conversation
<1>2. CASE StartHandleRequests \/ Stop \/ DestroyServer
  <2>1. /\ UNCHANGED <<tree, nodeCount, xorReads, lastSlots, picked, req, resp>>
        /\ running' \in BOOLEAN /\ spc' \in ServerPoints /\ conn' \in {conn, "down"}
        /\ spc' = spc \/ (spc \notin {"init", "xor"} /\ spc' \notin {"init", "xor"})
    BY <1>1, <1>2 DEF StartHandleRequests, Stop, DestroyServer, ServerPoints
  <2> QED  BY <1>1, <2>1, LullKeeps
<1>3. CASE HandleQuit \/ ServerRecvThrows
  <2>1. /\ UNCHANGED <<tree, nodeCount, xorReads, lastSlots, picked, conn, resp>>
        /\ req' = NoMsg /\ spc' = "left" /\ running' = FALSE /\ spc # "xor"
    BY <1>3 DEF HandleQuit, ServerRecvThrows, Consume, Leave
  <2>2. /\ tree' \in [Nodes -> Buckets \cup {NoBucket}] /\ picked' = << >>
        /\ \A m \in Nodes : tree'[m] \in {tree[m], NoBucket} \cup FreshBuckets
    BY <1>1, <2>1
  <2> QED  BY <1>1, <2>1, <2>2, RefuseKeeps
<1>4. CASE HandleInit \/ InitBucket
  BY <1>1, <1>4, LoaderKeeps
<1>5. CASE HandleXorPathSlots \/ XorSlot \/ AnswerXor
  BY <1>1, <1>5, XorKeeps
<1>6. CASE HandleWriteBucket
  BY <1>1, <1>6, WriterKeeps
<1>7. CASE \/ AckInit \/ HandleReadPathMetadata \/ HandleReadBucket
           \/ HandleReadBucketCount \/ HandleReadStats
  BY <1>1, <1>7, ReadersKeep
<1> QED  BY <1>2, <1>3, <1>4, <1>5, <1>6, <1>7 DEF ServerNext, ServerStep
-----------------------------------------------------------------------------
\* Where the client is neither waiting nor gone nothing is on its way, unless the
\* connection is lost.
LEMMA QuietFacts ==
    ASSUME IInv
    PROVE  /\ cpc \in {"build", "put", "work"} => req = NoMsg /\ resp = NoMsg
           /\ cpc = "idle" => resp = NoMsg /\ (req = NoMsg \/ conn = "down")
BY NoMsgFacts DEF IInv, Conversation, InStep

\* A reply that has come is the answer to the only request.
LEMMA RepliedFacts ==
    ASSUME IInv, resp.cmd # "none", cpc # "destroyed"
    PROVE  req = NoMsg /\ spc \notin {"init", "xor"} /\ picked = << >>
<1>1. resp # NoMsg /\ InStep /\ cpc \in ClientPoints
  BY NoMsgFacts DEF IInv, TypeOK, Conversation
<1>2. req = NoMsg
  BY <1>1, NoMsgFacts DEF ClientPoints, InStep, Waiting
<1> QED  BY <1>2, NoMsgFacts DEF IInv, Conversation

\* The client is back at a point where it waits for nothing.
LEMMA QuietKeeps ==
    ASSUME IInv, UNCHANGED <<serverVars, conn>>, req = NoMsg, req' = NoMsg, resp' = NoMsg,
           cpc' \in {"build", "idle", "put", "work"}
    PROVE  Conversation' /\ RepliesAreTrue' /\ SlotsAsAsked'
<1> USE NoMsgFacts
<1>1. spc \notin {"init", "xor"} /\ picked = << >>
  BY DEF IInv, Conversation
<1>2. Conversation'
  BY <1>1 DEF Conversation, InStep, Waiting, serverVars
<1>3. RepliesAreTrue'
  BY DEF RepliesAreTrue
<1>4. SlotsAsAsked'
  BY DEF SlotsAsAsked
<1> QED  BY <1>2, <1>3, <1>4

\* The client sends a request and waits for its answer.
Sends(m) ==
    /\ m \in Requests
    /\ \/ cpc' = "init" /\ m.cmd = "I"
       \/ cpc' = "metadata" /\ m.cmd = "M" /\ m.leaf = oldLeaf'
       \/ cpc' = "xor" /\ m.cmd = "X" /\ m.leaf = oldLeaf'
       \/ cpc' = "bucket" /\ m.cmd = "B" /\ m.node = Head(reads')
       \/ cpc' = "ack" /\ m.cmd = "W" /\ m.node = Head(writes')
       \/ cpc' = "count" /\ m.cmd = "T" /\ m.node = Head(checks')
       \/ cpc' = "stats" /\ m.cmd = "S"

LEMMA SendKeeps ==
    ASSUME IInv, UNCHANGED <<serverVars, conn>>, req = NoMsg, resp' = NoMsg,
           NEW m, Sends(m), SendRequest(m)
    PROVE  Conversation' /\ RepliesAreTrue' /\ req' \in Requests /\ req' \in {m, NoMsg}
           /\ (conn = "up" => req' = m)
<1> USE NoMsgFacts
<1>1. spc \notin {"init", "xor"} /\ picked = << >>
  BY DEF IInv, Conversation
<1>2. req' \in {m, NoMsg} /\ (conn = "up" => req' = m)
  BY DEF SendRequest
<1>3. req' \in Requests
  BY <1>2 DEF Sends
<1>4. InStep'
  BY <1>2 DEF Sends, InStep, Waiting
<1>5. Conversation'
  BY <1>1, <1>2, <1>4 DEF Conversation, Sends, serverVars
<1>6. RepliesAreTrue'
  BY DEF RepliesAreTrue
<1> QED  BY <1>2, <1>3, <1>5, <1>6

\* A step of the client leaves the counts of the buckets alone, as long as what
\* awaits a reshuffle still does.
LEMMA CountKeeps ==
    ASSUME IInv, UNCHANGED serverVars,
           \/ failed'
           \/ ~ failed /\ \A n \in Nodes : /\ tree[n] # NoBucket /\ tree[n].count = S
                                           /\ AwaitsReshuffle(n)
                                           => AwaitsReshuffle(n)'
    PROVE  CountInv'
<1> SUFFICES ASSUME NEW n \in Nodes, tree[n] # NoBucket
             PROVE  /\ tree[n].count = Cardinality(Slots \ tree[n].valids)
                    /\ ~ failed' => tree[n].count <= S /\ (tree[n].count = S => AwaitsReshuffle(n)')
  BY DEF CountInv, serverVars
<1> QED  BY DEF IInv, CountInv

\* A call throws.
LEMMA ThrowKeeps ==
    ASSUME IInv, UNCHANGED <<serverVars, posMap, readPaths, conn, req, oracle>>, Throws,
           stash' = Malformed \/ stash' \in Seq(Block),
           round' \in 0 .. A - 1, evictions' \in 0 .. SizeTModulus - 1,
           resp' = NoMsg, conn = "down" \/ (req = NoMsg /\ xorReads = readPaths)
    PROVE  IInv'
<1> USE Constants, NoMsgFacts
<1>1. /\ cpc' = "idle" /\ call' = NoCall /\ oldLeaf' = 0 /\ targets' = {} /\ block' = NoBlock
      /\ reads' = << >> /\ writes' = << >> /\ checks' = << >> /\ result' = NoResult /\ failed' = TRUE
  BY DEF Throws, EndOfCall
<1>2. ServerTypes'
  BY TypeParts DEF IInv, ServerTypes, serverVars
<1>3. ClientTypes'
  BY <1>1, TypeParts DEF IInv, ClientTypes, ClientPoints
<1>4. CallState'
  BY <1>1 DEF CallState
<1>5. Conversation'
  BY <1>1 DEF IInv, Conversation, InStep, Waiting, serverVars
<1>6. RepliesAreTrue' /\ SlotsAsAsked'
  BY <1>1 DEF RepliesAreTrue, SlotsAsAsked
<1>7. CountInv'
  BY <1>1, CountKeeps
<1>8. ReadsCounted'
  BY <1>1 DEF IInv, ReadsCounted, TypeOK, serverVars
<1> QED  BY <1>2, <1>3, <1>4, <1>5, <1>6, <1>7, <1>8, TypeParts DEF IInv
\* The constructor.
LEMMA ConstructorKeeps ==
    ASSUME IInv, UNCHANGED <<serverVars, oracle>>,
           InitializeServerStorage \/ Constructed \/ ConstructorThrows
    PROVE  IInv'
<1> USE Constants, NoMsgFacts
<1>1. ServerTypes /\ ClientTypes /\ CallState /\ ReadsCounted
  BY TypeParts DEF IInv
<1>2. CASE InitializeServerStorage
  <2>1. /\ cpc = "build" /\ cpc' = "init" /\ SaveStash(Remaining[NumTreeNodes])
        /\ UNCHANGED <<posMap, round, evictions, readPaths, call, oldLeaf, targets, block,
                       reads, writes, checks, result, failed, conn, resp>>
    BY <1>2 DEF InitializeServerStorage
  <2>2. req = NoMsg /\ resp = NoMsg /\ resp' = NoMsg /\ stash \in Seq(Block)
    BY <1>1, <2>1, QuietFacts DEF CallState
  <2>3. PICK ptrs \in InitialLayouts :
          SendRequest([cmd     |-> "I",
                       buckets |-> [k \in 1 .. NumTreeNodes |-> ResetWithBlocks(InitialBlocks(k - 1), ptrs[k - 1])]])
    BY <1>2 DEF InitializeServerStorage
  <2> DEFINE buckets == [k \in 1 .. NumTreeNodes |-> ResetWithBlocks(InitialBlocks(k - 1), ptrs[k - 1])]
             m == [cmd |-> "I", buckets |-> buckets]
  <2>4. buckets \in Seq(FreshBuckets) /\ Len(buckets) = NumTreeNodes
    <3>1. ASSUME NEW k \in 1 .. NumTreeNodes
          PROVE  ResetWithBlocks(InitialBlocks(k - 1), ptrs[k - 1]) \in FreshBuckets
      <4>1. k - 1 \in Nodes
        BY DEF Nodes
      <4>2. /\ InitialBlocks(k - 1) \in Seq(Block) /\ Len(InitialBlocks(k - 1)) <= Z
            /\ ptrs[k - 1] \in Layouts(InitialBlocks(k - 1))
        BY <2>2, <4>1, InitialBlocksType DEF InitialLayouts
      <4> QED  BY <4>2, ResetType
    <3> QED  BY <3>1
  <2>5. SendRequest(m) /\ Sends(m)
    <3>1. m \in Requests /\ m.cmd = "I"
      BY <2>4 DEF Requests
    <3> QED  BY <2>1, <2>3, <3>1 DEF Sends
  <2> HIDE DEF m
  <2>6. Conversation' /\ RepliesAreTrue' /\ req' \in Requests
    BY <2>1, <2>2, <2>5, SendKeeps
  <2>7. stash' = Malformed \/ stash' \in Seq(Block)
    <3>1. Remaining[NumTreeNodes] \in Seq(Block)
      BY <2>2, RemainingSteps
    <3> QED  BY <2>1, <3>1 DEF SaveStash
  <2>8. ServerTypes' /\ ClientTypes'
    BY <1>1, <2>1, <2>6, <2>7 DEF ServerTypes, ClientTypes, ClientPoints, serverVars
  <2>9. CallState' /\ ReadsCounted' /\ SlotsAsAsked'
    BY <1>1, <2>1, <2>2 DEF CallState, ReadsCounted, SlotsAsAsked, serverVars
  <2>10. CountInv'
    <3>1. \A n \in Nodes : ~ AwaitsReshuffle(n)
      BY <2>1 DEF AwaitsReshuffle
    <3>2. failed' \/ ~ failed
      BY <2>1
    <3> QED  BY <3>1, <3>2, CountKeeps
  <2> QED  BY <2>6, <2>8, <2>9, <2>10, TypeParts DEF IInv
<1>3. CASE Constructed
  <2>1. /\ cpc = "init" /\ cpc' = "idle" /\ resp.cmd = "ack" /\ resp' = NoMsg
        /\ UNCHANGED <<posMap, stash, round, evictions, readPaths, call, oldLeaf, targets, block,
                       reads, writes, checks, result, failed, conn, req>>
    BY <1>3 DEF Constructed, ExpectAck
  <2>2. req = NoMsg
    BY <2>1, RepliedFacts
  <2>3. Conversation' /\ RepliesAreTrue' /\ SlotsAsAsked'
    BY <2>1, <2>2, QuietKeeps
  <2>4. ServerTypes' /\ ClientTypes'
    BY <1>1, <2>1 DEF ServerTypes, ClientTypes, ClientPoints, serverVars
  <2>5. CallState' /\ ReadsCounted'
    BY <1>1, <2>1 DEF CallState, ReadsCounted, serverVars
  <2>6. CountInv'
    <3>1. \A n \in Nodes : ~ AwaitsReshuffle(n)
      BY <2>1 DEF AwaitsReshuffle
    <3>2. failed' \/ ~ failed
      BY <2>1
    <3> QED  BY <3>1, <3>2, CountKeeps
  <2> QED  BY <2>3, <2>4, <2>5, <2>6, TypeParts DEF IInv
<1>4. CASE ConstructorThrows
  <2>1. /\ cpc \in {"build", "init"} /\ cpc' = "destroyed" /\ conn' = "down"
        /\ UNCHANGED <<posMap, round, evictions, readPaths, call, oldLeaf, targets, block,
                       reads, writes, checks, result, failed, req, resp>>
    BY <1>4 DEF ConstructorThrows
  <2>2. stash' = Malformed \/ stash' \in Seq(Block)
    BY <1>1, <1>4 DEF ConstructorThrows, StashThrows, ClientTypes
  <2>3. resp.cmd \in {"none", "ack"} /\ req.cmd # "X" /\ call = NoCall
    BY <1>1, <2>1 DEF IInv, Conversation, InStep, Waiting, CallState
  <2>4. Conversation' /\ RepliesAreTrue' /\ SlotsAsAsked'
    BY <2>1, <2>3 DEF IInv, Conversation, InStep, Waiting, RepliesAreTrue, SlotsAsAsked, serverVars
  <2>5. ServerTypes' /\ ClientTypes'
    BY <1>1, <2>1, <2>2 DEF ServerTypes, ClientTypes, ClientPoints, serverVars
  <2>6. CallState' /\ ReadsCounted'
    BY <1>1, <2>1 DEF CallState, ReadsCounted, serverVars
  <2>7. CountInv'
    <3>1. \A n \in Nodes : ~ AwaitsReshuffle(n)
      BY <2>1 DEF AwaitsReshuffle
    <3>2. failed' \/ ~ failed
      BY <2>1
    <3> QED  BY <3>1, <3>2, CountKeeps
  <2> QED  BY <2>4, <2>5, <2>6, <2>7, TypeParts DEF IInv
<1> QED  BY <1>2, <1>3, <1>4
\* What the caller starts and ends between two accesses.
LEMMA CallerKeeps ==
    ASSUME IInv, UNCHANGED <<serverVars, oracle>>,
           \/ \E c \in Calls : Access(c)
           \/ FetchServerStats \/ StatsFetched \/ DestroyClient \/ Return \/ RecvThrows
    PROVE  IInv'
<1> USE Constants, NoMsgFacts
<1>1. ServerTypes /\ ClientTypes /\ CallState /\ ReadsCounted
  BY TypeParts DEF IInv
<1>2. CASE \E c \in Calls : Access(c)
  <2>1. PICK c \in Calls : Access(c)
    BY <1>2
  <2>2. c.addr \in Addr
    BY DEF Calls
  <2> DEFINE m == [cmd |-> "M", leaf |-> oldLeaf']
  <2>3. /\ cpc = "idle" /\ cpc' = "metadata" /\ call' = c /\ oldLeaf' = posMap[c.addr]
        /\ SendRequest(m)
        /\ UNCHANGED <<stash, round, evictions, readPaths, targets, block, reads, writes, checks,
                       result, failed, conn, resp>>
    BY <2>1 DEF Access
  <2>4. PICK leaf \in Leaves : posMap' = [posMap EXCEPT ![c.addr] = leaf]
    BY <2>1 DEF Access
  <2>5. oldLeaf' \in Leaves /\ posMap' \in [Addr -> Leaves]
    BY <1>1, <2>2, <2>3, <2>4 DEF ClientTypes
  <2>6. resp = NoMsg /\ resp' = NoMsg /\ (req = NoMsg \/ conn = "down")
    BY <2>3, QuietFacts
  <2>7. Conversation' /\ RepliesAreTrue' /\ req' \in Requests
    <3>1. CASE req = NoMsg
      <4>1. m \in Requests /\ m.cmd = "M" /\ m.leaf = oldLeaf'
        BY <2>5 DEF Requests
      <4> HIDE DEF m
      <4>2. Sends(m)
        BY <2>3, <4>1 DEF Sends
      <4> QED  BY <2>3, <2>6, <3>1, <4>2, SendKeeps
    <3>2. CASE req # NoMsg
      <4>1. conn = "down" /\ req' = req
        BY <2>3, <2>6, <3>2 DEF SendRequest
      <4>2. Conversation'
        BY <2>3, <2>6, <4>1 DEF IInv, Conversation, InStep, serverVars
      <4>3. RepliesAreTrue'
        BY <2>6 DEF RepliesAreTrue
      <4> QED  BY <1>1, <4>1, <4>2, <4>3 DEF ServerTypes
    <3> QED  BY <3>1, <3>2
  <2> HIDE DEF m
  <2>8. ServerTypes' /\ ClientTypes'
    BY <1>1, <2>3, <2>5, <2>7 DEF ServerTypes, ClientTypes, ClientPoints, serverVars
  <2>9. CallState' /\ ReadsCounted' /\ SlotsAsAsked'
    BY <1>1, <2>3, <2>6 DEF CallState, ReadsCounted, SlotsAsAsked, serverVars
  <2>10. CountInv'
    <3>1. \A n \in Nodes : ~ AwaitsReshuffle(n)
      BY <2>3 DEF AwaitsReshuffle
    <3>2. failed' \/ ~ failed
      BY <2>3
    <3> QED  BY <3>1, <3>2, CountKeeps
  <2> QED  BY <2>7, <2>8, <2>9, <2>10, TypeParts DEF IInv
<1>3. CASE FetchServerStats
  <2> DEFINE m == [cmd |-> "S"]
  <2>1. /\ cpc = "idle" /\ cpc' = "stats" /\ SendRequest(m)
        /\ UNCHANGED <<posMap, stash, round, evictions, readPaths, call, oldLeaf, targets, block,
                       reads, writes, checks, result, failed, conn, resp>>
    BY <1>3 DEF FetchServerStats
  <2>2. resp = NoMsg /\ resp' = NoMsg /\ (req = NoMsg \/ conn = "down")
    BY <2>1, QuietFacts
  <2>3. Conversation' /\ RepliesAreTrue' /\ req' \in Requests
    <3>1. CASE req = NoMsg
      <4>1. m \in Requests /\ m.cmd = "S"
        BY DEF Requests
      <4> HIDE DEF m
      <4>2. Sends(m)
        BY <2>1, <4>1 DEF Sends
      <4> QED  BY <2>1, <2>2, <3>1, <4>2, SendKeeps
    <3>2. CASE req # NoMsg
      <4>1. conn = "down" /\ req' = req
        BY <2>1, <2>2, <3>2 DEF SendRequest
      <4>2. Conversation'
        BY <2>1, <2>2, <4>1 DEF IInv, Conversation, InStep, serverVars
      <4>3. RepliesAreTrue'
        BY <2>2 DEF RepliesAreTrue
      <4> QED  BY <1>1, <4>1, <4>2, <4>3 DEF ServerTypes
    <3> QED  BY <3>1, <3>2
  <2> HIDE DEF m
  <2>4. ServerTypes' /\ ClientTypes'
    BY <1>1, <2>1, <2>3 DEF ServerTypes, ClientTypes, ClientPoints, serverVars
  <2>5. CallState' /\ ReadsCounted' /\ SlotsAsAsked'
    BY <1>1, <2>1, <2>2 DEF CallState, ReadsCounted, SlotsAsAsked, serverVars
  <2>6. CountInv'
    <3>1. \A n \in Nodes : ~ AwaitsReshuffle(n)
      BY <2>1 DEF AwaitsReshuffle
    <3>2. failed' \/ ~ failed
      BY <2>1
    <3> QED  BY <3>1, <3>2, CountKeeps
  <2> QED  BY <2>3, <2>4, <2>5, <2>6, TypeParts DEF IInv
<1>4. CASE StatsFetched \/ Return
  <2>1. /\ cpc \in {"stats", "work"} /\ cpc' = "idle" /\ resp' \in {NoMsg, resp}
        /\ UNCHANGED <<posMap, stash, round, evictions, readPaths, failed, conn, req>>
        /\ call' = NoCall /\ oldLeaf' \in {oldLeaf, 0} /\ targets' \in {targets, {}}
        /\ block' = NoBlock /\ reads' = << >> /\ writes' = << >> /\ checks' = << >>
        /\ result' = NoResult
        /\ cpc = "work" => reads = << >> /\ writes = << >> /\ checks = << >>
    BY <1>1, <1>4 DEF StatsFetched, Return, EndOfCall, CallState
  <2>2. resp' = NoMsg /\ (req = NoMsg \/ conn = "down")
    <3>1. CASE Return
      BY <3>1, QuietFacts DEF Return
    <3>2. CASE StatsFetched
      BY <3>2, RepliedFacts DEF StatsFetched, MayThrow
    <3> QED  BY <1>4, <3>1, <3>2
  <2>3. Conversation' /\ RepliesAreTrue' /\ SlotsAsAsked'
    <3>1. CASE req = NoMsg
      BY <2>1, <2>2, <3>1, QuietKeeps
    <3>2. CASE conn = "down"
      <4>1. Conversation'
        BY <2>1, <2>2, <3>2 DEF IInv, Conversation, InStep, Waiting, serverVars
      <4>2. RepliesAreTrue' /\ SlotsAsAsked'
        BY <2>1, <2>2 DEF RepliesAreTrue, SlotsAsAsked
      <4> QED  BY <4>1, <4>2
    <3> QED  BY <2>2, <3>1, <3>2
  <2>4. ServerTypes' /\ ClientTypes'
    <3>1. /\ oldLeaf' \in Leaves /\ targets' \subseteq 1 .. TreeHeight + 1
          /\ {reads', writes', checks'} \subseteq Seq(Nodes)
      BY <1>1, <2>1 DEF ClientTypes
    <3>2. ServerTypes'
      BY <1>1, <2>1 DEF ServerTypes, serverVars
    <3> QED  BY <1>1, <2>1, <3>1, <3>2 DEF ClientTypes, ClientPoints
  <2>5. CallState' /\ ReadsCounted'
    BY <1>1, <2>1 DEF CallState, ReadsCounted, serverVars
  <2>6. CountInv'
    <3>1. \A n \in Nodes : ~ AwaitsReshuffle(n)
      BY <2>1 DEF AwaitsReshuffle, Among
    <3>2. failed' \/ ~ failed
      BY <2>1
    <3> QED  BY <3>1, <3>2, CountKeeps
  <2> QED  BY <2>3, <2>4, <2>5, <2>6, TypeParts DEF IInv
<1>5. CASE DestroyClient
  <2>1. /\ cpc = "idle" /\ cpc' = "destroyed" /\ conn' = "down" /\ SendRequest([cmd |-> "Q"])
        /\ UNCHANGED <<posMap, stash, round, evictions, readPaths, call, oldLeaf, targets, block,
                       reads, writes, checks, result, failed, resp>>
    BY <1>5 DEF DestroyClient
  <2>2. resp = NoMsg /\ resp' = NoMsg /\ (req = NoMsg \/ conn = "down")
    BY <2>1, QuietFacts
  <2>3. req' \in Requests /\ (req' = req \/ (req = NoMsg /\ req'.cmd = "Q"))
    BY <1>1, <2>1, <2>2 DEF SendRequest, Requests, ServerTypes
  <2>4. Conversation'
    BY <2>1, <2>2, <2>3 DEF IInv, Conversation, InStep, serverVars
  <2>5. RepliesAreTrue' /\ SlotsAsAsked'
    BY <2>1, <2>2 DEF RepliesAreTrue, SlotsAsAsked
  <2>6. ServerTypes' /\ ClientTypes'
    BY <1>1, <2>1, <2>3 DEF ServerTypes, ClientTypes, ClientPoints, serverVars
  <2>7. CallState' /\ ReadsCounted'
    BY <1>1, <2>1 DEF CallState, ReadsCounted, serverVars
  <2>8. CountInv'
    <3>1. \A n \in Nodes : ~ AwaitsReshuffle(n)
      BY <2>1 DEF AwaitsReshuffle
    <3>2. failed' \/ ~ failed
      BY <2>1
    <3> QED  BY <3>1, <3>2, CountKeeps
  <2> QED  BY <2>4, <2>5, <2>6, <2>7, <2>8, TypeParts DEF IInv
<1>6. CASE RecvThrows
  BY <1>1, <1>6, ThrowKeeps DEF RecvThrows, MayThrow, ClientTypes
<1> QED  BY <1>2, <1>3, <1>4, <1>5, <1>6
\* The client chooses a slot of each bucket of the path.
LEMMA SelectKeeps ==
    ASSUME IInv, UNCHANGED <<serverVars, oracle>>, SelectOffsets
    PROVE  IInv'
<1> USE Constants, NoMsgFacts
<1> DEFINE slots == [k \in DOMAIN resp.buckets |-> BlockOffsets(resp.buckets[k], call.addr)]
           c(k)  == tree[Paths[oldLeaf][k]]
<1>1. ServerTypes /\ ClientTypes /\ CallState /\ ReadsCounted
  BY TypeParts DEF IInv
<1>2. /\ cpc = "metadata" /\ resp.cmd = "metadata" /\ resp' = NoMsg
      /\ UNCHANGED <<posMap, stash, round, evictions, conn>>
  BY DEF SelectOffsets
<1>3. req = NoMsg /\ picked = << >> /\ (conn = "up" => xorReads = readPaths) /\ conn \in {"up", "down"}
  BY <1>1, <1>2, RepliedFacts DEF ReadsCounted, ServerTypes
<1>4. /\ resp.buckets = [k \in 1 .. TreeHeight + 1 |-> MetadataFromBucket(c(k))]
      /\ \A k \in 1 .. TreeHeight + 1 : c(k) # NoBucket
  BY <1>2 DEF IInv, RepliesAreTrue
<1>5. \A k \in 1 .. TreeHeight + 1 : c(k) \in Buckets
  <2>1. \A k \in 1 .. TreeHeight + 1 : Paths[oldLeaf][k] \in Nodes
    BY <1>1, PathsFacts DEF ClientTypes
  <2> QED  BY <1>1, <1>4, <2>1 DEF ServerTypes
<1> HIDE DEF c
<1>6. /\ DOMAIN resp.buckets = 1 .. TreeHeight + 1 /\ DOMAIN slots = 1 .. TreeHeight + 1
      /\ \A k \in 1 .. TreeHeight + 1 : /\ slots[k] = BlockOffsets(c(k), call.addr)
                                        /\ Targets(resp.buckets[k], call.addr) = Targets(c(k), call.addr)
  <2>1. DOMAIN resp.buckets = 1 .. TreeHeight + 1
    BY <1>4
  <2>2. \A k \in 1 .. TreeHeight + 1 : resp.buckets[k] = MetadataFromBucket(c(k))
    BY <1>4
  <2> QED  BY <1>5, <2>1, <2>2, MetadataTells
<1>7. \/ /\ \E offsets \in [DOMAIN slots -> Slots] :
               /\ \A k \in DOMAIN slots : offsets[k] \in slots[k]
               /\ SendRequest([cmd |-> "X", leaf |-> oldLeaf, offsets |-> offsets])
         /\ targets' = {k \in DOMAIN slots : Targets(resp.buckets[k], call.addr) # {}}
         /\ readPaths' = (readPaths + 1) % SizeTModulus
         /\ cpc' = "xor"
         /\ UNCHANGED <<call, oldLeaf, block, reads, writes, checks, result, failed>>
      \/ Throws /\ UNCHANGED <<readPaths, req>>
  BY DEF SelectOffsets
<1> HIDE DEF slots
<1>8. CASE Throws /\ UNCHANGED <<readPaths, req>>
  BY <1>1, <1>2, <1>3, <1>8, ThrowKeeps DEF ClientTypes
<1>9. CASE /\ \E offsets \in [DOMAIN slots -> Slots] :
                 /\ \A k \in DOMAIN slots : offsets[k] \in slots[k]
                 /\ SendRequest([cmd |-> "X", leaf |-> oldLeaf, offsets |-> offsets])
           /\ targets' = {k \in DOMAIN slots : Targets(resp.buckets[k], call.addr) # {}}
           /\ readPaths' = (readPaths + 1) % SizeTModulus
           /\ cpc' = "xor"
           /\ UNCHANGED <<call, oldLeaf, block, reads, writes, checks, result, failed>>
  <2>1. PICK offsets \in [1 .. TreeHeight + 1 -> Slots] :
               /\ \A k \in 1 .. TreeHeight + 1 : offsets[k] \in BlockOffsets(c(k), call.addr)
               /\ SendRequest([cmd |-> "X", leaf |-> oldLeaf, offsets |-> offsets])
    BY <1>6, <1>9
  <2> DEFINE m == [cmd |-> "X", leaf |-> oldLeaf, offsets |-> offsets]
  <2>2. m \in Requests /\ m.cmd = "X" /\ m.leaf = oldLeaf' /\ m.offsets = offsets /\ SendRequest(m)
    <3>1. oldLeaf \in Leaves
      BY <1>1 DEF ClientTypes
    <3>2. m \in [cmd : {"X"}, leaf : Leaves, offsets : [1 .. TreeHeight + 1 -> Slots]]
      BY <2>1, <3>1
    <3>3. m \in Requests
      BY <3>2 DEF Requests
    <3>4. m.cmd = "X" /\ m.leaf = oldLeaf /\ m.offsets = offsets
      OBVIOUS
    <3> HIDE DEF m
    <3>5. oldLeaf' = oldLeaf /\ SendRequest(m)
      BY <1>9, <2>1 DEF m
    <3> QED  BY <3>3, <3>4, <3>5
  <2> HIDE DEF m
  <2>3. Sends(m)
    BY <1>9, <2>2 DEF Sends
  <2>4. /\ Conversation' /\ RepliesAreTrue' /\ req' \in Requests /\ req' \in {m, NoMsg}
        /\ conn = "up" => req' = m
    BY <1>2, <1>3, <2>2, <2>3, SendKeeps
  <2>5. targets' \subseteq 1 .. TreeHeight + 1 /\ readPaths' \in 0 .. SizeTModulus - 1
    BY <1>1, <1>6, <1>9 DEF ClientTypes
  <2>6. ServerTypes' /\ ClientTypes'
    <3>1. ServerTypes'
      BY <1>1, <1>2, <2>4 DEF ServerTypes, serverVars
    <3> QED  BY <1>1, <1>2, <1>9, <2>5, <3>1 DEF ClientTypes, ClientPoints
  <2>7. CallState'
    BY <1>1, <1>2, <1>9 DEF CallState
  <2>8. ReadsCounted'
    BY <1>1, <1>2, <1>3, <1>9, <2>2, <2>4 DEF ReadsCounted, serverVars
  <2>9. SlotsAsAsked'
    <3>1. \A k \in 1 .. TreeHeight + 1 : k \in targets' <=> Targets(c(k), call.addr) # {}
      BY <1>6, <1>9
    <3>2. Dummies(picked)'
      BY <1>3 DEF Dummies, serverVars
    <3>3. \A k \in Len(picked') + 1 .. TreeHeight + 1 : k \in 1 .. TreeHeight + 1
      BY <1>3 DEF serverVars
    <3>4. ASSUME req'.cmd = "X"
          PROVE  \A k \in Len(picked') + 1 .. TreeHeight + 1 :
                   LET b == tree'[Paths[oldLeaf'][k]]
                   IN  /\ b # NoBucket
                       /\ req'.offsets[k] \in BlockOffsets(b, call'.addr)
                       /\ k \in targets' <=> Targets(b, call'.addr) # {}
      <4>1. req'.offsets = offsets
        BY <2>2, <2>4, <3>4
      <4>2. \A k \in 1 .. TreeHeight + 1 : tree'[Paths[oldLeaf'][k]] = c(k)
        BY <1>9 DEF c, serverVars
      <4>3. call'.addr = call.addr
        BY <1>9
      <4> QED  BY <1>4, <2>1, <3>1, <3>3, <4>1, <4>2, <4>3
    <3>5. resp'.cmd # "xor"
      BY <1>2
    <3> QED  BY <3>2, <3>4, <3>5 DEF SlotsAsAsked
  <2>10. CountInv'
    <3>1. \A n \in Nodes : ~ AwaitsReshuffle(n)
      BY <1>2 DEF AwaitsReshuffle
    <3>2. failed' \/ ~ failed
      BY <1>9
    <3> QED  BY <3>1, <3>2, CountKeeps
  <2> QED  BY <2>4, <2>6, <2>7, <2>8, <2>9, <2>10, TypeParts DEF IInv
<1> QED  BY <1>7, <1>8, <1>9
\* What is left of the aggregate is the payload of the one slot that was not a
\* dummy.
LEMMA DecryptedIsData ==
    ASSUME NEW s \in Seq(Data), Len(s) = TreeHeight + 1, targets \subseteq 1 .. TreeHeight + 1,
           Dummies(s), targets # {}, Cardinality(targets) <= 1
    PROVE  Decrypted(s) \in Data /\ \E k \in targets : targets = {k} /\ Decrypted(s) = s[k]
<1> DEFINE k == CHOOSE i \in targets : TRUE
<1>1. k \in targets
  BY Zenon
<1>2. IsFiniteSet(targets) /\ Cardinality(targets) \in Nat
  <2>1. IsFiniteSet(1 .. TreeHeight + 1)
    <3>1. 1 \in Int /\ TreeHeight + 1 \in Int
      BY Constants
    <3> QED  BY <3>1, FS_Interval
  <2> QED  BY <2>1, FS_Subset, FS_CardinalityType
<1>3. targets = {k}
  <2> SUFFICES ASSUME NEW j \in targets, j # k PROVE FALSE
    BY <1>1
  <2>1. {j, k} \subseteq targets /\ IsFiniteSet({j, k}) /\ Cardinality({j, k}) = 2
    <3>1. IsFiniteSet({k}) /\ Cardinality({k}) = 1
      BY FS_Singleton
    <3>2. {j, k} = {k} \cup {j} /\ j \notin {k}
      OBVIOUS
    <3> QED  BY <1>1, <3>1, <3>2, FS_AddElement
  <2>2. Cardinality({j, k}) <= Cardinality(targets)
    BY <1>2, <2>1, FS_Subset
  <2> QED  BY <1>2, <2>1, <2>2
<1>4. Decrypted(s) = IF \A j \in DOMAIN s \ {k} : s[j] = Zero THEN s[k] ELSE Garbage
  BY DEF Decrypted
<1> HIDE DEF k
<1>5. \A j \in DOMAIN s \ {k} : s[j] = Zero
  BY <1>3 DEF Dummies
<1>6. s[k] \in Data
  BY <1>1, Constants
<1> QED  BY <1>1, <1>3, <1>4, <1>5, <1>6

\* Access takes its block out of the path or the stash.
LEMMA TakeKeeps ==
    ASSUME IInv, UNCHANGED <<serverVars, oracle>>, TakeBlock
    PROVE  IInv'
<1> USE Constants, NoMsgFacts
<1> DEFINE mine == {k \in 1 .. Len(stash) : stash[k].addr = call.addr}
           data == IF targets # {} THEN Decrypted(resp.slots)
                   ELSE IF mine # {} THEN stash[CHOOSE k \in mine : \A j \in mine : k <= j].data
                   ELSE Zero
<1>1. ServerTypes /\ ClientTypes /\ CallState /\ ReadsCounted
  BY TypeParts DEF IInv
<1>2. /\ cpc = "xor" /\ resp.cmd = "xor" /\ resp' = NoMsg /\ call \in Calls
      /\ UNCHANGED <<posMap, round, evictions, readPaths, conn, req>>
  BY <1>1 DEF TakeBlock, CallState
<1>3. req = NoMsg /\ (conn = "up" => xorReads = readPaths) /\ conn \in {"up", "down"}
  BY <1>1, <1>2, RepliedFacts DEF ReadsCounted, ServerTypes
<1>4. \/ /\ Cardinality(targets) <= 1 /\ Loaded
         /\ IF mine # {} THEN SaveStash(Without(stash, call.addr)) ELSE UNCHANGED stash
         /\ block' = AccessedBlock(data) /\ cpc' = "put"
         /\ UNCHANGED <<call, oldLeaf, targets, reads, writes, checks, result, failed>>
      \/ /\ UNCHANGED stash \/ (Loaded /\ StashThrows)
         /\ Throws
  BY DEF TakeBlock
<1>5. CASE (UNCHANGED stash \/ (Loaded /\ StashThrows)) /\ Throws
  <2>1. stash' = Malformed \/ stash' \in Seq(Block)
    BY <1>1, <1>5 DEF StashThrows, ClientTypes
  <2> QED  BY <1>1, <1>2, <1>3, <1>5, <2>1, ThrowKeeps DEF ClientTypes
<1>6. CASE /\ Cardinality(targets) <= 1 /\ Loaded
           /\ IF mine # {} THEN SaveStash(Without(stash, call.addr)) ELSE UNCHANGED stash
           /\ block' = AccessedBlock(data) /\ cpc' = "put"
           /\ UNCHANGED <<call, oldLeaf, targets, reads, writes, checks, result, failed>>
  <2>1. stash \in Seq(Block)
    BY <1>1, <1>6 DEF Loaded, ClientTypes
  <2>2. data \in Data
    <3>1. CASE targets # {}
      <4>1. /\ resp.slots \in Seq(Data) /\ Len(resp.slots) = TreeHeight + 1 /\ Dummies(resp.slots)
            /\ targets \subseteq 1 .. TreeHeight + 1
        BY <1>1, <1>2 DEF IInv, SlotsAsAsked, ClientTypes
      <4>2. Decrypted(resp.slots) \in Data
        BY <1>6, <3>1, <4>1, DecryptedIsData
      <4> QED  BY <3>1, <4>2
    <3>2. CASE targets = {} /\ mine # {}
      <4> DEFINE k == CHOOSE k \in mine : \A j \in mine : k <= j
      <4>1. mine \subseteq 1 .. Len(stash) /\ mine \subseteq Nat
        OBVIOUS
      <4>2. \E i \in mine : \A j \in mine : i <= j
        <5> HIDE DEF mine
        <5> QED  BY <3>2, <4>1, LeastNatural
      <4>3. k \in mine
        <5> HIDE DEF mine
        <5> QED  BY <4>2
      <4>4. data = stash[k].data
        BY <3>2
      <4> HIDE DEF k, data
      <4>5. stash[k] \in Block
        BY <2>1, <4>1, <4>3
      <4> QED  BY <4>4, <4>5 DEF Block
    <3>3. CASE targets = {} /\ mine = {}
      BY <3>3
    <3> QED  BY <3>1, <3>2, <3>3
  <2> HIDE DEF data
  <2>3. block' \in Block /\ block'.addr = call.addr
    <3>1. call.addr \in Addr /\ call.data \in Data
      BY <1>2 DEF Calls
    <3>2. posMap[call.addr] \in Leaves
      BY <1>1, <3>1 DEF ClientTypes
    <3> QED  BY <1>6, <2>2, <3>1, <3>2 DEF AccessedBlock, Block
  <2>4. stash' = Malformed \/ stash' \in Seq(Block)
    <3>1. Without(stash, call.addr) \in Seq(Block)
      BY <2>1, PutType
    <3> QED  BY <1>6, <2>1, <3>1 DEF SaveStash
  <2>5. Conversation' /\ RepliesAreTrue' /\ SlotsAsAsked'
    BY <1>2, <1>3, <1>6, QuietKeeps
  <2>6. ServerTypes' /\ ClientTypes'
    <3>1. ServerTypes'
      BY <1>1, <1>2 DEF ServerTypes, serverVars
    <3>2. ClientTypes'
      BY <1>1, <1>2, <1>6, <2>3, <2>4 DEF ClientTypes, ClientPoints
    <3> QED  BY <3>1, <3>2
  <2>7. CallState'
    BY <1>1, <1>2, <1>6, <2>3 DEF CallState
  <2>8. ReadsCounted'
    BY <1>1, <1>2, <1>3, <1>6 DEF ReadsCounted, serverVars
  <2>9. CountInv'
    <3>1. ASSUME NEW n \in Nodes, AwaitsReshuffle(n) PROVE AwaitsReshuffle(n)'
      <4>1. PICK k \in 1 .. TreeHeight + 1 : n = Paths[oldLeaf][k]
        BY <1>2, <3>1 DEF AwaitsReshuffle
      <4>2. k \in 1 .. Len(Paths[oldLeaf])
        BY <1>1, PathsFacts DEF ClientTypes
      <4>3. Among(n, Paths[oldLeaf])
        BY <4>1, <4>2 DEF Among
      <4> QED  BY <1>6, <4>3 DEF AwaitsReshuffle
    <3>2. failed' \/ ~ failed
      BY <1>6
    <3> QED  BY <3>1, <3>2, CountKeeps
  <2> QED  BY <2>5, <2>6, <2>7, <2>8, <2>9, TypeParts DEF IInv
<1> QED  BY <1>4, <1>5, <1>6

\* Access puts its block in the stash.
LEMMA PutKeeps ==
    ASSUME IInv, UNCHANGED serverVars, PutBlock,
           oracle' = IF call.op = "WRITE" /\ result' # NoResult
                     THEN [oracle EXCEPT ![call.addr] = call.data] ELSE oracle
    PROVE  IInv'
<1> USE Constants, NoMsgFacts
<1>1. ServerTypes /\ ClientTypes /\ CallState /\ ReadsCounted
  BY TypeParts DEF IInv
<1>2. /\ cpc = "put" /\ UNCHANGED <<posMap, readPaths, conn, req, resp>>
      /\ req = NoMsg /\ resp = NoMsg /\ call \in Calls /\ block \in Block
  BY <1>1, QuietFacts DEF PutBlock, CallState
<1>3. (conn = "up" => xorReads = readPaths) /\ conn \in {"up", "down"}
  BY <1>1, <1>2 DEF ReadsCounted, ServerTypes
<1>4. oracle' \in [Addr -> Data]
  <2>1. call.data \in Data
    BY <1>2 DEF Calls
  <2> QED  BY <1>1, <2>1 DEF ClientTypes
<1>5. CASE StashThrows /\ Throws /\ UNCHANGED <<round, evictions>>
  <2>1. stash' = Malformed \/ stash' \in Seq(Block)
    BY <1>1, <1>5 DEF StashThrows, ClientTypes
  <2>2. result' = NoResult /\ UNCHANGED oracle
    BY <1>5 DEF Throws, EndOfCall
  <2>3. UNCHANGED <<serverVars, posMap, readPaths, conn, req, oracle>>
    BY <1>2, <2>2
  <2>4. round' \in 0 .. A - 1 /\ evictions' \in 0 .. SizeTModulus - 1
    BY <1>1, <1>5 DEF ClientTypes
  <2>5. resp' = NoMsg /\ (conn = "down" \/ (req = NoMsg /\ xorReads = readPaths)) /\ Throws
    BY <1>2, <1>3, <1>5
  <2> QED  BY <2>1, <2>3, <2>4, <2>5, ThrowKeeps
<1>6. CASE cpc' = "work"
  <2>1. /\ Loaded /\ SaveStash(Put(stash, block)) /\ cpc' = "work" /\ block' = NoBlock
        /\ result' = block.data /\ checks' = Paths[oldLeaf] /\ round' = (round + 1) % A
        /\ UNCHANGED <<call, oldLeaf, targets, failed>>
    BY <1>6 DEF PutBlock, Throws, EndOfCall
  <2>2. \/ /\ evictions' = (evictions + 1) % SizeTModulus
           /\ reads' = Paths[EvictionLeaf] /\ writes' = Reverse(Paths[EvictionLeaf])
        \/ UNCHANGED <<evictions, reads, writes>>
    BY <1>6 DEF PutBlock, Throws, EndOfCall
  <2>3. EvictionLeaf \in Leaves
    <3>1. evictions \in Nat
      BY <1>1 DEF ClientTypes
    <3>2. \A d \in Nat \ {0} : evictions % d \in 0 .. d - 1
      BY <3>1
    <3> QED  BY <3>2 DEF EvictionLeaf, Leaves
  <2>4. {reads', writes', checks'} \subseteq Seq(Nodes)
    <3>1. Paths[EvictionLeaf] \in Seq(Nodes) /\ Paths[oldLeaf] \in Seq(Nodes)
      BY <1>1, <2>3, PathsFacts DEF ClientTypes
    <3>2. Reverse(Paths[EvictionLeaf]) \in Seq(Nodes)
      <4> DEFINE p == Paths[EvictionLeaf]
      <4>1. Reverse(p) = [i \in 1 .. Len(p) |-> p[(Len(p) - i) + 1]]
        BY DEF Reverse
      <4> HIDE DEF p
      <4>2. p \in Seq(Nodes)
        BY <3>1 DEF p
      <4>3. \A i \in 1 .. Len(p) : p[(Len(p) - i) + 1] \in Nodes
        BY <4>2
      <4> QED  BY <4>1, <4>2, <4>3 DEF p
    <3> QED  BY <1>1, <2>1, <2>2, <3>1, <3>2 DEF ClientTypes
  <2>5. stash' = Malformed \/ stash' \in Seq(Block)
    <3>1. stash \in Seq(Block)
      BY <1>1, <2>1 DEF Loaded, ClientTypes
    <3>2. Put(stash, block) \in Seq(Block)
      BY <1>2, <3>1, PutType
    <3> QED  BY <2>1, <3>2 DEF SaveStash
  <2>6. result' \in Data
    BY <1>2, <2>1 DEF Block
  <2>7. Conversation' /\ RepliesAreTrue' /\ SlotsAsAsked'
    BY <1>2, <2>1, QuietKeeps
  <2>8. ServerTypes' /\ ClientTypes'
    <3>1. ServerTypes'
      BY <1>1, <1>2 DEF ServerTypes, serverVars
    <3>2. round' \in 0 .. A - 1 /\ evictions' \in 0 .. SizeTModulus - 1
      BY <1>1, <2>1, <2>2 DEF ClientTypes
    <3>3. ClientTypes'
      BY <1>1, <1>2, <1>4, <2>1, <2>4, <2>5, <2>6, <3>2 DEF ClientTypes, ClientPoints
    <3> QED  BY <3>1, <3>3
  <2>9. CallState'
    BY <1>2, <2>1, <2>6 DEF CallState
  <2>10. ReadsCounted'
    BY <1>1, <1>2, <1>3, <2>1 DEF ReadsCounted, serverVars
  <2>11. CountInv'
    <3>1. ASSUME NEW n \in Nodes, AwaitsReshuffle(n) PROVE AwaitsReshuffle(n)'
      <4>1. Among(n, checks')
        BY <1>2, <2>1, <3>1 DEF AwaitsReshuffle, Among
      <4> QED  BY <2>1, <4>1 DEF AwaitsReshuffle, Among
    <3>2. failed' \/ ~ failed
      BY <2>1
    <3> QED  BY <3>1, <3>2, CountKeeps
  <2> QED  BY <2>7, <2>8, <2>9, <2>10, <2>11, TypeParts DEF IInv
<1> QED  BY <1>5, <1>6 DEF PutBlock
\* EvictPath and EarlyReshuffle ask for a bucket or for a count.
LEMMA AskKeeps ==
    ASSUME IInv, UNCHANGED <<serverVars, oracle>>, RequestBucket \/ RequestCount
    PROVE  IInv'
<1> USE Constants, NoMsgFacts
<1>1. ServerTypes /\ ClientTypes /\ CallState /\ ReadsCounted
  BY TypeParts DEF IInv
<1>2. /\ cpc = "work" /\ cpc' \in {"bucket", "count"} /\ req = NoMsg /\ resp = NoMsg /\ resp' = NoMsg
      /\ cpc' = "bucket" => reads # << >>
      /\ cpc' = "count" => reads = << >> /\ writes = << >> /\ checks # << >>
      /\ UNCHANGED <<posMap, stash, round, evictions, readPaths, call, oldLeaf, targets, block,
                     reads, writes, checks, result, failed, conn>>
  BY QuietFacts DEF RequestBucket, RequestCount
<1>3. Conversation' /\ RepliesAreTrue' /\ req' \in Requests
  <2>1. CASE RequestBucket
    <3> DEFINE m == [cmd |-> "B", node |-> Head(reads)]
    <3>1. reads # << >> /\ cpc' = "bucket" /\ SendRequest(m)
      BY <2>1 DEF RequestBucket
    <3>2. Head(reads) \in Nodes
      BY <1>1, <3>1 DEF ClientTypes
    <3>3. m \in Requests /\ m.cmd = "B" /\ m.node = Head(reads')
      BY <1>2, <3>2 DEF Requests
    <3> HIDE DEF m
    <3>4. Sends(m)
      BY <3>1, <3>3 DEF Sends
    <3> QED  BY <1>2, <3>1, <3>4, SendKeeps
  <2>2. CASE RequestCount
    <3> DEFINE m == [cmd |-> "T", node |-> Head(checks)]
    <3>1. checks # << >> /\ cpc' = "count" /\ SendRequest(m)
      BY <2>2 DEF RequestCount
    <3>2. Head(checks) \in Nodes
      BY <1>1, <3>1 DEF ClientTypes
    <3>3. m \in Requests /\ m.cmd = "T" /\ m.node = Head(checks')
      BY <1>2, <3>2 DEF Requests
    <3> HIDE DEF m
    <3>4. Sends(m)
      BY <3>1, <3>3 DEF Sends
    <3> QED  BY <1>2, <3>1, <3>4, SendKeeps
  <2> QED  BY <2>1, <2>2
<1>4. ServerTypes'
  BY <1>1, <1>2, <1>3 DEF ServerTypes, serverVars
<1>5. ClientTypes'
  BY <1>1, <1>2 DEF ClientTypes, ClientPoints
<1>6. CallState'
  BY <1>1, <1>2 DEF CallState
<1>7. ReadsCounted'
  BY <1>1, <1>2 DEF ReadsCounted, serverVars
<1>8. SlotsAsAsked'
  BY <1>2 DEF SlotsAsAsked
<1>9. CountInv'
  <2>1. ASSUME NEW n \in Nodes, AwaitsReshuffle(n) PROVE AwaitsReshuffle(n)'
    BY <1>2, <2>1 DEF AwaitsReshuffle, Among
  <2>2. failed' \/ ~ failed
    BY <1>2
  <2> QED  BY <2>1, <2>2, CountKeeps
<1> QED  BY <1>3, <1>4, <1>5, <1>6, <1>7, <1>8, <1>9, TypeParts DEF IInv

\* ReadBucket puts what it has read in the stash.
LEMMA ReadKeeps ==
    ASSUME IInv, UNCHANGED <<serverVars, oracle>>, ReadBucket
    PROVE  IInv'
<1> USE Constants, NoMsgFacts
<1> DEFINE blocks == BlocksRead(resp.bucket)
           all    == Len(blocks)
<1>1. ServerTypes /\ ClientTypes /\ CallState /\ ReadsCounted
  BY TypeParts DEF IInv
<1>2. /\ cpc = "bucket" /\ resp.cmd = "bucket" /\ resp' = NoMsg /\ reads # << >>
      /\ UNCHANGED <<posMap, round, evictions, readPaths, conn, req>>
  BY <1>1 DEF ReadBucket, CallState
<1>3. req = NoMsg /\ (conn = "up" => xorReads = readPaths) /\ conn \in {"up", "down"}
  BY <1>1, <1>2, RepliedFacts DEF ReadsCounted, ServerTypes
<1>4. blocks \in Seq(Block) /\ all \in Nat
  <2>1. Head(reads) \in Nodes
    BY <1>1, <1>2 DEF ClientTypes
  <2>2. resp.bucket \in Buckets
    BY <1>1, <1>2, <2>1 DEF IInv, RepliesAreTrue, ServerTypes
  <2> QED  BY <2>2, BlocksReadType
<1>5. Loaded => \A k \in 0 .. all : StashAfter(blocks, k) \in Seq(Block)
  BY <1>1, <1>4, StashAfterType DEF Loaded, ClientTypes
<1>6. \/ /\ UNCHANGED stash \/ (Loaded /\ SaveStash(StashAfter(blocks, all)))
         /\ cpc' = "work" /\ reads' = Tail(reads)
         /\ UNCHANGED <<call, oldLeaf, targets, block, writes, checks, result, failed>>
      \/ /\ \/ UNCHANGED stash
            \/ Loaded /\ stash' = Malformed
            \/ Loaded /\ \E k \in 0 .. all - 1 : stash' \in {StashAfter(blocks, k), Malformed}
            \/ Loaded /\ stash' = StashAfter(blocks, all)
         /\ Throws
  <2> HIDE DEF blocks
  <2> QED  BY DEF ReadBucket, blocks
<1>7. stash' = Malformed \/ stash' \in Seq(Block)
  <2> HIDE DEF blocks, all
  <2>1. 0 .. all - 1 \subseteq 0 .. all /\ all \in 0 .. all
    BY <1>4
  <2> QED  BY <1>1, <1>5, <1>6, <2>1 DEF SaveStash, ClientTypes
<1> HIDE DEF blocks
<1>8. CASE Throws
  BY <1>1, <1>2, <1>3, <1>7, <1>8, ThrowKeeps DEF ClientTypes
<1>9. CASE /\ cpc' = "work" /\ reads' = Tail(reads)
           /\ UNCHANGED <<call, oldLeaf, targets, block, writes, checks, result, failed>>
  <2>1. Conversation' /\ RepliesAreTrue' /\ SlotsAsAsked'
    BY <1>2, <1>3, <1>9, QuietKeeps
  <2>2. ServerTypes'
    BY <1>1, <1>2 DEF ServerTypes, serverVars
  <2>3. ClientTypes'
    <3>1. reads' \in Seq(Nodes)
      BY <1>1, <1>2, <1>9 DEF ClientTypes
    <3> QED  BY <1>1, <1>2, <1>7, <1>9, <3>1 DEF ClientTypes, ClientPoints
  <2>4. CallState'
    BY <1>1, <1>2, <1>9 DEF CallState
  <2>5. ReadsCounted'
    BY <1>1, <1>2, <1>9 DEF ReadsCounted, serverVars
  <2>6. CountInv'
    <3>1. ASSUME NEW n \in Nodes, AwaitsReshuffle(n) PROVE AwaitsReshuffle(n)'
      BY <1>2, <1>9, <3>1 DEF AwaitsReshuffle, Among
    <3>2. failed' \/ ~ failed
      BY <1>9
    <3> QED  BY <3>1, <3>2, CountKeeps
  <2> QED  BY <2>1, <2>2, <2>3, <2>4, <2>5, <2>6, TypeParts DEF IInv
<1> QED  BY <1>6, <1>8, <1>9

\* WriteBucket takes the blocks of a bucket out of the stash and sends it.
LEMMA SendBucketKeeps ==
    ASSUME IInv, UNCHANGED <<serverVars, oracle>>, WriteBucket
    PROVE  IInv'
<1> USE Constants, NoMsgFacts
<1> DEFINE n == Head(writes)
<1>1. ServerTypes /\ ClientTypes /\ CallState /\ ReadsCounted
  BY TypeParts DEF IInv
<1>2. /\ cpc = "work" /\ reads = << >> /\ writes # << >> /\ req = NoMsg /\ resp = NoMsg
      /\ UNCHANGED <<posMap, round, evictions, readPaths, conn, resp>>
  BY QuietFacts DEF WriteBucket
<1>3. n \in Nodes /\ (conn = "up" => xorReads = readPaths) /\ conn \in {"up", "down"}
  BY <1>1, <1>2 DEF ReadsCounted, ServerTypes, ClientTypes
<1>4. CASE StashThrows /\ Throws /\ UNCHANGED req
  <2>1. stash' = Malformed \/ stash' \in Seq(Block)
    BY <1>1, <1>4 DEF StashThrows, ClientTypes
  <2> QED  BY <1>1, <1>2, <1>3, <1>4, <2>1, ThrowKeeps DEF ClientTypes
<1>5. CASE cpc' = "ack"
  <2>1. /\ Loaded /\ SaveStash(Unselected(stash, n))
        /\ UNCHANGED <<call, oldLeaf, targets, block, reads, writes, checks, result, failed>>
    BY <1>5 DEF WriteBucket, Throws, EndOfCall
  <2>2. PICK ptrs \in Layouts(Selected(stash, n)) :
          SendRequest([cmd |-> "W", node |-> n, bucket |-> ResetWithBlocks(Selected(stash, n), ptrs)])
    BY <1>5 DEF WriteBucket, Throws, EndOfCall
  <2>3. stash \in Seq(Block)
    BY <1>1, <2>1 DEF Loaded, ClientTypes
  <2>4. /\ Selected(stash, n) \in Seq(Block) /\ Len(Selected(stash, n)) <= Z
        /\ Unselected(stash, n) \in Seq(Block)
    BY <2>3, SelectedType
  <2>5. ResetWithBlocks(Selected(stash, n), ptrs) \in FreshBuckets
    BY <2>4, ResetType
  <2> DEFINE m == [cmd |-> "W", node |-> n, bucket |-> ResetWithBlocks(Selected(stash, n), ptrs)]
  <2>6. m \in Requests /\ m.cmd = "W" /\ m.node = Head(writes') /\ SendRequest(m)
    BY <1>3, <2>1, <2>2, <2>5 DEF Requests
  <2> HIDE DEF m
  <2>7. Sends(m)
    BY <1>5, <2>6 DEF Sends
  <2>8. Conversation' /\ RepliesAreTrue' /\ req' \in Requests
    BY <1>2, <2>6, <2>7, SendKeeps
  <2>9. ServerTypes'
    BY <1>1, <1>2, <2>8 DEF ServerTypes, serverVars
  <2>10. ClientTypes'
    <3>1. stash' = Malformed \/ stash' \in Seq(Block)
      BY <2>1, <2>4 DEF SaveStash
    <3> QED  BY <1>1, <1>2, <1>5, <2>1, <3>1 DEF ClientTypes, ClientPoints
  <2>11. CallState'
    BY <1>1, <1>2, <1>5, <2>1 DEF CallState
  <2>12. ReadsCounted'
    BY <1>1, <1>2, <1>5 DEF ReadsCounted, serverVars
  <2>13. SlotsAsAsked'
    BY <1>5 DEF SlotsAsAsked
  <2>14. CountInv'
    <3>1. ASSUME NEW k \in Nodes, AwaitsReshuffle(k) PROVE AwaitsReshuffle(k)'
      BY <1>2, <1>5, <2>1, <3>1 DEF AwaitsReshuffle, Among
    <3>2. failed' \/ ~ failed
      BY <2>1
    <3> QED  BY <3>1, <3>2, CountKeeps
  <2> QED  BY <2>8, <2>9, <2>10, <2>11, <2>12, <2>13, <2>14, TypeParts DEF IInv
<1> QED  BY <1>4, <1>5 DEF WriteBucket

\* A bucket has been written, or the count of one has come.
LEMMA LoopKeeps ==
    ASSUME IInv, UNCHANGED <<serverVars, oracle>>, BucketWritten \/ EarlyReshuffle
    PROVE  IInv'
<1> USE Constants, NoMsgFacts
<1>1. ServerTypes /\ ClientTypes /\ CallState /\ ReadsCounted
  BY TypeParts DEF IInv
<1>2. /\ cpc \in {"ack", "count"} /\ resp.cmd # "none" /\ resp' = NoMsg /\ cpc' = "work"
      /\ UNCHANGED <<posMap, stash, round, evictions, readPaths, call, oldLeaf, targets, block,
                     result, failed, conn, req>>
  BY DEF BucketWritten, EarlyReshuffle, ExpectAck
<1>3. req = NoMsg /\ (conn = "up" => xorReads = readPaths) /\ conn \in {"up", "down"}
  BY <1>1, <1>2, RepliedFacts DEF ReadsCounted, ServerTypes
<1>4. {reads', writes', checks'} \subseteq Seq(Nodes)
  <2>1. CASE BucketWritten
    <3>1. writes # << >> /\ writes' = Tail(writes) /\ UNCHANGED <<reads, checks>>
      BY <1>1, <2>1 DEF BucketWritten, CallState
    <3> QED  BY <1>1, <3>1 DEF ClientTypes
  <2>2. CASE EarlyReshuffle
    <3>1. /\ checks # << >> /\ checks' = Tail(checks)
          /\ (reads' = <<Head(checks)>> /\ writes' = <<Head(checks)>>) \/ UNCHANGED <<reads, writes>>
      BY <1>1, <2>2 DEF EarlyReshuffle, CallState
    <3>2. reads \in Seq(Nodes) /\ writes \in Seq(Nodes) /\ checks \in Seq(Nodes)
      BY <1>1 DEF ClientTypes
    <3>3. Head(checks) \in Nodes /\ Tail(checks) \in Seq(Nodes)
      BY <3>1, <3>2
    <3>4. <<Head(checks)>> \in Seq(Nodes)
      BY <3>3
    <3> QED  BY <3>1, <3>2, <3>3, <3>4
  <2> QED  BY <2>1, <2>2
<1>5. Conversation' /\ RepliesAreTrue' /\ SlotsAsAsked'
  BY <1>2, <1>3, QuietKeeps
<1>6. ServerTypes'
  BY <1>1, <1>2 DEF ServerTypes, serverVars
<1>7. ClientTypes'
  BY <1>1, <1>2, <1>4 DEF ClientTypes, ClientPoints
<1>8. CallState'
  BY <1>1, <1>2 DEF CallState
<1>9. ReadsCounted'
  BY <1>1, <1>2 DEF ReadsCounted, serverVars
<1>10. CountInv'
  <2>1. ASSUME NEW n \in Nodes, tree[n] # NoBucket, tree[n].count = S, AwaitsReshuffle(n)
        PROVE  AwaitsReshuffle(n)'
    <3>1. Among(n, checks) \/ Among(n, writes)
      BY <1>2, <2>1 DEF AwaitsReshuffle
    <3>2. CASE BucketWritten
      <4>1. /\ cpc = "ack" /\ resp.cmd = "ack" /\ writes # << >> /\ writes' = Tail(writes)
            /\ UNCHANGED checks
        BY <1>1, <3>2 DEF BucketWritten, ExpectAck, CallState
      <4>2. tree[Head(writes)] \in FreshBuckets \cup {NoBucket}
        BY <4>1 DEF IInv, RepliesAreTrue
      <4>3. n # Head(writes)
        BY <2>1, <4>2, FreshFacts
      <4>4. Among(n, writes) => Among(n, writes')
        <5> SUFFICES ASSUME NEW k \in 1 .. Len(writes), writes[k] = n PROVE Among(n, writes')
          BY DEF Among
        <5>1. writes \in Seq(Nodes)
          BY <1>1 DEF ClientTypes
        <5>2. k # 1
          BY <4>1, <4>3, <5>1
        <5>3. k - 1 \in 1 .. Len(writes') /\ writes'[k - 1] = n
          BY <4>1, <5>1, <5>2
        <5> QED  BY <5>3 DEF Among
      <4> QED  BY <1>2, <3>1, <4>1, <4>4 DEF AwaitsReshuffle
    <3>3. CASE EarlyReshuffle
      <4>1. /\ cpc = "count" /\ resp.cmd = "count" /\ checks # << >> /\ checks' = Tail(checks)
            /\ writes = << >>
            /\ resp.count >= S => writes' = <<Head(checks)>>
        BY <1>1, <3>3 DEF EarlyReshuffle, CallState, NeedsReshuffle
      <4>2. resp.count = tree[Head(checks)].count
        BY <4>1 DEF IInv, RepliesAreTrue
      <4>3. CASE n = Head(checks)
        <5>1. writes' = <<n>>
          BY <2>1, <4>1, <4>2, <4>3
        <5> QED  BY <1>2, <5>1 DEF AwaitsReshuffle, Among
      <4>4. CASE n # Head(checks)
        <5>1. PICK k \in 1 .. Len(checks) : checks[k] = n
          BY <3>1, <4>1 DEF Among
        <5>2. checks \in Seq(Nodes)
          BY <1>1 DEF ClientTypes
        <5>3. k # 1
          BY <4>1, <4>4, <5>1, <5>2
        <5>4. k - 1 \in 1 .. Len(checks') /\ checks'[k - 1] = n
          BY <4>1, <5>1, <5>2, <5>3
        <5>5. Among(n, checks')
          BY <5>4 DEF Among
        <5> QED  BY <1>2, <5>5 DEF AwaitsReshuffle, Among
      <4> QED  BY <4>3, <4>4
    <3> QED  BY <3>2, <3>3
  <2>2. failed' \/ ~ failed
    BY <1>2
  <2> QED  BY <2>1, <2>2, CountKeeps
<1> QED  BY <1>5, <1>6, <1>7, <1>8, <1>9, <1>10, TypeParts DEF IInv

LEMMA ClientKeeps == IInv /\ ClientNext => IInv'
<1> SUFFICES ASSUME IInv, ClientNext PROVE IInv'
  OBVIOUS
<1>1. UNCHANGED serverVars
  BY DEF ClientNext
<1>2. CASE PutBlock /\ oracle' = IF call.op = "WRITE" /\ result' # NoResult
                                 THEN [oracle EXCEPT ![call.addr] = call.data] ELSE oracle
  BY <1>1, <1>2, PutKeeps
<1>3. CASE /\ \/ \E c \in Calls : Access(c)
              \/ FetchServerStats \/ DestroyClient
              \/ InitializeServerStorage \/ Constructed \/ ConstructorThrows
              \/ SelectOffsets \/ TakeBlock
              \/ RequestBucket \/ ReadBucket \/ WriteBucket \/ BucketWritten
              \/ RequestCount \/ EarlyReshuffle \/ Return \/ StatsFetched \/ RecvThrows
           /\ UNCHANGED oracle
  <2>1. CASE \/ \E c \in Calls : Access(c)
             \/ FetchServerStats \/ StatsFetched \/ DestroyClient \/ Return \/ RecvThrows
    BY <1>1, <1>3, <2>1, CallerKeeps
  <2>2. CASE InitializeServerStorage \/ Constructed \/ ConstructorThrows
    BY <1>1, <1>3, <2>2, ConstructorKeeps
  <2>3. CASE SelectOffsets
    BY <1>1, <1>3, <2>3, SelectKeeps
  <2>4. CASE TakeBlock
    BY <1>1, <1>3, <2>4, TakeKeeps
  <2>5. CASE RequestBucket \/ RequestCount
    BY <1>1, <1>3, <2>5, AskKeeps
  <2>6. CASE ReadBucket
    BY <1>1, <1>3, <2>6, ReadKeeps
  <2>7. CASE WriteBucket
    BY <1>1, <1>3, <2>7, SendBucketKeeps
  <2>8. CASE BucketWritten \/ EarlyReshuffle
    BY <1>1, <1>3, <2>8, LoopKeeps
  <2> QED  BY <1>3, <2>1, <2>2, <2>3, <2>4, <2>5, <2>6, <2>7, <2>8
<1> QED  BY <1>2, <1>3 DEF ClientNext

-----------------------------------------------------------------------------
\* Whatever fails, and in whatever order client, server and network take their
\* steps, the invariant holds.
THEOREM IInvInductive == IInv /\ [Next]_vars => IInv'
<1> SUFFICES ASSUME IInv, [Next]_vars PROVE IInv'
  OBVIOUS
<1>1. CASE ServerNext
  BY <1>1, ServerKeeps
<1>2. CASE ClientNext
  BY <1>2, ClientKeeps
<1>3. CASE NetworkNext \/ Terminated \/ UNCHANGED vars
  <2>1. /\ UNCHANGED <<clientVars, oracle, tree, nodeCount, xorReads, lastSlots, picked, req, resp>>
        /\ running' = running /\ spc' = spc /\ conn' \in {conn, "down"}
    BY <1>3 DEF NetworkNext, ConnectionLost, Terminated, vars, serverVars
  <2>2. running' \in BOOLEAN /\ spc' \in ServerPoints
    BY <2>1 DEF IInv, TypeOK
  <2> QED  BY <2>1, <2>2, LullKeeps
<1> QED  BY <1>1, <1>2, <1>3 DEF Next

THEOREM Invariance == Spec => []IInv
BY InitIInv, IInvInductive, PTL DEF Spec

\* Every variable keeps its type: above all no bucket holds more than Z blocks,
\* and what FetchXorPath decrypts is never garbage.
THEOREM TypeCorrect == Spec => []TypeOK
<1>1. IInv => TypeOK
  BY DEF IInv
<1> QED  BY <1>1, Invariance, PTL

\* A bucket counts the slots read since it was written, and until a call has
\* thrown no bucket is read more than S times: EarlyReshuffle comes in time.
THEOREM BudgetIsKept == Spec => []SlotBudget
<1>1. IInv => SlotBudget
  <2> SUFFICES ASSUME IInv, NEW n \in Nodes, tree[n] # NoBucket
               PROVE  /\ tree[n].count = Cardinality(Slots \ tree[n].valids)
                      /\ ~ failed => tree[n].count <= S
                      /\ cpc = "idle" /\ Working => tree[n].count < S
    BY DEF SlotBudget
  <2>1. /\ tree[n].count = Cardinality(Slots \ tree[n].valids)
        /\ ~ failed => tree[n].count <= S /\ (tree[n].count = S => AwaitsReshuffle(n))
    BY DEF IInv, CountInv
  <2>2. tree[n].count \in Nat
    BY DEF IInv, TypeOK, Buckets
  <2>3. cpc = "idle" => ~ AwaitsReshuffle(n)
    BY DEF AwaitsReshuffle
  <2> QED  BY <2>1, <2>2, <2>3, Constants DEF Working
<1> QED  BY <1>1, Invariance, PTL

\* Client and server count the same aggregated reads, one per access, and the
\* statistics report them.
THEOREM ReadsAgree == Spec => []OneXorReadPerAccess
<1>1. IInv => OneXorReadPerAccess
  BY DEF IInv, OneXorReadPerAccess, ReadsCounted, RepliesAreTrue, Working
<1> QED  BY <1>1, Invariance, PTL

-----------------------------------------------------------------------------
\* Copies that move stay as many, if there is no more than one, and keep their data.
Moves(F, T) ==
    /\ F = {} => T = {}
    /\ \A c : F = {c} => \E d : T = {d} /\ d[4] = c[4]

LEMMA MovesTogether ==
    ASSUME NEW F, NEW T, NEW G, NEW U, Moves(F, T), Moves(G, U), F \cap G = {}
    PROVE  Moves(F \cup G, T \cup U)
<1>1. F \cup G = {} => T \cup U = {}
  BY DEF Moves
<1>2. ASSUME NEW c, F \cup G = {c}
      PROVE  \E d : T \cup U = {d} /\ d[4] = c[4]
  <2>1. CASE c \in F
    <3>1. G = {} /\ F = {c}
      BY <1>2, <2>1
    <3>2. U = {} /\ \E d : T = {d} /\ d[4] = c[4]
      BY <3>1 DEF Moves
    <3> QED  BY <3>2
  <2>2. CASE c \in G
    <3>1. F = {} /\ G = {c}
      BY <1>2, <2>2
    <3>2. T = {} /\ \E d : U = {d} /\ d[4] = c[4]
      BY <3>1 DEF Moves
    <3> QED  BY <3>2
  <2> QED  BY <1>2, <2>1, <2>2
<1> QED  BY <1>1, <1>2 DEF Moves

LEMMA MovesChain ==
    ASSUME NEW F, NEW G, NEW T, Moves(F, G), Moves(G, T)
    PROVE  Moves(F, T)
<1>1. F = {} => T = {}
  BY DEF Moves
<1>2. ASSUME NEW c, F = {c}
      PROVE  \E d : T = {d} /\ d[4] = c[4]
  <2>1. PICK b : G = {b} /\ b[4] = c[4]
    BY <1>2 DEF Moves
  <2>2. PICK d : T = {d} /\ d[4] = b[4]
    BY <2>1 DEF Moves
  <2> QED  BY <2>1, <2>2
<1> QED  BY <1>1, <1>2 DEF Moves

\* The elements of s with an index in K are those of t with an index in L, if
\* there is no more than one.
Carried(s, K, t, L) ==
    /\ K = {} => L = {}
    /\ \A k : K = {k} => \E l : L = {l} /\ t[l].data = s[k].data

At(s, a)        == {k \in 1 .. Len(s) : s[k].addr = a}
Places(s, K, p, n) == {<<p, n, k, s[k].data>> : k \in K}

LEMMA CarriedMoves ==
    ASSUME NEW s, NEW K, NEW p, NEW n, NEW t, NEW L, NEW q, NEW m, Carried(s, K, t, L)
    PROVE  Moves(Places(s, K, p, n), Places(t, L, q, m))
<1> DEFINE F == {<<p, n, k, s[k].data>> : k \in K}
           T == {<<q, m, l, t[l].data>> : l \in L}
<1>1. ASSUME F = {} PROVE T = {}
  <2>1. K = {}
    <3> SUFFICES ASSUME NEW k \in K PROVE FALSE
      OBVIOUS
    <3>1. <<p, n, k, s[k].data>> \in F
      OBVIOUS
    <3> QED  BY <1>1, <3>1
  <2> QED  BY <2>1 DEF Carried
<1>2. ASSUME NEW c, F = {c}
      PROVE  \E d : T = {d} /\ d[4] = c[4]
  <2>1. PICK k \in K : c = <<p, n, k, s[k].data>>
    BY <1>2
  <2>2. K = {k}
    <3>1. ASSUME NEW j \in K PROVE j = k
      <4>1. <<p, n, j, s[j].data>> \in F
        OBVIOUS
      <4>2. <<p, n, j, s[j].data>> = <<p, n, k, s[k].data>>
        BY <1>2, <2>1, <4>1
      <4> QED  BY <4>2
    <3> QED  BY <2>1, <3>1
  <2>3. PICK l : L = {l} /\ t[l].data = s[k].data
    BY <2>2 DEF Carried
  <2>4. T = {<<q, m, l, t[l].data>>}
    BY <2>3
  <2>5. <<q, m, l, t[l].data>>[4] = c[4]
    BY <2>1, <2>3
  <2> QED  BY <2>4, <2>5
<1> HIDE DEF F, T
<1>3. Moves(F, T)
  BY <1>1, <1>2 DEF Moves
<1> QED  BY <1>3 DEF F, T, Places

LEMMA CopiesArePlaces ==
    ASSUME NEW s, NEW K, NEW p, NEW n, NEW a
    PROVE  CopiesOf(s, K, p, n, a) = Places(s, {k \in K : s[k].addr = a}, p, n)
BY Zenon DEF CopiesOf, Places

LEMMA PlacesFacts ==
    ASSUME NEW s, NEW K, NEW p, NEW n
    PROVE  /\ Places(s, K, p, n) = {} <=> K = {}
           /\ \A x \in Places(s, K, p, n) : x[1] = p /\ x[2] = n
           /\ \A k : K = {k} => Places(s, K, p, n) = {<<p, n, k, s[k].data>>}
           /\ \A x : Places(s, K, p, n) = {x} =>
                       \E k : K = {k} /\ x = <<p, n, k, s[k].data>> /\ x[4] = s[k].data
<1>1. \A x : x \in Places(s, K, p, n) <=> \E k \in K : x = <<p, n, k, s[k].data>>
  BY DEF Places
<1>2. ASSUME NEW x, Places(s, K, p, n) = {x}
      PROVE  \E k : K = {k} /\ x = <<p, n, k, s[k].data>> /\ x[4] = s[k].data
  <2>1. PICK k \in K : x = <<p, n, k, s[k].data>>
    BY <1>1, <1>2
  <2>2. ASSUME NEW j \in K PROVE j = k
    <3>1. <<p, n, j, s[j].data>> = <<p, n, k, s[k].data>>
      BY <1>1, <1>2, <2>1
    <3> QED  BY <3>1
  <2>3. K = {k}
    BY <2>1, <2>2
  <2> QED  BY <2>1, <2>3
<1>3. Places(s, K, p, n) = {} <=> K = {}
  BY <1>1
<1>4. \A x \in Places(s, K, p, n) : x[1] = p /\ x[2] = n
  BY <1>1
<1>5. ASSUME NEW k, K = {k}
      PROVE  Places(s, K, p, n) = {<<p, n, k, s[k].data>>}
  BY <1>1, <1>5
<1> QED  BY <1>2, <1>3, <1>4, <1>5
-----------------------------------------------------------------------------
\* What is picked of a sequence.
LEMMA PickCarries ==
    ASSUME NEW X, NEW s \in Seq(X), NEW K, NEW a
    PROVE  Carried(s, At(s, a) \cap K, Pick(s, K), At(Pick(s, K), a))
<1> DEFINE t == Pick(s, K)
           D == K \cap (1 .. Len(s))
<1>1. PICK e : Enumerates(e, s, K)
  BY PickEnumerates, Zenon
<1>2. /\ e \in [1 .. Len(t) -> D]
      /\ \A i, j \in 1 .. Len(t) : e[i] = e[j] => i = j
      /\ \A j \in D : \E i \in 1 .. Len(t) : e[i] = j
      /\ \A i \in 1 .. Len(t) : t[i] = s[e[i]]
  BY <1>1 DEF Enumerates
<1> HIDE DEF t
<1>3. /\ \A l \in At(t, a) : l \in 1 .. Len(t) /\ e[l] \in At(s, a) \cap K
      /\ \A k \in At(s, a) \cap K : \E l \in At(t, a) : e[l] = k
  <2>1. ASSUME NEW l \in At(t, a) PROVE l \in 1 .. Len(t) /\ e[l] \in At(s, a) \cap K
    <3>1. l \in 1 .. Len(t) /\ t[l].addr = a
      BY DEF At
    <3>2. e[l] \in D /\ s[e[l]].addr = a
      BY <1>2, <3>1
    <3> QED  BY <3>1, <3>2 DEF At
  <2>2. ASSUME NEW k \in At(s, a) \cap K PROVE \E l \in At(t, a) : e[l] = k
    <3>1. k \in D /\ s[k].addr = a
      BY DEF At
    <3>2. PICK l \in 1 .. Len(t) : e[l] = k
      BY <1>2, <3>1
    <3>3. t[l].addr = a
      BY <1>2, <3>1, <3>2
    <3> QED  BY <3>2, <3>3 DEF At
  <2> QED  BY <2>1, <2>2
<1> HIDE DEF D
<1>4. ASSUME NEW k, At(s, a) \cap K = {k}
      PROVE  \E l : At(t, a) = {l} /\ t[l].data = s[k].data
  <2>1. PICK l \in At(t, a) : e[l] = k
    BY <1>3, <1>4
  <2>2. ASSUME NEW m \in At(t, a) PROVE m = l
    BY <1>2, <1>3, <1>4, <2>1
  <2>3. At(t, a) = {l}
    BY <2>1, <2>2
  <2>4. t[l] = s[k]
    BY <1>2, <1>3, <2>1
  <2> QED  BY <2>3, <2>4
<1>5. At(s, a) \cap K = {} => At(t, a) = {}
  BY <1>3
<1>6. Carried(s, At(s, a) \cap K, t, At(t, a))
  BY <1>4, <1>5 DEF Carried
<1> QED  BY <1>6 DEF t

LEMMA PickFrom ==
    ASSUME NEW X, NEW s \in Seq(X), NEW K
    PROVE  \A l \in 1 .. Len(Pick(s, K)) : \E k \in K \cap (1 .. Len(s)) : Pick(s, K)[l] = s[k]
<1>1. PICK e : Enumerates(e, s, K)
  BY PickEnumerates, Zenon
<1> QED  BY <1>1 DEF Enumerates

LEMMA WithoutCarries ==
    ASSUME NEW s \in Seq(Block), NEW x, NEW t, t = Without(s, x)
    PROVE  /\ t \in Seq(Block)
           /\ At(t, x) = {}
           /\ \A a : a # x => Carried(s, At(s, a), t, At(t, a))
           /\ \A l \in 1 .. Len(t) : \E k \in 1 .. Len(s) : t[l] = s[k] /\ s[k].addr # x
<1> DEFINE K == {k \in 1 .. Len(s) : s[k].addr # x}
<1>1. t = Pick(s, K)
  BY DEF Without
<1> HIDE DEF Block
<1>2. \A l \in 1 .. Len(t) : \E k \in K \cap (1 .. Len(s)) : t[l] = s[k]
  <2> HIDE DEF K
  <2> QED  BY <1>1, PickFrom
<1>3. \A l \in 1 .. Len(t) : \E k \in 1 .. Len(s) : t[l] = s[k] /\ s[k].addr # x
  BY <1>2
<1>4. At(t, x) = {}
  BY <1>3 DEF At
<1>5. ASSUME NEW a, a # x PROVE Carried(s, At(s, a), t, At(t, a))
  <2>1. At(s, a) \cap K = At(s, a)
    BY <1>5 DEF At
  <2>2. Carried(s, At(s, a) \cap K, t, At(t, a))
    BY <1>1, PickCarries
  <2> QED  BY <2>1, <2>2
<1>6. t \in Seq(Block)
  BY PutType
<1> QED  BY <1>3, <1>4, <1>5, <1>6

\* t is s with b in the place of what has its address.
Supersedes(s, b, t) ==
    /\ t \in Seq(Block)
    /\ \E l : At(t, b.addr) = {l} /\ t[l] = b
    /\ \A a : a # b.addr => Carried(s, At(s, a), t, At(t, a))
    /\ \A l \in 1 .. Len(t) :
         t[l] = b \/ \E k \in 1 .. Len(s) : t[l] = s[k] /\ s[k].addr # b.addr

LEMMA PutCarries ==
    ASSUME NEW s \in Seq(Block), NEW b \in Block, NEW t, t = Put(s, b)
    PROVE  Supersedes(s, b, t)
<1> DEFINE w == Without(s, b.addr)
           L == Len(w)
<1>1. /\ w \in Seq(Block) /\ At(w, b.addr) = {}
      /\ \A a : a # b.addr => Carried(s, At(s, a), w, At(w, a))
      /\ \A l \in 1 .. Len(w) : \E k \in 1 .. Len(s) : w[l] = s[k] /\ s[k].addr # b.addr
  BY WithoutCarries
<1>2. t = Append(w, b)
  BY DEF Put
<1> HIDE DEF w, Block
<1>3. /\ t \in Seq(Block) /\ Len(t) = L + 1 /\ L \in Nat /\ t[L + 1] = b
      /\ \A k \in 1 .. L : t[k] = w[k]
  BY <1>1, <1>2
<1>4. At(t, b.addr) = {L + 1}
  <2>1. \A k \in 1 .. L : w[k].addr # b.addr
    BY <1>1 DEF At
  <2>2. \A k \in 1 .. L + 1 : t[k].addr = b.addr <=> k = L + 1
    BY <1>3, <2>1
  <2> HIDE DEF L
  <2> QED  BY <1>3, <2>2 DEF At
<1>5. ASSUME NEW a, a # b.addr PROVE Carried(s, At(s, a), t, At(t, a))
  <2>1. At(t, a) = At(w, a)
    BY <1>3, <1>5 DEF At
  <2>2. \A l \in At(w, a) : t[l] = w[l]
    BY <1>3 DEF At
  <2>3. Carried(s, At(s, a), w, At(w, a))
    BY <1>1, <1>5
  <2> QED  BY <2>1, <2>2, <2>3 DEF Carried
<1>6. \A l \in 1 .. Len(t) : t[l] = b \/ \E k \in 1 .. Len(s) : t[l] = s[k] /\ s[k].addr # b.addr
  <2> SUFFICES ASSUME NEW l \in 1 .. Len(t)
               PROVE  t[l] = b \/ \E k \in 1 .. Len(s) : t[l] = s[k] /\ s[k].addr # b.addr
    OBVIOUS
  <2>1. l = L + 1 \/ l \in 1 .. L
    BY <1>3
  <2> QED  BY <1>1, <1>3, <2>1
<1> QED  BY <1>3, <1>4, <1>5, <1>6 DEF Supersedes

LEMMA AllAt ==
    ASSUME NEW s, NEW p, NEW n, NEW a
    PROVE  CopiesOf(s, 1 .. Len(s), p, n, a) = Places(s, At(s, a), p, n)
BY CopiesArePlaces DEF At

\* A fresh bucket holds valid copies of all its blocks.
LEMMA FreshCopies ==
    ASSUME NEW s \in Seq(Block), NEW ptrs \in Layouts(s), NEW b, b = ResetWithBlocks(s, ptrs)
    PROVE  /\ ValidReals(b) = 1 .. Len(s) /\ Len(b.entries) = Len(s)
           /\ \A i \in 1 .. Len(s) : /\ b.entries[i].addr = s[i].addr /\ b.entries[i].leaf = s[i].leaf
                                     /\ b.entries[i].data = s[i].data
           /\ \A n, a : ValidCopies(b, n, a) = Places(s, At(s, a), "tree", n)
<1>1. /\ Len(s) \in Nat /\ ptrs \in [1 .. Len(s) -> Slots]
      /\ b.valids = Slots
      /\ b.entries = [i \in 1 .. Len(s) |-> [addr |-> s[i].addr, leaf |-> s[i].leaf,
                                             ptr |-> ptrs[i], data |-> s[i].data]]
  BY DEF ResetWithBlocks, Layouts
<1>2. /\ Len(b.entries) = Len(s)
      /\ \A i \in 1 .. Len(s) : /\ b.entries[i].addr = s[i].addr /\ b.entries[i].leaf = s[i].leaf
                                /\ b.entries[i].data = s[i].data /\ b.entries[i].ptr \in Slots
  BY <1>1
<1>3. ValidReals(b) = 1 .. Len(s)
  BY <1>1, <1>2 DEF ValidReals
<1>4. ASSUME NEW n, NEW a PROVE ValidCopies(b, n, a) = Places(s, At(s, a), "tree", n)
  <2>1. ValidCopies(b, n, a) = Places(b.entries, {k \in 1 .. Len(s) : b.entries[k].addr = a}, "tree", n)
    BY <1>3, CopiesArePlaces DEF ValidCopies
  <2>2. {k \in 1 .. Len(s) : b.entries[k].addr = a} = At(s, a)
    BY <1>2 DEF At
  <2>3. \A k \in At(s, a) : b.entries[k].data = s[k].data
    BY <1>2 DEF At
  <2>4. Places(b.entries, At(s, a), "tree", n) = Places(s, At(s, a), "tree", n)
    BY <2>3 DEF Places
  <2> QED  BY <2>1, <2>2, <2>4
<1> QED  BY <1>2, <1>3, <1>4

LEMMA EmptyBucketFacts ==
    ASSUME NEW b, b = ResetWithBlocks(<< >>, << >>)
    PROVE  b \in FreshBuckets /\ ValidReals(b) = {} /\ \A n, a : ValidCopies(b, n, a) = {}
<1>1. << >> \in Seq(Block) /\ Len(<< >>) = 0 /\ 0 <= Z
  BY Constants
<1>2. << >> \in Layouts(<< >>)
  BY DEF Layouts
<1>3. b \in FreshBuckets
  BY <1>1, <1>2, ResetType
<1>4. ValidReals(b) = 1 .. Len(<< >>) /\ \A n, a : ValidCopies(b, n, a) = Places(<< >>, At(<< >>, a), "tree", n)
  BY <1>1, <1>2, FreshCopies
<1>5. 1 .. Len(<< >>) = {} /\ \A a : At(<< >>, a) = {}
  BY DEF At
<1>6. \A n, a : ValidCopies(b, n, a) = {}
  BY <1>4, <1>5, PlacesFacts
<1> QED  BY <1>3, <1>4, <1>5, <1>6

\* FillBucketFromStash shares the stash out: what the bucket does not take stays.
LEMMA FillCarries ==
    ASSUME NEW s \in Seq(Block), NEW n, NEW u, u = Selected(s, n), NEW t, t = Unselected(s, n),
           NEW ptrs \in Layouts(u), NEW b, b = ResetWithBlocks(u, ptrs)
    PROVE  /\ \A a : Moves(CopiesOf(s, 1 .. Len(s), "stash", 0, a),
                           CopiesOf(t, 1 .. Len(t), "stash", 0, a) \cup ValidCopies(b, n, a))
           /\ \A i \in ValidReals(b) : \E k \in 1 .. Len(s) :
                /\ ResidesIn[n][s[k].leaf]
                /\ b.entries[i].leaf = s[k].leaf /\ b.entries[i].addr = s[k].addr
           /\ \A l \in 1 .. Len(t) : \E k \in 1 .. Len(s) : t[l] = s[k]
<1> DEFINE K == Selection(s, n)
           R == (1 .. Len(s)) \ K
<1>1. /\ u = Pick(s, K) /\ t = Pick(s, R) /\ u \in Seq(Block)
      /\ \A k \in K : k \in 1 .. Len(s) /\ ResidesIn[n][s[k].leaf]
  BY SelectedType DEF Selected, Unselected, Selection
<1>2. /\ ValidReals(b) = 1 .. Len(u)
      /\ \A i \in 1 .. Len(u) : b.entries[i].leaf = u[i].leaf /\ b.entries[i].addr = u[i].addr
      /\ \A a : ValidCopies(b, n, a) = Places(u, At(u, a), "tree", n)
  <2> HIDE DEF Block
  <2>1. u \in Seq(Block)
    BY <1>1
  <2> QED  BY <2>1, FreshCopies
<1> HIDE DEF Block, K, R
<1>3. /\ \A a : Carried(s, At(s, a) \cap K, u, At(u, a)) /\ Carried(s, At(s, a) \cap R, t, At(t, a))
      /\ \A l \in 1 .. Len(u) : \E k \in K \cap (1 .. Len(s)) : u[l] = s[k]
      /\ \A l \in 1 .. Len(t) : \E k \in R \cap (1 .. Len(s)) : t[l] = s[k]
  <2>1. \A a : Carried(s, At(s, a) \cap K, u, At(u, a)) /\ Carried(s, At(s, a) \cap R, t, At(t, a))
    BY <1>1, PickCarries
  <2>2. \A l \in 1 .. Len(u) : \E k \in K \cap (1 .. Len(s)) : u[l] = s[k]
    <3>1. \A l \in 1 .. Len(Pick(s, K)) : \E k \in K \cap (1 .. Len(s)) : Pick(s, K)[l] = s[k]
      BY PickFrom
    <3> QED  BY <1>1, <3>1, Zenon
  <2>3. \A l \in 1 .. Len(t) : \E k \in R \cap (1 .. Len(s)) : t[l] = s[k]
    <3>1. \A l \in 1 .. Len(Pick(s, R)) : \E k \in R \cap (1 .. Len(s)) : Pick(s, R)[l] = s[k]
      BY PickFrom
    <3> QED  BY <1>1, <3>1, Zenon
  <2> QED  BY <2>1, <2>2, <2>3
<1>4. ASSUME NEW a
      PROVE  Moves(CopiesOf(s, 1 .. Len(s), "stash", 0, a),
                   CopiesOf(t, 1 .. Len(t), "stash", 0, a) \cup ValidCopies(b, n, a))
  <2> DEFINE I == At(s, a) \cap K
             J == At(s, a) \cap R
             F == Places(s, I, "stash", 0)
             G == Places(s, J, "stash", 0)
             T == Places(u, At(u, a), "tree", n)
             U == Places(t, At(t, a), "stash", 0)
  <2>1. At(s, a) = I \cup J /\ I \cap J = {}
    BY DEF At, R
  <2>2. Moves(F, T) /\ Moves(G, U)
    <3> HIDE DEF I, J
    <3> QED  BY <1>3, CarriedMoves DEF I, J
  <2>3. CopiesOf(s, 1 .. Len(s), "stash", 0, a) = F \cup G
    <3>1. Places(s, At(s, a), "stash", 0) = F \cup G
      <4> HIDE DEF I, J
      <4> QED  BY <2>1 DEF Places
    <3> QED  BY <3>1, AllAt
  <2>4. F \cap G = {}
    <3> HIDE DEF I, J
    <3> QED  BY <2>1 DEF Places
  <2>5. CopiesOf(t, 1 .. Len(t), "stash", 0, a) \cup ValidCopies(b, n, a) = T \cup U
    <3>1. CopiesOf(t, 1 .. Len(t), "stash", 0, a) = U
      BY AllAt
    <3>2. ValidCopies(b, n, a) = T
      BY <1>2
    <3> QED  BY <3>1, <3>2
  <2> HIDE DEF F, G, T, U
  <2>6. Moves(F \cup G, T \cup U)
    BY <2>2, <2>4, MovesTogether
  <2> QED  BY <2>3, <2>5, <2>6
<1>5. \A i \in ValidReals(b) : \E k \in 1 .. Len(s) :
         /\ ResidesIn[n][s[k].leaf]
         /\ b.entries[i].leaf = s[k].leaf /\ b.entries[i].addr = s[k].addr
  <2> SUFFICES ASSUME NEW i \in ValidReals(b)
               PROVE  \E k \in 1 .. Len(s) :
                        /\ ResidesIn[n][s[k].leaf]
                        /\ b.entries[i].leaf = s[k].leaf /\ b.entries[i].addr = s[k].addr
    OBVIOUS
  <2>1. i \in 1 .. Len(u) /\ b.entries[i].leaf = u[i].leaf /\ b.entries[i].addr = u[i].addr
    BY <1>2
  <2>2. PICK k \in K \cap (1 .. Len(s)) : u[i] = s[k]
    BY <1>3, <2>1
  <2> QED  BY <1>1, <2>1, <2>2
<1>6. \A l \in 1 .. Len(t) : \E k \in 1 .. Len(s) : t[l] = s[k]
  BY <1>3
<1> QED  BY <1>4, <1>5, <1>6
-----------------------------------------------------------------------------
\* Blocks that stay where they are, or are lost with their bucket.
LEMMA NoBucketApart == NoBucket \notin Buckets
BY RingServerAssumption DEF Buckets, Entries

LEMMA ContentsCases ==
    ASSUME IInv, NEW n \in Nodes
    PROVE  /\ n \in Replaced => Contents(n) = ResetWithBlocks(<< >>, << >>)
           /\ cpc = "ack" /\ req.cmd = "W" /\ n = Head(writes) => Contents(n) = req.bucket
           /\ cpc = "init" /\ req.cmd = "I" =>
                IF n >= NumTreeNodes - Len(req.buckets)
                THEN Contents(n) = req.buckets[n + Len(req.buckets) - NumTreeNodes + 1]
                ELSE Contents(n) = tree[n]
           /\ cpc \notin {"ack", "init"} /\ n \notin Replaced => Contents(n) = tree[n]
           /\ cpc = "ack" /\ n \notin Replaced /\ ~ (req.cmd = "W" /\ n = Head(writes)) => Contents(n) = tree[n]
           /\ cpc = "init" /\ req.cmd # "I" => Contents(n) = tree[n]
<1>1. cpc = "init" => n \notin Replaced
  BY DEF IInv, CallState, Replaced, Among
<1>2. cpc = "ack" /\ n = Head(writes) => n \notin Replaced
  BY DEF Replaced
<1> HIDE DEF Replaced
<1>3. n \in Replaced => Contents(n) = ResetWithBlocks(<< >>, << >>)
  BY <1>1, <1>2 DEF Contents
<1>4. cpc = "ack" /\ req.cmd = "W" /\ n = Head(writes) => Contents(n) = req.bucket
  BY <1>2 DEF Contents
<1>5. cpc = "init" /\ req.cmd = "I" =>
         IF n >= NumTreeNodes - Len(req.buckets)
         THEN Contents(n) = req.buckets[n + Len(req.buckets) - NumTreeNodes + 1]
         ELSE Contents(n) = tree[n]
  BY <1>1 DEF Contents
<1>6. cpc \notin {"ack", "init"} /\ n \notin Replaced => Contents(n) = tree[n]
  BY DEF Contents
<1>7. cpc = "ack" /\ n \notin Replaced /\ ~ (req.cmd = "W" /\ n = Head(writes)) => Contents(n) = tree[n]
  BY DEF Contents
<1>8. cpc = "init" /\ req.cmd # "I" => Contents(n) = tree[n]
  BY <1>1 DEF Contents
<1> QED  BY <1>3, <1>4, <1>5, <1>6, <1>7, <1>8

LEMMA ContentsType ==
    ASSUME IInv, NEW n \in Nodes
    PROVE  Contents(n) \in Buckets \cup {NoBucket}
<1>1. tree \in [Nodes -> Buckets \cup {NoBucket}] /\ req \in Requests
  BY DEF IInv, TypeOK
<1>2. ResetWithBlocks(<< >>, << >>) \in Buckets
  BY EmptyBucketFacts, FreshFacts
<1>3. req.cmd = "W" => req.bucket \in Buckets
  BY <1>1, RequestShapes, FreshFacts
<1>4. ASSUME req.cmd = "I", n >= NumTreeNodes - Len(req.buckets)
      PROVE  req.buckets[n + Len(req.buckets) - NumTreeNodes + 1] \in Buckets
  <2> DEFINE L == Len(req.buckets)
             i == n + L - NumTreeNodes + 1
  <2>1. req.buckets \in Seq(FreshBuckets) /\ L \in Nat /\ n >= NumTreeNodes - L
    BY <1>1, <1>4, RequestShapes
  <2>2. n \in Nat /\ n < NumTreeNodes /\ NumTreeNodes \in Nat
    BY Constants DEF Nodes
  <2>3. i \in 1 .. L
    <3> HIDE DEF L
    <3> QED  BY <2>1, <2>2
  <2>4. req.buckets[i] \in FreshBuckets
    <3> HIDE DEF i
    <3> QED  BY <2>1, <2>3
  <2> HIDE DEF i
  <2>5. req.buckets[i] \in Buckets
    BY <2>4, FreshFacts
  <2> QED  BY <2>5 DEF i
<1>5. CASE n \in Replaced
  BY <1>2, <1>5, ContentsCases
<1>6. CASE n \notin Replaced /\ cpc = "ack"
  <2>1. (Contents(n) = req.bucket /\ req.cmd = "W") \/ Contents(n) = tree[n]
    BY <1>6, ContentsCases
  <2> QED  BY <1>1, <1>3, <2>1
<1>7. CASE n \notin Replaced /\ cpc = "init"
  <2>1. CASE req.cmd = "I" /\ n >= NumTreeNodes - Len(req.buckets)
    <3>1. Contents(n) = req.buckets[n + Len(req.buckets) - NumTreeNodes + 1]
      BY <1>7, <2>1, ContentsCases
    <3> QED  BY <1>4, <2>1, <3>1
  <2>2. CASE ~ (req.cmd = "I" /\ n >= NumTreeNodes - Len(req.buckets))
    <3>1. Contents(n) = tree[n]
      BY <1>7, <2>2, ContentsCases
    <3> QED  BY <1>1, <3>1
  <2> QED  BY <2>1, <2>2
<1>8. CASE n \notin Replaced /\ cpc \notin {"ack", "init"}
  <2>1. Contents(n) = tree[n]
    BY <1>8, ContentsCases
  <2> QED  BY <1>1, <2>1
<1> QED  BY <1>5, <1>6, <1>7, <1>8

LEMMA ValidCopiesFacts ==
    ASSUME NEW b, NEW n, NEW a
    PROVE  /\ \A x : x \in ValidCopies(b, n, a) <=>
                \E i \in Targets(b, a) : x = <<"tree", n, i, b.entries[i].data>>
           /\ ValidCopies(b, n, a) = Places(b.entries, Targets(b, a), "tree", n)
<1>1. ValidCopies(b, n, a) = Places(b.entries, Targets(b, a), "tree", n)
  BY CopiesArePlaces DEF ValidCopies, Targets
<1> QED  BY <1>1 DEF Places

LEMMA CopiesApart ==
    ASSUME NEW a
    PROVE  /\ \A x \in InStash(a) : x[1] = "stash"
           /\ \A x \in InHand(a) : x[1] = "hand"
           /\ \A x \in OnTheWay(a) : x[1] = "way"
           /\ \A x \in InTree(a) : x[1] = "tree"
           /\ \A b, n : \A x \in ValidCopies(b, n, a) : x[1] = "tree" /\ x[2] = n
<1>1. \A x \in InStash(a) : x[1] = "stash"
  BY AllAt, PlacesFacts DEF InStash
<1>2. \A x \in InHand(a) : x[1] = "hand"
  BY DEF InHand
<1>3. \A x \in OnTheWay(a) : x[1] = "way"
  BY DEF OnTheWay
<1>4. \A b, n : \A x \in ValidCopies(b, n, a) : x[1] = "tree" /\ x[2] = n
  BY ValidCopiesFacts
<1>5. \A x \in InTree(a) : x[1] = "tree"
  BY <1>4 DEF InTree
<1> QED  BY <1>1, <1>2, <1>3, <1>4, <1>5

LEMMA AccountKept ==
    ASSUME NEW a \in Addr, BlocksInPlace, Accounted(a),
           InStash(a)' = InStash(a), InHand(a)' = InHand(a), OnTheWay(a)' = OnTheWay(a),
           oracle'[a] = oracle[a], LeafOf(a)' = LeafOf(a), Writing(a)' => Writing(a),
           Writing(a) => Writing(a)',
           \A n \in Nodes : \/ Contents(n)' = NoBucket
                            \/ /\ Contents(n) # NoBucket /\ Contents(n)' # NoBucket
                               /\ ValidCopies(Contents(n), n, a)' = ValidCopies(Contents(n), n, a)
    PROVE  Accounted(a)'
<1>1. \A n \in Kept' : n \in Kept /\ ValidCopies(Contents(n), n, a)' = ValidCopies(Contents(n), n, a)
  BY DEF Kept
<1>2. InTree(a)' \subseteq InTree(a)
  BY <1>1 DEF InTree
<1>3. \A x \in InTree(a) \ InTree(a)' :
         \E n \in Kept \ Kept' : x \in ValidCopies(Contents(n), n, a)
  BY <1>1 DEF InTree
<1>4. /\ Copies(a)  = InStash(a) \cup InHand(a) \cup OnTheWay(a) \cup InTree(a)
      /\ Copies(a)' = InStash(a) \cup InHand(a) \cup OnTheWay(a) \cup InTree(a)'
  BY DEF Copies
<1>5. OnLostBucket(a) => OnLostBucket(a)'
  BY <1>1 DEF OnLostBucket
<1>6. ASSUME NEW x \in InTree(a) \ InTree(a)'
      PROVE  OnLostBucket(a)'
  <2>1. PICK n \in Kept \ Kept' : x \in ValidCopies(Contents(n), n, a)
    BY <1>3
  <2>2. PICK i \in Targets(Contents(n), a) : TRUE
    BY <2>1, ValidCopiesFacts
  <2>3. i \in ValidReals(Contents(n)) /\ Contents(n).entries[i].addr = a
    BY DEF Targets
  <2>4. ResidesIn[n][LeafOf(a)]
    BY <2>1, <2>3 DEF BlocksInPlace, Fits
  <2>5. n \in Nodes \ Kept'
    BY <2>1 DEF Kept
  <2> QED  BY <2>4, <2>5 DEF OnLostBucket
<1>7. /\ \A c \in Copies(a) : Copies(a) = {c} /\ c[4] = oracle[a]
      /\ Copies(a) = {} => Writing(a) \/ OnLostBucket(a)
      /\ Writing(a) => Copies(a) = {}
  BY DEF Accounted
<1>8. \A c \in Copies(a)' : Copies(a)' = {c} /\ c[4] = oracle'[a]
  BY <1>2, <1>4, <1>7
<1>9. Copies(a)' = {} => Writing(a)' \/ OnLostBucket(a)'
  <2>1. CASE Copies(a) = {}
    BY <1>5, <1>7, <2>1
  <2>2. ASSUME NEW c \in Copies(a), Copies(a)' = {} PROVE OnLostBucket(a)'
    BY <1>4, <1>6, <2>2
  <2> QED  BY <2>1, <2>2
<1>10. Writing(a)' => Copies(a)' = {}
  BY <1>2, <1>4, <1>7
<1> QED  BY <1>8, <1>9, <1>10 DEF Accounted

\* A step that moves the copies of an address.
LEMMA AccountMoves ==
    ASSUME NEW a \in Addr, Accounted(a), NEW O, NEW F, NEW T,
           Copies(a) = O \cup F, O \cap F = {}, Copies(a)' = O \cup T, Moves(F, T),
           oracle'[a] = oracle[a], LeafOf(a)' = LeafOf(a), Writing(a)' => Writing(a),
           Writing(a) => Writing(a)', Kept' = Kept
    PROVE  Accounted(a)'
<1>1. /\ \A c \in Copies(a) : Copies(a) = {c} /\ c[4] = oracle[a]
      /\ Copies(a) = {} => Writing(a) \/ OnLostBucket(a)
      /\ Writing(a) => Copies(a) = {}
  BY DEF Accounted
<1>2. OnLostBucket(a) => OnLostBucket(a)'
  BY DEF OnLostBucket
<1>3. CASE Copies(a) = {}
  <2>1. O = {} /\ T = {}
    BY <1>3 DEF Moves
  <2>2. Copies(a)' = {}
    BY <2>1
  <2> QED  BY <1>1, <1>2, <1>3, <2>2 DEF Accounted
<1>4. ASSUME NEW c \in Copies(a)
      PROVE  \E d : Copies(a)' = {d} /\ d[4] = oracle'[a]
  <2>1. O \cup F = {c} /\ c[4] = oracle[a]
    BY <1>1
  <2>2. CASE c \in O
    <3>1. F = {} /\ O = {c}
      BY <2>1, <2>2
    <3>2. T = {}
      BY <3>1 DEF Moves
    <3> QED  BY <2>1, <3>1, <3>2
  <2>3. CASE c \in F
    <3>1. O = {} /\ F = {c}
      BY <2>1, <2>3
    <3>2. PICK d : T = {d} /\ d[4] = c[4]
      BY <3>1 DEF Moves
    <3> QED  BY <2>1, <3>1, <3>2
  <2> QED  BY <2>1, <2>2, <2>3
<1>5. ASSUME NEW c \in Copies(a)
      PROVE  Accounted(a)'
  <2>1. PICK d : Copies(a)' = {d} /\ d[4] = oracle'[a]
    BY <1>4, <1>5
  <2>2. ~ Writing(a)'
    BY <1>1, <1>5
  <2> QED  BY <2>1, <2>2 DEF Accounted
<1> QED  BY <1>3, <1>5

\* A step that moves nothing: buckets may be lost.
LEMMA Settled ==
    ASSUME IInv, BlocksInPlace, \A a \in Addr : Accounted(a),
           stash \in Seq(Block), UNCHANGED <<stash, oracle>>,
           \A a \in Addr : /\ InHand(a)' = InHand(a) /\ OnTheWay(a)' = OnTheWay(a)
                           /\ LeafOf(a)' = LeafOf(a)
                           /\ Writing(a)' <=> Writing(a),
           \A n \in Nodes : Contents(n)' \in {Contents(n), NoBucket}
    PROVE  BlocksInPlace' /\ \A a \in Addr : Accounted(a)'
<1>1. \A n \in Nodes : \A a \in Addr :
         \/ Contents(n)' = NoBucket
         \/ /\ Contents(n) # NoBucket /\ Contents(n)' # NoBucket
            /\ ValidCopies(Contents(n), n, a)' = ValidCopies(Contents(n), n, a)
  OBVIOUS
<1>2. \A a : InStash(a)' = InStash(a)
  BY DEF InStash
<1>3. \A a \in Addr : Accounted(a)'
  BY <1>1, <1>2, AccountKept
<1>4. ASSUME NEW n \in Kept' PROVE Fits(n, Contents(n))'
  <2>1. n \in Kept /\ Contents(n)' = Contents(n) /\ Contents(n) \in Buckets
    BY <1>4, ContentsType DEF Kept
  <2>2. \A i \in ValidReals(Contents(n)) : Contents(n).entries[i].addr \in Addr
    <3>1. Contents(n).entries \in Seq(Entries)
      BY <2>1 DEF Buckets
    <3>2. \A i \in ValidReals(Contents(n)) : Contents(n).entries[i] \in Entries
      BY <3>1 DEF ValidReals
    <3> QED  BY <3>2 DEF Entries
  <2>3. Fits(n, Contents(n))
    BY <2>1 DEF BlocksInPlace
  <2>4. PICK b : b = Contents(n) /\ b = Contents(n)'
    BY <2>1
  <2>5. \A i \in ValidReals(b) : /\ ResidesIn[n][b.entries[i].leaf]
                                 /\ b.entries[i].leaf = LeafOf(b.entries[i].addr)
    BY <2>3, <2>4 DEF Fits
  <2>6. \A i \in ValidReals(b) : LeafOf(b.entries[i].addr)' = LeafOf(b.entries[i].addr)
    BY <2>2, <2>4
  <2>7. \A i \in ValidReals(b) : /\ ResidesIn[n][b.entries[i].leaf]
                                 /\ b.entries[i].leaf = LeafOf(b.entries[i].addr)'
    BY <2>5, <2>6
  <2> HIDE DEF Contents
  <2> QED  BY <2>4, <2>7 DEF Fits, ValidReals, LeafOf
<1>5. (\A k \in 1 .. Len(stash) : stash[k].leaf = LeafOf(stash[k].addr))'
  <2>1. \A k \in 1 .. Len(stash) : stash[k].addr \in Addr
    <3>1. \A k \in 1 .. Len(stash) : stash[k] \in Block
      OBVIOUS
    <3> QED  BY <3>1 DEF Block
  <2>2. \A k \in 1 .. Len(stash) : stash[k].leaf = LeafOf(stash[k].addr)
    BY DEF BlocksInPlace
  <2>3. PICK s : s = stash /\ s = stash'
    OBVIOUS
  <2>4. \A k \in 1 .. Len(s) : s[k].leaf = LeafOf(s[k].addr)'
    BY <2>1, <2>2, <2>3
  <2> QED  BY <2>3, <2>4 DEF LeafOf
<1>6. BlocksInPlace'
  BY <1>4, <1>5 DEF BlocksInPlace
<1> QED  BY <1>3, <1>6
-----------------------------------------------------------------------------
\* The steps of the server.
LEMMA StandingFacts ==
    ASSUME IInv, Accountable
    PROVE  stash \in Seq(Block) /\ cpc # "destroyed" /\ ~ failed
BY DEF IInv, TypeOK, Accountable

LEMMA ServerSettles ==
    ASSUME IInv, CopiesInv, UNCHANGED <<clientVars, oracle>>,
           Accountable' => Accountable,
           Accountable => /\ \A n \in Nodes : Contents(n)' \in {Contents(n), NoBucket}
                          /\ cpc = "xor" => /\ tree' = tree /\ InFlight' = InFlight
                                            /\ \A k \in 1 .. TreeHeight + 1 : Taken(k)' => Taken(k)
    PROVE  CopiesInv'
<1> SUFFICES ASSUME Accountable'
             PROVE  BlocksInPlace' /\ (\A a \in Addr : Accounted(a)') /\ BlockIsTaken'
  BY DEF CopiesInv
<1>1. /\ Accountable /\ BlocksInPlace /\ (\A a \in Addr : Accounted(a)) /\ BlockIsTaken
      /\ stash \in Seq(Block)
  BY StandingFacts DEF CopiesInv
<1>2. /\ stash' = stash /\ oracle' = oracle /\ cpc' = cpc /\ call' = call /\ oldLeaf' = oldLeaf
      /\ posMap' = posMap /\ block' = block /\ targets' = targets
      /\ reads' = reads /\ writes' = writes
  BY DEF clientVars
<1>3. InFlight' = InFlight
  BY <1>1, <1>2 DEF InFlight
<1>4. \A a : /\ InHand(a)' = InHand(a) /\ OnTheWay(a)' = OnTheWay(a) /\ LeafOf(a)' = LeafOf(a)
             /\ (Writing(a)' <=> Writing(a)) /\ InStash(a)' = InStash(a)
  BY <1>2, <1>3 DEF InHand, OnTheWay, LeafOf, Writing, InStash
<1>5. BlocksInPlace' /\ \A a \in Addr : Accounted(a)'
  BY <1>1, <1>2, <1>4, Settled
<1>6. ASSUME cpc = "xor"
      PROVE  /\ Copies(call.addr)' # {}
             /\ \A k \in 1 .. TreeHeight + 1 :
                  Taken(k)' => LET b == tree'[Paths[oldLeaf][k]] IN b = NoBucket \/ Targets(b, call.addr) = {}
  <2>1. tree' = tree /\ \A k \in 1 .. TreeHeight + 1 : Taken(k)' => Taken(k)
    BY <1>1, <1>6
  <2>2. \A n \in Nodes : Contents(n)' = Contents(n)
    BY <1>2, <1>6, <2>1 DEF Contents, Replaced, Among
  <2>3. Kept' = Kept
    BY <2>2 DEF Kept
  <2>4. \A a : InTree(a)' = InTree(a)
    BY <2>2, <2>3 DEF InTree, Kept
  <2>5. \A a : Copies(a)' = Copies(a)
    BY <1>4, <2>4 DEF Copies
  <2>6. Copies(call.addr) # {}
    BY <1>1, <1>6 DEF BlockIsTaken
  <2>7. PICK x : x = call.addr /\ x = call'.addr
    BY <1>2
  <2>8. Copies(x)' # {}
    BY <2>5, <2>6, <2>7
  <2>9. Copies(call.addr)' # {}
    BY <2>7, <2>8 DEF Copies, InStash, InHand, OnTheWay, InTree, ValidCopies, CopiesOf
  <2> QED  BY <1>1, <1>2, <1>6, <2>1, <2>9 DEF BlockIsTaken
<1>7. BlockIsTaken'
  BY <1>2, <1>6 DEF BlockIsTaken
<1> QED  BY <1>5, <1>7

LEMMA EntryAddr ==
    ASSUME NEW b \in Buckets
    PROVE  \A i \in ValidReals(b) : i \in 1 .. Len(b.entries) /\ b.entries[i].addr \in Addr
<1>1. b.entries \in Seq(Entries)
  BY DEF Buckets
<1>2. \A i \in 1 .. Len(b.entries) : b.entries[i] \in Entries
  BY <1>1
<1> QED  BY <1>2 DEF ValidReals, Entries

LEMMA FitsStill ==
    ASSUME NEW n, NEW b \in Buckets, NEW c, Fits(n, b),
           ValidReals(c) \subseteq ValidReals(b), c.entries = b.entries,
           \A a \in Addr : LeafOf(a)' = LeafOf(a)
    PROVE  Fits(n, c)'
<1>1. \A i \in ValidReals(b) : /\ ResidesIn[n][b.entries[i].leaf]
                               /\ b.entries[i].leaf = LeafOf(b.entries[i].addr)
  BY DEF Fits
<1>2. \A i \in ValidReals(b) : LeafOf(b.entries[i].addr)' = LeafOf(b.entries[i].addr)
  BY EntryAddr
<1>3. \A i \in ValidReals(c) : /\ ResidesIn[n][c.entries[i].leaf]
                               /\ c.entries[i].leaf = LeafOf(c.entries[i].addr)'
  BY <1>1, <1>2
<1> QED  BY <1>3 DEF Fits

LEMMA FitsAt ==
    ASSUME NEW n, NEW c, Fits(n, c)', c = Contents(n)'
    PROVE  Fits(n, Contents(n))'
<1> HIDE DEF Contents
<1> QED  BY DEF Fits, ValidReals, LeafOf

LEMMA StashStill ==
    ASSUME NEW s \in Seq(Block), \A k \in 1 .. Len(s) : s[k].leaf = LeafOf(s[k].addr),
           stash' = s, \A a \in Addr : LeafOf(a)' = LeafOf(a)
    PROVE  (\A k \in 1 .. Len(stash) : stash[k].leaf = LeafOf(stash[k].addr))'
<1>1. \A k \in 1 .. Len(s) : s[k].addr \in Addr
  <2>1. \A k \in 1 .. Len(s) : s[k] \in Block
    OBVIOUS
  <2> QED  BY <2>1 DEF Block
<1>2. \A k \in 1 .. Len(s) : s[k].leaf = LeafOf(s[k].addr)'
  BY <1>1
<1> QED  BY <1>2 DEF LeafOf

\* A request that is consumed, and nothing in its place, ends the account.
LEMMA RefusalSettles ==
    ASSUME IInv, CallInv, CopiesInv, UNCHANGED <<clientVars, oracle>>, req.cmd # "none", req' = NoMsg,
           resp' = resp \/ cpc \notin {"init", "xor", "ack"},
           tree' = tree \/ req.cmd \in {"I", "W", "X"}
    PROVE  CopiesInv'
<1>1. cpc' = cpc /\ failed' = failed /\ stash' = stash /\ writes' = writes /\ reads' = reads
  BY DEF clientVars
<1>2. CASE Accountable'
  <2>1. cpc \notin {"build", "destroyed"} /\ ~ failed /\ stash # Malformed
    BY <1>1, <1>2 DEF Accountable
  <2>2. resp' = resp => cpc \notin {"init", "xor", "ack"}
    BY <1>1, <1>2, <2>1, PendingFacts DEF Accountable
  <2>3. cpc \notin {"init", "xor", "ack"}
    BY <2>2
  <2>4. Accountable
    BY <2>1, <2>3 DEF Accountable
  <2>5. tree' = tree
    BY <2>1, <2>3, PendingFacts DEF CallInv
  <2>6. \A n \in Nodes : Contents(n)' = Contents(n)
    BY <1>1, <2>3, <2>5 DEF Contents, Replaced, Among
  <2> QED  BY <2>3, <2>4, <2>6, ServerSettles
<1>3. CASE ~ Accountable'
  BY <1>3 DEF CopiesInv
<1> QED  BY <1>2, <1>3

LEMMA FrameSettles ==
    ASSUME IInv, CopiesInv, UNCHANGED <<clientVars, oracle, tree, picked, req, resp>>
    PROVE  CopiesInv'
<1>1. cpc' = cpc /\ failed' = failed /\ stash' = stash /\ writes' = writes /\ reads' = reads
  BY DEF clientVars
<1>2. Accountable' => Accountable
  BY <1>1 DEF Accountable
<1>3. \A n \in Nodes : Contents(n)' = Contents(n)
  BY <1>1 DEF Contents, Replaced, Among
<1>4. InFlight' = InFlight
  BY <1>1 DEF InFlight
<1>5. \A k \in 1 .. TreeHeight + 1 : Taken(k)' => Taken(k)
  BY DEF Taken
<1> QED  BY <1>2, <1>3, <1>4, <1>5, ServerSettles

LEMMA XorFacts ==
    ASSUME IInv, cpc = "xor"
    PROVE  /\ writes = << >> /\ block = NoBlock /\ call \in Calls /\ call # NoCall
           /\ call.addr \in Addr /\ oldLeaf \in Leaves
           /\ Replaced = {} /\ \A n \in Nodes : Contents(n) = tree[n]
           /\ \A a \in Addr : InHand(a) = {} /\ ~ Writing(a)
           /\ \A a : a # call.addr => OnTheWay(a) = {}
<1>1. /\ writes = << >> /\ block = NoBlock /\ call \in Calls /\ oldLeaf \in Leaves
  BY DEF IInv, CallState, TypeOK
<1>2. call.op \in {"READ", "WRITE"} /\ call.addr \in Addr /\ call # NoCall
  BY <1>1, NoCallFacts DEF Calls
<1>3. Replaced = {}
  BY <1>1 DEF Replaced, Among
<1>4. \A n \in Nodes : Contents(n) = tree[n]
  BY <1>3 DEF Contents
<1>5. \A a \in Addr : InHand(a) = {} /\ ~ Writing(a)
  <2>1. \A a \in Addr : block.addr # a
    BY <1>1, NoCallFacts DEF Addr
  <2> QED  BY <2>1 DEF InHand, Writing
<1>6. \A a : a # call.addr => OnTheWay(a) = {}
  BY DEF OnTheWay
<1> QED  BY <1>1, <1>2, <1>3, <1>4, <1>5, <1>6

\* What the slot that was asked for holds.
LEMMA SlotAsked ==
    ASSUME NEW b \in Buckets, NEW a, NEW slot \in BlockOffsets(b, a), NEW c, c = Invalidate(b, slot)
    PROVE  /\ c.entries = b.entries /\ ValidReals(c) \subseteq ValidReals(b) /\ c \in Buckets
           /\ Targets(c, a) = {} \/ \E i, j \in Targets(b, a) : i # j
           /\ \A o : o # a => Targets(c, o) = Targets(b, o)
           /\ Targets(b, a) # {} => \E i \in Targets(b, a) : SlotData(b, slot) = b.entries[i].data
<1>1. /\ c \in Buckets /\ c.valids = b.valids \ {slot} /\ c.entries = b.entries
  BY InvalidateFacts
<1>2. ValidReals(c) = {i \in ValidReals(b) : b.entries[i].ptr # slot}
  BY <1>1 DEF ValidReals
<1>3. \A i, j \in 1 .. Len(b.entries) : b.entries[i].ptr = b.entries[j].ptr => i = j
  BY DEF Buckets
<1>4. \A o : Targets(c, o) = {i \in Targets(b, o) : b.entries[i].ptr # slot}
  BY <1>1, <1>2 DEF Targets
<1>5. CASE Targets(b, a) = {}
  <2>1. slot \in ValidDummyOffsets(b)
    BY <1>5, TargetsType
  <2>2. \A i \in ValidReals(b) : b.entries[i].ptr # slot
    BY <2>1 DEF ValidDummyOffsets
  <2>3. \A o : Targets(c, o) = Targets(b, o)
    BY <1>4, <2>2 DEF Targets
  <2> QED  BY <1>1, <1>2, <1>5, <2>3
<1>6. CASE Targets(b, a) # {}
  <2>1. PICK i \in Targets(b, a) : slot = b.entries[i].ptr
    BY <1>6, TargetsType
  <2>2. i \in 1 .. Len(b.entries) /\ b.entries[i].addr = a
    BY TargetsType
  <2>3. ASSUME NEW o, o # a PROVE Targets(c, o) = Targets(b, o)
    <3>1. \A j \in Targets(b, o) : j \in 1 .. Len(b.entries) /\ b.entries[j].addr = o
      BY TargetsType
    <3>2. \A j \in Targets(b, o) : b.entries[j].ptr # slot
      BY <1>3, <2>1, <2>2, <2>3, <3>1
    <3> QED  BY <1>4, <3>2
  <2>4. Targets(c, a) = {} \/ \E j \in Targets(b, a) : i # j
    BY <1>4, <2>1
  <2>5. SlotData(b, slot) = b.entries[i].data
    <3>1. \A j \in 1 .. Len(b.entries) : b.entries[j].ptr = slot <=> j = i
      BY <1>3, <2>1, <2>2
    <3> QED  BY <2>2, <3>1 DEF SlotData
  <2> QED  BY <1>1, <1>2, <2>1, <2>3, <2>4, <2>5
<1> QED  BY <1>5, <1>6
\* A slot is taken: if it is the block's, the block is on its way from here on.
LEMMA SlotSettles ==
    ASSUME IInv, CopiesInv, UNCHANGED <<clientVars, oracle, req, resp>>,
           spc = "xor", Len(picked) < TreeHeight + 1,
           NEW n, n = Paths[req.leaf][Len(picked) + 1],
           NEW slot, slot = req.offsets[Len(picked) + 1],
           SlotIsValid(n, slot), WriteBucketToDisk(n, Invalidate(tree[n], slot)),
           picked' = Append(picked, SlotData(tree[n], slot))
    PROVE  CopiesInv'
<1> SUFFICES ASSUME Accountable'
             PROVE  BlocksInPlace' /\ (\A a \in Addr : Accounted(a)') /\ BlockIsTaken'
  BY DEF CopiesInv
<1>1. /\ stash' = stash /\ oracle' = oracle /\ cpc' = cpc /\ call' = call /\ oldLeaf' = oldLeaf
      /\ posMap' = posMap /\ block' = block /\ targets' = targets
      /\ reads' = reads /\ writes' = writes /\ failed' = failed
  BY DEF clientVars
<1>2. /\ Accountable /\ BlocksInPlace /\ (\A a \in Addr : Accounted(a)) /\ BlockIsTaken
      /\ stash \in Seq(Block) /\ cpc # "destroyed" /\ ~ failed
  <2>1. Accountable
    BY <1>1 DEF Accountable
  <2> QED  BY <2>1, StandingFacts DEF CopiesInv
<1>3. /\ req.cmd = "X" /\ cpc = "xor" /\ req.leaf = oldLeaf /\ resp = NoMsg /\ resp.cmd = "none"
  <2>1. req.cmd = "X"
    BY DEF IInv, Conversation
  <2> QED  BY <1>2, <2>1, PendingFacts, NoMsgFacts
<1> DEFINE k == Len(picked) + 1
<1>4. PICK a0 : a0 = call.addr /\ a0 = call'.addr
  BY <1>1
<1>5. PICK b : b = tree[n]
  OBVIOUS
<1>6. PICK c : c = Invalidate(b, slot)
  OBVIOUS
<1>7. PICK d : d = SlotData(b, slot)
  OBVIOUS
<1>8. /\ picked \in Seq(Data) /\ Len(picked) \in Nat /\ oldLeaf \in Leaves /\ a0 \in Addr
      /\ TreeHeight \in Nat
  BY <1>3, <1>4, XorFacts, Constants DEF IInv, TypeOK
<1>9. k \in 1 .. TreeHeight + 1
  BY <1>8
<1>10. n = Paths[oldLeaf][k] /\ n \in Nodes
  BY <1>3, <1>8, <1>9, PathsFacts
<1>11. /\ b # NoBucket /\ slot \in BlockOffsets(b, a0)
       /\ k \in targets <=> Targets(b, a0) # {}
  <2>1. k \in Len(picked) + 1 .. TreeHeight + 1
    BY <1>8, <1>9
  <2>2. slot = req.offsets[k]
    OBVIOUS
  <2> HIDE DEF k
  <2> QED  BY <1>3, <1>4, <1>5, <1>10, <2>1, <2>2 DEF IInv, SlotsAsAsked
<1>12. b \in Buckets
  BY <1>5, <1>10, <1>11 DEF IInv, TypeOK
<1>13. /\ d \in Data
       /\ InFlight = picked /\ InFlight' = picked'
       /\ DOMAIN picked = 1 .. Len(picked) /\ DOMAIN picked' = 1 .. k /\ picked'[k] = d
       /\ \A j \in 1 .. Len(picked) : picked'[j] = picked[j]
       /\ Len(picked') = k
  <2>1. d \in Data
    BY <1>7, <1>12, SlotDataFacts
  <2>2. picked' = Append(picked, d)
    BY <1>5, <1>7
  <2>3. InFlight = picked /\ InFlight' = picked'
    BY <1>1, <1>3 DEF InFlight
  <2> QED  BY <1>8, <2>1, <2>2, <2>3
<1>14. /\ tree'[n] \in {c, NoBucket} /\ \A m \in Nodes : m # n => tree'[m] = tree[m]
  <2>1. tree \in [Nodes -> Buckets \cup {NoBucket}]
    BY DEF IInv, TypeOK
  <2>2. c \in Buckets
    BY <1>6, <1>12, InvalidateFacts
  <2>3. WriteBucketToDisk(n, c)
    BY <1>5, <1>6
  <2> QED  BY <2>1, <2>2, <2>3, WriteFacts
<1>15. \A m \in Nodes : Contents(m) = tree[m] /\ Contents(m)' = tree'[m]
  <2>1. Replaced = {} /\ Replaced' = {}
    BY <1>1, <1>3, XorFacts DEF Replaced, Among
  <2>2. \A m \in Nodes : Contents(m)' = tree'[m]
    BY <1>1, <1>3, <2>1 DEF Contents
  <2> QED  BY <1>3, <2>2, XorFacts
<1>16. /\ c.entries = b.entries /\ ValidReals(c) \subseteq ValidReals(b) /\ c \in Buckets
       /\ Targets(c, a0) = {} \/ \E i, j \in Targets(b, a0) : i # j
       /\ \A o : o # a0 => Targets(c, o) = Targets(b, o)
       /\ Targets(b, a0) # {} => \E i \in Targets(b, a0) : d = b.entries[i].data
  BY <1>6, <1>7, <1>11, <1>12, SlotAsked
<1>17. c # NoBucket
  BY <1>16, NoBucketApart
<1>18. \A x \in ValidCopies(b, n, a0) : Copies(a0) = {x} /\ x[4] = oracle[a0]
  <2>1. ValidCopies(b, n, a0) \subseteq InTree(a0)
    BY <1>5, <1>10, <1>11, <1>15 DEF InTree, Kept
  <2>2. ValidCopies(b, n, a0) \subseteq Copies(a0)
    BY <2>1 DEF Copies
  <2> QED  BY <1>2, <1>8, <2>2 DEF Accounted
<1>19. Targets(c, a0) = {}
  <2> SUFFICES ASSUME NEW i \in Targets(b, a0), NEW j \in Targets(b, a0)
               PROVE  i = j
    BY <1>16
  <2>1. <<"tree", n, i, b.entries[i].data>> \in ValidCopies(b, n, a0)
    BY ValidCopiesFacts
  <2>2. <<"tree", n, j, b.entries[j].data>> \in ValidCopies(b, n, a0)
    BY ValidCopiesFacts
  <2>3. <<"tree", n, i, b.entries[i].data>> = <<"tree", n, j, b.entries[j].data>>
    BY <1>18, <2>1, <2>2
  <2> QED  BY <2>3
<1>20. \A a : LeafOf(a)' = LeafOf(a) /\ InHand(a)' = InHand(a) /\ InStash(a)' = InStash(a)
              /\ (Writing(a)' <=> Writing(a))
  BY <1>1 DEF LeafOf, InHand, InStash, Writing
<1>21. BlocksInPlace'
  <2>1. ASSUME NEW m \in Kept' PROVE Fits(m, Contents(m))'
    <3>1. m \in Nodes /\ Contents(m)' = tree'[m] /\ tree'[m] # NoBucket
      BY <1>15, <2>1 DEF Kept
    <3>2. CASE m = n
      <4>1. Fits(n, b)
        BY <1>2, <1>5, <1>10, <1>11, <1>15 DEF BlocksInPlace, Kept
      <4>2. Fits(n, c)'
        BY <1>12, <1>16, <1>20, <4>1, FitsStill
      <4>3. c = Contents(n)'
        BY <1>14, <3>1, <3>2
      <4>4. Fits(n, Contents(n))'
        BY <4>2, <4>3, FitsAt
      <4> QED  BY <3>2, <4>4
    <3>3. CASE m # n
      <4>1. PICK e : e = Contents(m) /\ e = Contents(m)'
        BY <1>14, <1>15, <3>1, <3>3
      <4>2. Fits(m, e) /\ e \in Buckets
        BY <1>2, <1>15, <3>1, <4>1, ContentsType DEF BlocksInPlace, Kept
      <4>3. Fits(m, e)'
        BY <1>20, <4>2, FitsStill
      <4> QED  BY <4>1, <4>3, FitsAt
    <3> QED  BY <3>2, <3>3
  <2>2. (\A j \in 1 .. Len(stash) : stash[j].leaf = LeafOf(stash[j].addr))'
    <3>1. PICK s : s = stash /\ s = stash'
      BY <1>1
    <3>2. \A j \in 1 .. Len(s) : s[j].leaf = LeafOf(s[j].addr)
      BY <1>2, <3>1 DEF BlocksInPlace
    <3> QED  BY <1>2, <1>20, <3>1, <3>2, StashStill
  <2> QED  BY <2>1, <2>2 DEF BlocksInPlace
\* Every other address, and this one if its block is elsewhere.
<1>22. ASSUME NEW a \in Addr, OnTheWay(a)' = OnTheWay(a), Targets(c, a) = Targets(b, a)
       PROVE  Accounted(a)'
  <2>1. ASSUME NEW m \in Nodes
        PROVE  \/ Contents(m)' = NoBucket
               \/ /\ Contents(m) # NoBucket /\ Contents(m)' # NoBucket
                  /\ ValidCopies(Contents(m), m, a)' = ValidCopies(Contents(m), m, a)
    <3>1. CASE m # n
      <4>1. Contents(m)' = Contents(m)
        BY <1>14, <1>15, <3>1
      <4> QED  BY <4>1
    <3>2. CASE m = n /\ tree'[n] = c
      <4>1. ValidCopies(c, n, a) = ValidCopies(b, n, a)
        BY <1>16, <1>22, ValidCopiesFacts
      <4>2. Contents(n) = b /\ Contents(n)' = c
        BY <1>5, <1>10, <1>15, <3>2
      <4> HIDE DEF Contents
      <4> QED  BY <1>11, <1>17, <3>2, <4>1, <4>2
    <3> QED  BY <1>14, <1>15, <3>1, <3>2
  <2> QED  BY <1>1, <1>2, <1>20, <1>22, <2>1, AccountKept
<1>23. \A a : a # a0 => OnTheWay(a)' = OnTheWay(a)
  BY <1>1, <1>4 DEF OnTheWay
<1>24. ASSUME k \notin targets
       PROVE  Accounted(a0)' /\ Copies(a0)' # {}
  <2>1. Targets(b, a0) = {}
    BY <1>11, <1>24
  <2>2. targets \cap (1 .. k) = targets \cap (1 .. Len(picked))
    BY <1>8, <1>24
  <2>3. OnTheWay(a0)' = OnTheWay(a0)
    <3> DEFINE P == targets \cap (1 .. Len(picked))
    <3>1. \A j \in P : picked'[j] = picked[j]
      BY <1>13
    <3>2. {<<"way", 0, j, picked'[j]>> : j \in P} = {<<"way", 0, j, picked[j]>> : j \in P}
      <4> HIDE DEF P
      <4> QED  BY <3>1
    <3>3. targets \cap DOMAIN InFlight = P /\ targets' \cap DOMAIN InFlight' = P
      BY <1>1, <1>13, <2>2
    <3> HIDE DEF P
    <3>4. OnTheWay(a0) = {<<"way", 0, j, picked[j]>> : j \in P}
      BY <1>3, <1>4, <1>13, <3>3, XorFacts DEF OnTheWay
    <3>5. OnTheWay(a0)' = {<<"way", 0, j, picked'[j]>> : j \in P}
      BY <1>1, <1>3, <1>4, <1>13, <3>3, XorFacts DEF OnTheWay
    <3> QED  BY <3>2, <3>4, <3>5
  <2>4. Accounted(a0)'
    BY <1>8, <1>19, <1>22, <2>1, <2>3
  <2>5. InTree(a0) \subseteq InTree(a0)'
    <3>1. ASSUME NEW m \in Kept, NEW x \in ValidCopies(Contents(m), m, a0)
          PROVE  x \in InTree(a0)'
      <4>1. m \in Nodes /\ m # n
        BY <1>5, <1>10, <1>15, <2>1, <3>1, ValidCopiesFacts DEF Kept
      <4>2. Contents(m)' = Contents(m)
        BY <1>14, <1>15, <4>1
      <4>3. m \in Kept'
        BY <4>1, <4>2, <3>1 DEF Kept
      <4>4. x \in ValidCopies(Contents(m), m, a0)'
        BY <4>2
      <4> QED  BY <4>3, <4>4 DEF InTree
    <3> QED  BY <3>1 DEF InTree
  <2>6. Copies(a0) \subseteq Copies(a0)'
    BY <1>20, <2>3, <2>5 DEF Copies
  <2>7. Copies(a0) # {}
    BY <1>2, <1>3, <1>4 DEF BlockIsTaken
  <2> QED  BY <2>4, <2>6, <2>7
<1>25. ASSUME k \in targets
       PROVE  Accounted(a0)' /\ Copies(a0)' # {}
  <2>1. PICK i \in Targets(b, a0) : d = b.entries[i].data
    BY <1>11, <1>16, <1>25
  <2>2. PICK x : x = <<"tree", n, i, d>>
    OBVIOUS
  <2>3. x \in ValidCopies(b, n, a0) /\ Copies(a0) = {x} /\ x[4] = oracle[a0] /\ x[4] = d /\ x[1] = "tree" /\ x[2] = n
    BY <1>18, <2>1, <2>2, ValidCopiesFacts
  <2>4. InStash(a0) = {} /\ InHand(a0) = {} /\ OnTheWay(a0) = {} /\ InTree(a0) \subseteq {x}
    BY <2>3, CopiesApart DEF Copies
  <2>5. targets \cap (1 .. Len(picked)) = {}
    <3> SUFFICES ASSUME NEW j \in targets \cap (1 .. Len(picked)) PROVE FALSE
      OBVIOUS
    <3>1. <<"way", 0, j, InFlight[j]>> \in OnTheWay(a0)
      BY <1>3, <1>4, <1>13, XorFacts DEF OnTheWay
    <3> QED  BY <2>4, <3>1
  <2>6. targets \cap (1 .. k) = {k}
    BY <1>8, <1>9, <1>25, <2>5
  <2>7. OnTheWay(a0)' = {<<"way", 0, k, d>>}
    <3>1. OnTheWay(a0)' = {<<"way", 0, j, picked'[j]>> : j \in {k}}
      BY <1>1, <1>3, <1>4, <1>13, <2>6, XorFacts DEF OnTheWay
    <3> QED  BY <1>13, <3>1
  <2>8. InTree(a0)' = {}
    <3> SUFFICES ASSUME NEW m \in Kept', NEW y \in ValidCopies(Contents(m), m, a0)'
                 PROVE  FALSE
      BY DEF InTree
    <3>1. m \in Nodes /\ Contents(m)' = tree'[m] /\ tree'[m] # NoBucket
      BY <1>15 DEF Kept
    <3>2. PICK e : e = Contents(m)'
      OBVIOUS
    <3>3. y \in ValidCopies(e, m, a0)
      <4> HIDE DEF Contents
      <4> QED  BY <3>2 DEF ValidCopies, CopiesOf, ValidReals
    <3>4. m # n
      BY <1>14, <1>19, <3>1, <3>2, <3>3, ValidCopiesFacts
    <3>5. e = Contents(m) /\ m \in Kept
      BY <1>14, <1>15, <3>1, <3>2, <3>4 DEF Kept
    <3>6. y \in InTree(a0)
      BY <3>3, <3>5 DEF InTree
    <3>7. y[2] = m
      BY <3>3, CopiesApart
    <3> QED  BY <2>3, <2>4, <3>4, <3>6, <3>7
  <2>9. Copies(a0)' = {<<"way", 0, k, d>>}
    BY <1>20, <2>4, <2>7, <2>8 DEF Copies
  <2>10. <<"way", 0, k, d>>[4] = oracle'[a0]
    BY <1>1, <2>3
  <2>11. ~ Writing(a0)'
    BY <1>3, <1>8, <1>20, XorFacts
  <2> HIDE DEF k
  <2> QED  BY <2>9, <2>10, <2>11 DEF Accounted
<1>26. Accounted(a0)' /\ Copies(a0)' # {}
  BY <1>24, <1>25
<1>27. \A a \in Addr : Accounted(a)'
  BY <1>16, <1>22, <1>23, <1>26
<1>28. BlockIsTaken'
  <2>1. Copies(call.addr)' # {}
    BY <1>4, <1>26 DEF Copies, InStash, InHand, OnTheWay, InTree, ValidCopies, CopiesOf
  <2>2. ASSUME NEW j \in 1 .. TreeHeight + 1, Taken(j)'
        PROVE  tree'[Paths[oldLeaf][j]] = NoBucket \/ Targets(tree'[Paths[oldLeaf][j]], a0) = {}
    <3>1. j <= k
      BY <1>3, <1>13, <2>2 DEF Taken
    <3>2. CASE j = k
      BY <1>10, <1>14, <1>19, <3>2
    <3>3. CASE j # k
      <4>1. j <= Len(picked)
        BY <1>8, <3>1, <3>3
      <4>2. Taken(j)
        BY <4>1 DEF Taken
      <4>3. Paths[oldLeaf][j] # n /\ Paths[oldLeaf][j] \in Nodes
        <5> HIDE DEF k
        <5> QED  BY <1>8, <1>9, <1>10, <3>3, PathsFacts
      <4> QED  BY <1>2, <1>3, <1>4, <1>14, <4>2, <4>3 DEF BlockIsTaken
    <3> QED  BY <3>2, <3>3
  <2> QED  BY <1>1, <1>4, <2>1, <2>2 DEF BlockIsTaken
<1> QED  BY <1>21, <1>27, <1>28

LEMMA ReaderSettles ==
    ASSUME IInv, CallInv, CopiesInv, UNCHANGED <<clientVars, oracle, tree>>,
           req.cmd \in {"M", "B", "T", "S"}, req' = NoMsg, resp' = resp \/ conn = "up"
    PROVE  CopiesInv'
<1>1. ASSUME conn = "up"
      PROVE  cpc \notin {"init", "xor", "ack"}
  <2>1. InStep
    BY <1>1 DEF IInv, Conversation
  <2>2. req # NoMsg
    BY NoMsgFacts
  <2> QED  BY <2>1, <2>2 DEF InStep, Waiting
<1> QED  BY <1>1, RefusalSettles

LEMMA UpFacts ==
    ASSUME IInv, CallInv, conn = "up"
    PROVE  /\ req.cmd = "I" => cpc = "init" /\ resp = NoMsg
           /\ req.cmd = "X" => cpc = "xor" /\ resp = NoMsg
           /\ req.cmd = "W" => cpc = "ack" /\ resp = NoMsg /\ req.node = Head(writes)
<1>1. InStep
  BY DEF IInv, Conversation
<1>2. req.cmd = "I" => cpc = "init"
  BY <1>1 DEF CallInv, InStep
<1> QED  BY <1>1, <1>2, PendingFacts DEF InStep

LEMMA LoaderSettles ==
    ASSUME IInv, CallInv, CopiesInv, UNCHANGED <<clientVars, oracle>>, HandleInit \/ InitBucket \/ AckInit
    PROVE  CopiesInv'
<1>1. cpc' = cpc /\ failed' = failed /\ stash' = stash /\ writes' = writes /\ reads' = reads
  BY DEF clientVars
<1>2. req \in Requests /\ NumTreeNodes \in Nat
  BY Constants DEF IInv, TypeOK
<1>3. req.cmd = "I" /\ req.cmd # "none" /\ req # NoMsg
  BY NoMsgFacts DEF HandleInit, Command, InitBucket, AckInit, IInv, Conversation
<1>4. Accountable' => cpc = "init" /\ Accountable
  BY <1>1, <1>3 DEF Accountable, CallInv
<1>5. CASE req' = NoMsg /\ resp' = resp
  BY <1>3, <1>5, RefusalSettles
<1>6. req.buckets \in Seq(FreshBuckets) /\ Len(req.buckets) \in Nat /\ Len(req.buckets) <= NumTreeNodes
  BY <1>2, <1>3, RequestShapes
<1>7. \A n \in Nodes : n \in Nat /\ n < NumTreeNodes
  BY <1>2 DEF Nodes
<1>8. ASSUME req'.cmd = "I" \/ req' = NoMsg,
             cpc = "init" => \A n \in Nodes :
                IF req'.cmd = "I" /\ n >= NumTreeNodes - Len(req'.buckets)
                THEN Contents(n) = req'.buckets[n + Len(req'.buckets) - NumTreeNodes + 1]
                ELSE tree'[n] \in {Contents(n), NoBucket}
      PROVE  CopiesInv'
  <2>1. ASSUME cpc = "init", NEW n \in Nodes PROVE Contents(n)' \in {Contents(n), NoBucket}
    <3>1. Replaced' = {}
      BY <1>1, <2>1 DEF Replaced, Among, IInv, CallState
    <3>2. Contents(n)' = IF req'.cmd = "I" /\ n >= NumTreeNodes - Len(req'.buckets)
                         THEN req'.buckets[n + Len(req'.buckets) - NumTreeNodes + 1]
                         ELSE tree'[n]
      BY <1>1, <2>1, <3>1 DEF Contents
    <3> HIDE DEF Contents
    <3>3. PICK c : c = Contents(n)'
      OBVIOUS
    <3>4. c \in {Contents(n), NoBucket}
      BY <1>8, <2>1, <3>2, <3>3
    <3> QED  BY <3>3, <3>4
  <2>2. Accountable => cpc = "init"
    BY <1>3 DEF Accountable, CallInv
  <2> HIDE DEF Contents
  <2> QED  BY <1>4, <2>1, <2>2, ServerSettles
<1>9. CASE HandleInit /\ ~ (req' = NoMsg /\ resp' = resp)
  <2>1. Len(req.buckets) = NumTreeNodes /\ req' = req
    BY <1>9 DEF HandleInit, Consume
  <2>2. ASSUME cpc = "init", NEW n \in Nodes
        PROVE  /\ n >= NumTreeNodes - Len(req.buckets)
               /\ Contents(n) = req.buckets[n + Len(req.buckets) - NumTreeNodes + 1]
    <3>1. n >= NumTreeNodes - Len(req.buckets)
      BY <1>2, <1>7, <2>1
    <3> QED  BY <1>3, <2>2, <3>1, ContentsCases
  <2> HIDE DEF Contents
  <2> QED  BY <1>3, <1>8, <2>1, <2>2
<1>10. CASE InitBucket /\ ~ (req' = NoMsg /\ resp' = resp)
  <2> DEFINE L == Len(req.buckets)
             m == NumTreeNodes - L
  <2>1. /\ req.buckets # << >> /\ WriteBucketToDisk(m, Head(req.buckets))
        /\ req' = [cmd |-> "I", buckets |-> Tail(req.buckets)]
    BY <1>10 DEF InitBucket, Consume
  <2>2. L \in Nat \ {0} /\ L <= NumTreeNodes /\ Head(req.buckets) = req.buckets[1] /\ req.buckets[1] \in FreshBuckets
    BY <1>6, <2>1
  <2>3. /\ req'.cmd = "I" /\ req'.buckets = Tail(req.buckets) /\ Len(Tail(req.buckets)) = L - 1
        /\ \A k \in 1 .. L - 1 : Tail(req.buckets)[k] = req.buckets[k + 1]
    BY <1>6, <2>1
  <2>4. tree'[m] \in {req.buckets[1], NoBucket} /\ \A n \in Nodes : n # m => tree'[n] = tree[n]
    <3>1. tree \in [Nodes -> Buckets \cup {NoBucket}] /\ req.buckets[1] \in Buckets
      BY <2>2, FreshFacts DEF IInv, TypeOK
    <3>2. WriteBucketToDisk(m, req.buckets[1])
      BY <2>1, <2>2
    <3> HIDE DEF m
    <3> QED  BY <3>1, <3>2, WriteFacts
  <2> HIDE DEF L, Contents
  <2>5. ASSUME cpc = "init", NEW n \in Nodes
        PROVE  IF n >= NumTreeNodes - (L - 1)
               THEN Contents(n) = Tail(req.buckets)[n + (L - 1) - NumTreeNodes + 1]
               ELSE tree'[n] \in {Contents(n), NoBucket}
    <3>1. n \in Nat /\ n < NumTreeNodes /\ NumTreeNodes \in Nat /\ m = NumTreeNodes - L
      BY <1>2, <1>7
    <3>2. Contents(n) = IF n >= NumTreeNodes - L THEN req.buckets[n + L - NumTreeNodes + 1] ELSE tree[n]
      BY <1>3, <2>5, ContentsCases DEF L
    <3>3. CASE n >= NumTreeNodes - (L - 1)
      <4> DEFINE k == n + (L - 1) - NumTreeNodes + 1
      <4>1. k \in 1 .. L - 1 /\ k + 1 = n + L - NumTreeNodes + 1 /\ n >= NumTreeNodes - L
        BY <2>2, <3>1, <3>3
      <4>2. Tail(req.buckets)[k] = req.buckets[k + 1]
        BY <2>3, <4>1
      <4>3. Contents(n) = req.buckets[k + 1]
        BY <3>2, <4>1
      <4> QED  BY <3>3, <4>2, <4>3
    <3>4. CASE n = m
      <4>1. n >= NumTreeNodes - L /\ n + L - NumTreeNodes + 1 = 1 /\ ~ (n >= NumTreeNodes - (L - 1))
        BY <2>2, <3>1, <3>4
      <4>2. Contents(n) = req.buckets[1]
        BY <3>2, <4>1
      <4> QED  BY <2>4, <3>4, <4>1, <4>2
    <3>5. CASE ~ (n >= NumTreeNodes - (L - 1)) /\ n # m
      <4>1. ~ (n >= NumTreeNodes - L)
        BY <2>2, <3>1, <3>5
      <4> QED  BY <2>4, <3>2, <3>5, <4>1
    <3> QED  BY <3>3, <3>4, <3>5
  <2> QED  BY <1>8, <2>3, <2>5
<1>11. CASE AckInit /\ ~ (req' = NoMsg /\ resp' = resp)
  <2>1. req.buckets = << >> /\ req' = NoMsg /\ tree' = tree
    BY <1>11 DEF AckInit, Answer, Consume
  <2>2. Len(req.buckets) = 0 /\ req'.cmd # "I"
    BY <2>1, NoMsgFacts
  <2>3. ASSUME cpc = "init", NEW n \in Nodes PROVE Contents(n) = tree[n]
    <3>1. ~ (n >= NumTreeNodes - Len(req.buckets))
      BY <1>2, <1>7, <2>2
    <3> QED  BY <1>3, <2>3, <3>1, ContentsCases
  <2> HIDE DEF Contents
  <2> QED  BY <1>8, <2>1, <2>2, <2>3
<1> QED  BY <1>5, <1>9, <1>10, <1>11

LEMMA WriterSettles ==
    ASSUME IInv, CallInv, CopiesInv, UNCHANGED <<clientVars, oracle>>, HandleWriteBucket
    PROVE  CopiesInv'
<1>1. cpc' = cpc /\ failed' = failed /\ stash' = stash /\ writes' = writes /\ reads' = reads
  BY DEF clientVars
<1>2. req.cmd = "W" /\ req.cmd # "none" /\ req # NoMsg /\ req' = NoMsg /\ req'.cmd # "W" /\ req.bucket \in Buckets
  BY NoMsgFacts, RequestShapes, FreshFacts DEF HandleWriteBucket, Command, Answer, Consume, IInv, TypeOK
<1>3. CASE resp' = resp
  BY <1>2, <1>3, RefusalSettles
<1>4. CASE resp' # resp
  <2>1. conn = "up" /\ WriteBucketToDisk(req.node, req.bucket)
    BY <1>4 DEF HandleWriteBucket, Answer, SendReply
  <2>2. cpc = "ack" /\ req.node = Head(writes)
    BY <1>2, <2>1, UpFacts
  <2>3. tree'[req.node] \in {req.bucket, NoBucket} /\ \A n \in Nodes : n # req.node => tree'[n] = tree[n]
    BY <1>2, <2>1, WriteFacts DEF IInv, TypeOK
  <2>4. Replaced' = Replaced
    BY <1>1 DEF Replaced, Among
  <2>5. ASSUME NEW n \in Nodes PROVE Contents(n)' \in {Contents(n), NoBucket}
    <3>1. CASE n \in Replaced
      <4>1. Contents(n) = ResetWithBlocks(<< >>, << >>)
        BY <3>1, ContentsCases
      <4>2. Contents(n)' = ResetWithBlocks(<< >>, << >>)
        BY <1>1, <1>2, <2>2, <2>4, <3>1 DEF Contents
      <4> HIDE DEF Contents
      <4> QED  BY <4>1, <4>2
    <3>2. CASE n \notin Replaced
      <4>1. Contents(n)' = tree'[n]
        BY <1>1, <1>2, <2>2, <2>4, <3>2 DEF Contents
      <4>2. Contents(n) = IF n = Head(writes) THEN req.bucket ELSE tree[n]
        BY <1>2, <2>2, <3>2, ContentsCases
      <4> HIDE DEF Contents
      <4> QED  BY <2>2, <2>3, <4>1, <4>2
    <3> QED  BY <3>1, <3>2
  <2>6. Accountable' => Accountable
    BY <1>1, <1>2 DEF Accountable
  <2> HIDE DEF Contents
  <2> QED  BY <2>2, <2>5, <2>6, ServerSettles
<1> QED  BY <1>3, <1>4

LEMMA AnswerSettles ==
    ASSUME IInv, CallInv, CopiesInv, UNCHANGED <<clientVars, oracle>>, AnswerXor
    PROVE  CopiesInv'
<1>1. cpc' = cpc /\ failed' = failed /\ stash' = stash /\ writes' = writes /\ reads' = reads
  BY DEF clientVars
<1>2. /\ req.cmd = "X" /\ req.cmd # "none" /\ req # NoMsg /\ req' = NoMsg /\ req'.cmd # "X"
      /\ tree' = tree /\ Len(picked) = TreeHeight + 1
  BY NoMsgFacts DEF AnswerXor, Answer, Consume, IInv, Conversation
<1>3. CASE resp' = resp
  BY <1>2, <1>3, RefusalSettles
<1>4. CASE resp' # resp
  <2>1. conn = "up" /\ resp' = [cmd |-> "xor", slots |-> picked]
    BY <1>4 DEF AnswerXor, Answer, SendReply
  <2>2. cpc = "xor" /\ resp = NoMsg /\ resp.cmd = "none" /\ resp'.cmd = "xor" /\ resp'.slots = picked
    BY <1>2, <2>1, UpFacts, NoMsgFacts
  <2>3. InFlight' = InFlight
    BY <1>1, <2>2 DEF InFlight
  <2>4. \A n \in Nodes : Contents(n)' = Contents(n)
    BY <1>1, <1>2, <2>2 DEF Contents, Replaced, Among
  <2>5. Accountable' => Accountable
    BY <1>1, <1>2 DEF Accountable
  <2>6. \A k \in 1 .. TreeHeight + 1 : Taken(k)
    BY <1>2, Constants DEF Taken
  <2> QED  BY <1>2, <2>3, <2>4, <2>5, <2>6, ServerSettles
<1> QED  BY <1>3, <1>4

LEMMA ServerCopies ==
    ASSUME IInv, CallInv, CopiesInv, ServerNext
    PROVE  CopiesInv'
<1>1. UNCHANGED <<clientVars, oracle>>
  BY DEF ServerNext
<1>2. CASE StartHandleRequests \/ Stop \/ DestroyServer
  BY <1>1, <1>2, FrameSettles DEF StartHandleRequests, Stop, DestroyServer
<1>3. CASE HandleInit \/ InitBucket \/ AckInit
  BY <1>1, <1>3, LoaderSettles
<1>4. CASE HandleReadPathMetadata \/ HandleReadBucket \/ HandleReadBucketCount \/ HandleReadStats
  <2>1. req.cmd \in {"M", "B", "T", "S"}
    BY <1>4 DEF HandleReadPathMetadata, HandleReadBucket, HandleReadBucketCount, HandleReadStats, Command
  <2>2. req' = NoMsg /\ (resp' = resp \/ conn = "up") /\ tree' = tree
    BY <1>4 DEF HandleReadPathMetadata, HandleReadBucket, HandleReadBucketCount, HandleReadStats,
                Answer, Consume, SendReply
  <2> QED  BY <1>1, <2>1, <2>2, ReaderSettles
<1>5. CASE HandleXorPathSlots
  <2>1. req.cmd = "X" /\ req.cmd # "none" /\ tree' = tree /\ resp' = resp
    BY <1>5 DEF HandleXorPathSlots, Command
  <2>2. picked' = picked
    BY <1>5 DEF HandleXorPathSlots, Command, IInv, Conversation
  <2>3. req' = req \/ req' = NoMsg
    BY <1>5 DEF HandleXorPathSlots, Consume
  <2> QED  BY <1>1, <2>1, <2>2, <2>3, FrameSettles, RefusalSettles
<1>6. CASE XorSlot
  <2>1. PICK n, slot : n = Paths[req.leaf][Len(picked) + 1] /\ slot = req.offsets[Len(picked) + 1]
    OBVIOUS
  <2>2. CASE /\ SlotIsValid(n, slot) /\ WriteBucketToDisk(n, Invalidate(tree[n], slot))
             /\ picked' = Append(picked, SlotData(tree[n], slot)) /\ UNCHANGED <<spc, running, req>>
    BY <1>1, <1>6, <2>1, <2>2, SlotSettles DEF XorSlot
  <2>3. CASE Consume
    <3>1. req.cmd = "X" /\ req.cmd # "none" /\ req' = NoMsg /\ resp' = resp
      BY <1>6, <2>3 DEF XorSlot, Consume, IInv, Conversation
    <3> QED  BY <1>1, <3>1, RefusalSettles
  <2> QED  BY <1>6, <2>1, <2>2, <2>3 DEF XorSlot
<1>7. CASE AnswerXor
  BY <1>1, <1>7, AnswerSettles
<1>8. CASE HandleWriteBucket
  BY <1>1, <1>8, WriterSettles
<1>9. CASE HandleQuit \/ ServerRecvThrows
  <2>1. req' = NoMsg /\ resp' = resp /\ tree' = tree /\ picked' = picked
    BY <1>9 DEF HandleQuit, ServerRecvThrows, Consume
  <2>2. CASE req.cmd # "none"
    BY <1>1, <2>1, <2>2, RefusalSettles
  <2>3. CASE req.cmd = "none"
    <3>1. req = NoMsg
      BY <2>3, RequestShapes DEF IInv, TypeOK
    <3> QED  BY <1>1, <2>1, <3>1, FrameSettles
  <2> QED  BY <2>2, <2>3
<1> QED  BY <1>2, <1>3, <1>4, <1>5, <1>6, <1>7, <1>8, <1>9 DEF ServerNext, ServerStep
-----------------------------------------------------------------------------
\* The buckets that may hold a block with a leaf are those of its path.
LEMMA ResidesOnPath ==
    ASSUME NEW n \in Nodes, NEW leaf \in Leaves, ResidesIn[n][leaf]
    PROVE  \E k \in 1 .. TreeHeight + 1 : n = Paths[leaf][k]
<1>1. GetBucketIndex(leaf, GetNodeLevel(n)) = n
  <2>1. ResidesIn[n][leaf] = IsBucketOnLeafPath(n, leaf)
    BY Zenon DEF ResidesIn
  <2> QED  BY <2>1, Zenon DEF IsBucketOnLeafPath
<1>2. PICK l : l = GetNodeLevel(n)
  OBVIOUS
<1>3. l \in Levels /\ TreeHeight \in Nat /\ l \in Nat /\ l <= TreeHeight
  <2>1. l \in Levels /\ TreeHeight \in Nat
    BY <1>2, ClimbReachesRoot, TreeHeightAssumption
  <2> QED  BY <2>1 DEF Levels
<1>4. PICK k : k = l + 1
  OBVIOUS
<1>5. k \in 1 .. TreeHeight + 1 /\ k - 1 = l
  BY <1>3, <1>4
<1>6. Paths[leaf][k] = GetBucketIndex(leaf, k - 1)
  BY <1>5 DEF Paths, PathFromRoot
<1> QED  BY <1>1, <1>2, <1>5, <1>6
-----------------------------------------------------------------------------
\* The steps of the client: those that move no block.
LEMMA EndSettles == ~ Accountable' => CopiesInv'
BY DEF CopiesInv

LEMMA QuietSettles ==
    ASSUME IInv, CopiesInv, UNCHANGED <<tree, stash, oracle>>,
           InFlight = << >>, InFlight' = << >>, block = NoBlock, block' = NoBlock, cpc' # "xor",
           Accountable' => /\ Accountable
                           /\ \A a \in Addr : LeafOf(a)' = LeafOf(a)
                           /\ \A n \in Nodes : Contents(n)' = Contents(n)
    PROVE  CopiesInv'
<1> SUFFICES ASSUME Accountable'
             PROVE  BlocksInPlace' /\ (\A a \in Addr : Accounted(a)') /\ BlockIsTaken'
  BY DEF CopiesInv
<1>1. /\ Accountable /\ BlocksInPlace /\ (\A a \in Addr : Accounted(a)) /\ stash \in Seq(Block)
  BY StandingFacts DEF CopiesInv
<1>2. \A a \in Addr : block.addr # a /\ block'.addr # a
  BY NoCallFacts DEF Addr
<1>3. \A a \in Addr : /\ InHand(a)' = InHand(a) /\ OnTheWay(a)' = OnTheWay(a)
                      /\ (Writing(a)' <=> Writing(a))
  <2>1. \A a \in Addr : /\ InHand(a)' = InHand(a)
                        /\ (Writing(a)' <=> Writing(a))
    BY <1>2 DEF InHand, Writing
  <2>2. DOMAIN InFlight = {} /\ DOMAIN InFlight' = {}
    OBVIOUS
  <2>3. \A a \in Addr : OnTheWay(a) = {} /\ OnTheWay(a)' = {}
    BY <2>2 DEF OnTheWay
  <2> QED  BY <2>1, <2>3
<1>4. BlocksInPlace' /\ \A a \in Addr : Accounted(a)'
  <2>1. \A n \in Nodes : Contents(n)' \in {Contents(n), NoBucket}
    OBVIOUS
  <2> QED  BY <1>1, <1>3, <2>1, Settled
<1>5. BlockIsTaken'
  BY DEF BlockIsTaken
<1> QED  BY <1>4, <1>5

LEMMA ContentsStill ==
    ASSUME tree' = tree, Replaced' = Replaced, cpc \notin {"ack", "init"}, cpc' \notin {"ack", "init"}
    PROVE  \A n \in Nodes : Contents(n)' = Contents(n)
BY DEF Contents

LEMMA LeavesStill ==
    ASSUME posMap' = posMap, cpc \notin {"metadata", "xor"}, cpc' \notin {"metadata", "xor"}
    PROVE  \A a : LeafOf(a)' = LeafOf(a)
BY DEF LeafOf

LEMMA NothingMoves ==
    ASSUME IInv, CopiesInv, UNCHANGED <<serverVars, oracle>>,
           \/ FetchServerStats \/ StatsFetched \/ Return \/ RequestBucket \/ RequestCount
           \/ EarlyReshuffle
    PROVE  CopiesInv'
<1>1. tree' = tree /\ stash' = stash /\ oracle' = oracle /\ posMap' = posMap /\ failed' = failed
  BY DEF serverVars, FetchServerStats, StatsFetched, Return, RequestBucket, RequestCount, EarlyReshuffle
<1>2. /\ cpc \in {"idle", "stats", "work", "count"} /\ cpc' \in {"idle", "stats", "work", "bucket", "count"}
      /\ block' = block \/ block' = NoBlock
  BY DEF FetchServerStats, StatsFetched, Return, RequestBucket, RequestCount, EarlyReshuffle, EndOfCall
<1>3. block = NoBlock /\ InFlight = << >> /\ InFlight' = << >>
  BY <1>2 DEF IInv, CallState, InFlight
<1>4. Replaced' = Replaced
  <2>1. CASE reads' = reads /\ writes' = writes
    BY <1>2, <2>1 DEF Replaced, Among
  <2>2. CASE reads = << >> /\ writes = << >> /\ reads' = writes'
    BY <1>2, <2>2 DEF Replaced, Among
  <2>3. cpc = "count" => reads = << >> /\ writes = << >>
    BY DEF IInv, CallState
  <2>4. EarlyReshuffle => cpc = "count" /\ (reads' = writes' \/ (reads' = reads /\ writes' = writes))
    BY DEF EarlyReshuffle
  <2> HIDE DEF Replaced
  <2>5. EarlyReshuffle => Replaced' = Replaced
    BY <2>1, <2>2, <2>3, <2>4
  <2> QED  BY <2>1, <2>2, <2>5 DEF FetchServerStats, StatsFetched, Return, RequestBucket, RequestCount, EndOfCall
<1>5. Accountable' => Accountable
  BY <1>1, <1>2 DEF Accountable
<1> QED  BY <1>1, <1>2, <1>3, <1>4, <1>5, ContentsStill, LeavesStill, QuietSettles

LEMMA EndsSettle ==
    ASSUME IInv, CopiesInv, UNCHANGED <<serverVars, oracle>>, ConstructorThrows \/ DestroyClient \/ RecvThrows
    PROVE  CopiesInv'
<1>1. cpc' = "destroyed" \/ failed'
  BY DEF ConstructorThrows, DestroyClient, RecvThrows, Throws
<1> QED  BY <1>1, EndSettles DEF Accountable

LEMMA AccessSettles ==
    ASSUME IInv, CopiesInv, UNCHANGED <<serverVars, oracle>>, NEW c \in Calls, Access(c)
    PROVE  CopiesInv'
<1>1. /\ tree' = tree /\ stash' = stash /\ oracle' = oracle /\ failed' = failed /\ cpc = "idle" /\ cpc' = "metadata"
      /\ call' = c /\ oldLeaf' = posMap[c.addr] /\ block' = block /\ reads' = reads /\ writes' = writes
  BY DEF serverVars, Access
<1>2. PICK leaf \in Leaves : posMap' = [posMap EXCEPT ![c.addr] = leaf]
  BY DEF Access
<1>3. posMap \in [Addr -> Leaves] /\ c.addr \in Addr
  BY DEF IInv, TypeOK, Calls
<1>4. block = NoBlock /\ InFlight = << >> /\ InFlight' = << >>
  BY <1>1 DEF IInv, CallState, InFlight
<1>5. Replaced' = Replaced
  BY <1>1 DEF Replaced, Among
<1>6. \A a \in Addr : LeafOf(a)' = LeafOf(a)
  <2>1. \A a \in Addr : a # c.addr => posMap'[a] = posMap[a]
    BY <1>2, <1>3
  <2> QED  BY <1>1, <1>3, <2>1 DEF LeafOf
<1>7. Accountable' => Accountable
  BY <1>1 DEF Accountable
<1> QED  BY <1>1, <1>4, <1>5, <1>6, <1>7, ContentsStill, QuietSettles

LEMMA ConstructedSettles ==
    ASSUME IInv, CopiesInv, UNCHANGED <<serverVars, oracle>>, Constructed
    PROVE  CopiesInv'
<1>1. /\ tree' = tree /\ stash' = stash /\ oracle' = oracle /\ failed' = failed /\ cpc = "init" /\ cpc' = "idle"
      /\ posMap' = posMap /\ block' = block /\ reads' = reads /\ writes' = writes /\ resp.cmd = "ack"
  BY DEF serverVars, Constructed, ExpectAck
<1>2. req = NoMsg /\ req.cmd = "none"
  BY <1>1, RepliedFacts, NoMsgFacts
<1>3. block = NoBlock /\ InFlight = << >> /\ InFlight' = << >>
  BY <1>1 DEF IInv, CallState, InFlight
<1>4. \A n \in Nodes : Contents(n) = tree[n]
  BY <1>1, <1>2, ContentsCases
<1>5. \A n \in Nodes : Contents(n)' = tree'[n]
  <2>1. Replaced' = {}
    BY <1>1 DEF Replaced, Among, IInv, CallState
  <2> QED  BY <1>1, <2>1 DEF Contents
<1>6. Accountable' => Accountable
  BY <1>1, NoMsgFacts DEF Accountable
<1> HIDE DEF Contents
<1> QED  BY <1>1, <1>3, <1>4, <1>5, <1>6, LeavesStill, QuietSettles

\* The bucket of a write that was acknowledged is the server's from here on.
LEMMA WrittenSettles ==
    ASSUME IInv, LoopState, CopiesInv, UNCHANGED <<serverVars, oracle>>, BucketWritten
    PROVE  CopiesInv'
<1>1. /\ tree' = tree /\ stash' = stash /\ oracle' = oracle /\ failed' = failed /\ cpc = "ack" /\ cpc' = "work"
      /\ posMap' = posMap /\ block' = block /\ reads' = reads /\ writes' = Tail(writes) /\ resp.cmd = "ack"
  BY DEF serverVars, BucketWritten, ExpectAck
<1>2. req = NoMsg /\ req.cmd = "none"
  BY <1>1, RepliedFacts, NoMsgFacts
<1>3. block = NoBlock /\ InFlight = << >> /\ InFlight' = << >>
  BY <1>1 DEF IInv, CallState, InFlight
<1>4. /\ writes \in Seq(Nodes) /\ writes # << >> /\ reads = << >> /\ Distinct(writes)
  BY <1>1 DEF IInv, CallState, TypeOK, LoopState
<1>5. Replaced' = Replaced
  <2>1. ASSUME NEW n
        PROVE  Among(n, Tail(writes)) <=> Among(n, writes) /\ n # Head(writes)
    <3>1. /\ Len(writes) \in Nat \ {0} /\ Head(writes) = writes[1] /\ Len(Tail(writes)) = Len(writes) - 1
          /\ \A k \in 1 .. Len(writes) - 1 : Tail(writes)[k] = writes[k + 1]
      BY <1>4
    <3>2. ASSUME NEW k \in 1 .. Len(writes), writes[k] = n, n # Head(writes)
          PROVE  Among(n, Tail(writes))
      <4>1. k # 1 /\ k - 1 \in 1 .. Len(writes) - 1 /\ (k - 1) + 1 = k
        BY <3>1, <3>2
      <4>2. Tail(writes)[k - 1] = n
        BY <3>1, <3>2, <4>1
      <4> QED  BY <3>1, <4>1, <4>2 DEF Among
    <3>3. ASSUME NEW k \in 1 .. Len(writes) - 1, Tail(writes)[k] = n
          PROVE  Among(n, writes) /\ n # Head(writes)
      <4>1. k + 1 \in 1 .. Len(writes) /\ 1 \in 1 .. Len(writes) /\ k + 1 # 1 /\ writes[k + 1] = n
        BY <3>1, <3>3
      <4>2. writes[k + 1] # writes[1]
        BY <1>4, <4>1 DEF Distinct
      <4> QED  BY <3>1, <4>1, <4>2 DEF Among
    <3> QED  BY <3>1, <3>2, <3>3 DEF Among
  <2>2. \A n : ~ Among(n, reads)
    BY <1>4 DEF Among
  <2> QED  BY <1>1, <2>1, <2>2 DEF Replaced
<1>6. \A n \in Nodes : Contents(n)' = Contents(n)
  <2>1. ASSUME NEW n \in Nodes PROVE Contents(n)' = Contents(n)
    <3>1. Contents(n)' = IF n \in Replaced THEN ResetWithBlocks(<< >>, << >>) ELSE tree[n]
      BY <1>1, <1>5 DEF Contents
    <3>2. Contents(n) = IF n \in Replaced THEN ResetWithBlocks(<< >>, << >>) ELSE tree[n]
      BY <1>1, <1>2, ContentsCases
    <3> HIDE DEF Contents
    <3> QED  BY <3>1, <3>2
  <2> QED  BY <2>1
<1>7. Accountable' => Accountable
  BY <1>1, NoMsgFacts DEF Accountable
<1> HIDE DEF Contents
<1> QED  BY <1>1, <1>3, <1>6, <1>7, LeavesStill, QuietSettles

\* A block that is asked for is somewhere: none of the buckets of its path is lost.
LEMMA SelectSettles ==
    ASSUME IInv, CopiesInv, UNCHANGED <<serverVars, oracle>>, SelectOffsets
    PROVE  CopiesInv'
<1>1. CASE failed'
  BY <1>1, EndSettles DEF Accountable
<1>2. CASE ~ failed'
  <2> SUFFICES ASSUME Accountable'
               PROVE  BlocksInPlace' /\ (\A a \in Addr : Accounted(a)') /\ BlockIsTaken'
    BY DEF CopiesInv
  <2>1. /\ cpc = "metadata" /\ cpc' = "xor" /\ resp.cmd = "metadata" /\ resp' = NoMsg
        /\ call' = call /\ oldLeaf' = oldLeaf /\ block' = block /\ reads' = reads /\ writes' = writes
        /\ posMap' = posMap /\ stash' = stash /\ oracle' = oracle /\ tree' = tree /\ failed' = failed
        /\ picked' = picked
    BY <1>2 DEF SelectOffsets, Throws, serverVars
  <2>2. req = NoMsg /\ picked = << >>
    BY <2>1, RepliedFacts
  <2>3. req'.cmd = "X"
    <3>1. \E offsets : SendRequest([cmd |-> "X", leaf |-> oldLeaf, offsets |-> offsets])
      BY <1>2 DEF SelectOffsets, Throws
    <3>2. req'.cmd = "X" \/ req' = NoMsg
      BY <2>2, <3>1 DEF SendRequest
    <3> QED  BY <2>1, <3>2 DEF Accountable
  <2>4. /\ Accountable /\ BlocksInPlace /\ (\A a \in Addr : Accounted(a)) /\ stash \in Seq(Block)
    <3>1. Accountable
      BY <2>1 DEF Accountable
    <3> QED  BY <3>1, StandingFacts DEF CopiesInv
  <2>5. block = NoBlock /\ InFlight = << >> /\ InFlight' = << >> /\ call \in Calls /\ call.addr \in Addr /\ oldLeaf \in Leaves
    BY <2>1, <2>2, NoMsgFacts DEF IInv, CallState, InFlight, Calls, TypeOK
  <2>6. \A a \in Addr : LeafOf(a)' = LeafOf(a)
    BY <2>1 DEF LeafOf
  <2>7. \A n \in Nodes : Contents(n)' = Contents(n) /\ Contents(n) = tree[n]
    <3>1. Replaced = {} /\ Replaced' = {}
      BY <2>1 DEF Replaced, Among, IInv, CallState
    <3> QED  BY <2>1, <3>1 DEF Contents
  <2>8. \A a \in Addr : /\ InHand(a)' = InHand(a) /\ OnTheWay(a)' = OnTheWay(a)
                        /\ (Writing(a)' <=> Writing(a)) /\ ~ Writing(a)
    <3>1. \A a \in Addr : block.addr # a
      BY <2>5, NoCallFacts DEF Addr
    <3>2. DOMAIN InFlight = {} /\ DOMAIN InFlight' = {}
      BY <2>5
    <3>3. \A a \in Addr : OnTheWay(a) = {} /\ OnTheWay(a)' = {}
      BY <3>2 DEF OnTheWay
    <3> QED  BY <2>1, <3>1, <3>3 DEF InHand, Writing
  <2>9. BlocksInPlace' /\ \A a \in Addr : Accounted(a)'
    <3> HIDE DEF Contents
    <3>1. \A n \in Nodes : Contents(n)' \in {Contents(n), NoBucket}
      BY <2>7
    <3> QED  BY <2>1, <2>4, <2>6, <2>8, <3>1, Settled
  <2>10. PICK a0 : a0 = call.addr /\ a0 = call'.addr /\ a0 \in Addr
    BY <2>1, <2>5
  <2>11. Copies(a0)' # {}
    <3>1. ~ OnLostBucket(a0)
      <4> SUFFICES ASSUME NEW n \in Nodes \ Kept, ResidesIn[n][LeafOf(a0)]
                   PROVE  FALSE
        BY DEF OnLostBucket
      <4>1. LeafOf(a0) = oldLeaf
        BY <2>1, <2>10 DEF LeafOf
      <4>2. PICK k \in 1 .. TreeHeight + 1 : n = Paths[oldLeaf][k]
        BY <2>5, <4>1, ResidesOnPath
      <4>3. tree[n] # NoBucket
        BY <2>1, <4>2 DEF IInv, RepliesAreTrue
      <4> HIDE DEF Contents
      <4> QED  BY <2>7, <4>3 DEF Kept
    <3>2. Copies(a0) # {}
      BY <2>4, <2>8, <2>10, <3>1 DEF Accounted
    <3>3. InStash(a0)' = InStash(a0)
      BY <2>1 DEF InStash
    <3>4. InTree(a0)' = InTree(a0)
      <4> HIDE DEF Contents
      <4>1. Kept' = Kept
        BY <2>7 DEF Kept
      <4>2. \A n \in Kept : ValidCopies(Contents(n), n, a0)' = ValidCopies(Contents(n), n, a0)
        BY <2>7 DEF Kept
      <4> QED  BY <4>1, <4>2 DEF InTree
    <3> QED  BY <2>8, <2>10, <3>2, <3>3, <3>4 DEF Copies
  <2>12. BlockIsTaken'
    <3>1. Copies(call.addr)' # {}
      BY <2>10, <2>11 DEF Copies, InStash, InHand, OnTheWay, InTree, ValidCopies, CopiesOf
    <3>2. \A k \in 1 .. TreeHeight + 1 : ~ Taken(k)'
      BY <2>1, <2>2, <2>3 DEF Taken
    <3> QED  BY <3>1, <3>2 DEF BlockIsTaken
  <2> QED  BY <2>9, <2>12
<1> QED  BY <1>1, <1>2
-----------------------------------------------------------------------------
\* The steps of the client that move blocks.
LEMMA FitsUnder ==
    ASSUME NEW n, NEW b, Fits(n, b),
           \A i \in ValidReals(b) : LeafOf(b.entries[i].addr)' = LeafOf(b.entries[i].addr),
           b = Contents(n)'
    PROVE  Fits(n, Contents(n))'
<1>1. \A i \in ValidReals(b) : /\ ResidesIn[n][b.entries[i].leaf]
                               /\ b.entries[i].leaf = LeafOf(b.entries[i].addr)'
  BY DEF Fits
<1>2. Fits(n, b)'
  BY <1>1 DEF Fits
<1> QED  BY <1>2, FitsAt

LEMMA StashUnder ==
    ASSUME NEW s, stash' = s, \A k \in 1 .. Len(s) : s[k].leaf = LeafOf(s[k].addr)'
    PROVE  (\A k \in 1 .. Len(stash) : stash[k].leaf = LeafOf(stash[k].addr))'
BY DEF LeafOf

LEMMA StashPlaces ==
    /\ \A a : InStash(a) = Places(stash, At(stash, a), "stash", 0)
    /\ \A s, a : stash' = s => InStash(a)' = Places(s, At(s, a), "stash", 0)
<1>1. \A a : InStash(a) = Places(stash, At(stash, a), "stash", 0)
  BY AllAt DEF InStash
<1>2. ASSUME NEW s, NEW a, stash' = s PROVE InStash(a)' = Places(s, At(s, a), "stash", 0)
  <2>1. CopiesOf(s, 1 .. Len(s), "stash", 0, a) = Places(s, At(s, a), "stash", 0)
    BY AllAt
  <2>2. InStash(a)' = CopiesOf(s, 1 .. Len(s), "stash", 0, a)
    BY <1>2 DEF InStash, CopiesOf
  <2> QED  BY <2>1, <2>2
<1> QED  BY <1>1, <1>2

LEMMA CarriedSame ==
    ASSUME NEW s, NEW K
    PROVE  Carried(s, K, s, K)
BY DEF Carried

\* Once the slots have been read the block is not in the tree, and its one copy
\* is what the client makes of the answer.
LEMMA BlockHasLeft ==
    ASSUME IInv, Accountable, BlocksInPlace, BlockIsTaken, Accounted(call.addr), cpc = "xor", resp.cmd = "xor"
    PROVE  /\ InTree(call.addr) = {} /\ targets \subseteq 1 .. TreeHeight + 1
           /\ targets # {} /\ Cardinality(targets) <= 1 => Decrypted(resp.slots) = oracle[call.addr]
           /\ targets = {} =>
                \E k : At(stash, call.addr) = {k} /\ stash[k].data = oracle[call.addr]
<1>1. PICK a0 : a0 = call.addr
  OBVIOUS
<1>2. /\ a0 \in Addr /\ oldLeaf \in Leaves /\ InHand(a0) = {} /\ call # NoCall
      /\ \A n \in Nodes : Contents(n) = tree[n]
  BY <1>1, XorFacts
<1>3. req = NoMsg /\ req.cmd = "none"
  BY RepliedFacts, NoMsgFacts
<1>4. /\ resp.slots \in Seq(Data) /\ Len(resp.slots) = TreeHeight + 1 /\ Dummies(resp.slots)
      /\ targets \subseteq 1 .. TreeHeight + 1 /\ InFlight = resp.slots
  BY DEF IInv, SlotsAsAsked, TypeOK, InFlight
<1>5. InTree(a0) = {}
  <2> SUFFICES ASSUME NEW n \in Kept, NEW x \in ValidCopies(Contents(n), n, a0)
               PROVE  FALSE
    BY DEF InTree
  <2>1. n \in Nodes /\ Contents(n) = tree[n] /\ tree[n] # NoBucket
    BY <1>2 DEF Kept
  <2>2. PICK i \in Targets(tree[n], a0) : TRUE
    BY <2>1, ValidCopiesFacts
  <2>3. i \in ValidReals(tree[n]) /\ tree[n].entries[i].addr = a0
    BY DEF Targets
  <2>4. ResidesIn[n][LeafOf(a0)]
    BY <2>1, <2>3 DEF BlocksInPlace, Fits
  <2>5. LeafOf(a0) = oldLeaf
    BY <1>1 DEF LeafOf
  <2>6. PICK k \in 1 .. TreeHeight + 1 : n = Paths[oldLeaf][k]
    BY <1>2, <2>1, <2>4, <2>5, ResidesOnPath
  <2>7. Targets(tree[n], a0) = {}
    BY <1>1, <1>3, <2>1, <2>6 DEF BlockIsTaken, Taken
  <2> QED  BY <2>2, <2>7
<1>6. PICK c : Copies(a0) = {c} /\ c[4] = oracle[a0]
  BY <1>1 DEF BlockIsTaken, Accounted
<1>7. InStash(a0) \cup OnTheWay(a0) = {c}
  BY <1>2, <1>5, <1>6 DEF Copies
<1>8. OnTheWay(a0) = {<<"way", 0, k, resp.slots[k]>> : k \in targets}
  <2>1. targets \cap DOMAIN resp.slots = targets
    <3>1. DOMAIN resp.slots = 1 .. Len(resp.slots)
      BY <1>4
    <3> QED  BY <1>4, <3>1, Zenon
  <2> QED  BY <1>1, <1>2, <1>4, <2>1 DEF OnTheWay
<1>9. ASSUME targets # {}, Cardinality(targets) <= 1
      PROVE  Decrypted(resp.slots) = oracle[a0]
  <2>1. PICK k \in targets : targets = {k} /\ Decrypted(resp.slots) = resp.slots[k]
    BY <1>4, <1>9, DecryptedIsData
  <2>2. <<"way", 0, k, resp.slots[k]>> = c
    BY <1>7, <1>8
  <2>3. c[4] = resp.slots[k]
    BY <2>2
  <2> QED  BY <1>6, <2>1, <2>3
<1>10. ASSUME targets = {}
       PROVE  \E k : At(stash, a0) = {k} /\ stash[k].data = oracle[a0]
  <2>1. InStash(a0) = {c}
    BY <1>7, <1>8, <1>10
  <2>2. Places(stash, At(stash, a0), "stash", 0) = {c}
    BY <2>1, StashPlaces
  <2>3. PICK k : At(stash, a0) = {k} /\ c[4] = stash[k].data
    BY <2>2, PlacesFacts
  <2> QED  BY <1>6, <2>3
<1> QED  BY <1>1, <1>4, <1>5, <1>9, <1>10

LEMMA TakeSettles ==
    ASSUME IInv, CopiesInv, UNCHANGED <<serverVars, oracle>>, TakeBlock
    PROVE  CopiesInv'
<1>1. CASE failed'
  BY <1>1, EndSettles DEF Accountable
<1>2. CASE ~ failed'
  <2> SUFFICES ASSUME Accountable'
               PROVE  BlocksInPlace' /\ (\A a \in Addr : Accounted(a)') /\ BlockIsTaken'
    BY DEF CopiesInv
  <2> DEFINE mine == {k \in 1 .. Len(stash) : stash[k].addr = call.addr}
             data == IF targets # {} THEN Decrypted(resp.slots)
                     ELSE IF mine # {} THEN stash[CHOOSE k \in mine : \A j \in mine : k <= j].data
                     ELSE Zero
  <2>1. /\ cpc = "xor" /\ cpc' = "put" /\ resp.cmd = "xor" /\ resp' = NoMsg
        /\ call' = call /\ oldLeaf' = oldLeaf /\ targets' = targets /\ reads' = reads /\ writes' = writes
        /\ posMap' = posMap /\ oracle' = oracle /\ tree' = tree /\ failed' = failed
        /\ Cardinality(targets) <= 1 /\ stash # Malformed
        /\ IF mine # {} THEN SaveStash(Without(stash, call.addr)) ELSE stash' = stash
        /\ block' = AccessedBlock(data)
    BY <1>2 DEF TakeBlock, Throws, serverVars, Loaded
  <2>2. stash' # Malformed /\ ~ failed
    BY <2>1 DEF Accountable
  <2>3. Accountable
    BY <2>1, <2>2, NoMsgFacts DEF Accountable
  <2>4. /\ BlocksInPlace /\ (\A a \in Addr : Accounted(a)) /\ BlockIsTaken /\ stash \in Seq(Block)
    BY <2>3, StandingFacts DEF CopiesInv
  <2>5. PICK a0 : a0 = call.addr /\ a0 = call'.addr
    BY <2>1
  <2>6. a0 \in Addr /\ call \in Calls
    BY <2>1, <2>5, XorFacts
  <2>7. /\ InTree(a0) = {}
        /\ targets # {} => Decrypted(resp.slots) = oracle[a0]
        /\ targets = {} => \E k : At(stash, a0) = {k} /\ stash[k].data = oracle[a0]
    BY <2>1, <2>3, <2>4, <2>5, <2>6, BlockHasLeft
  <2>8. mine = At(stash, a0)
    BY <2>5 DEF At
  <2>9. data = oracle[a0]
    <3>1. CASE targets # {}
      BY <2>7, <3>1
    <3>2. CASE targets = {}
      <4>1. PICK k : mine = {k} /\ stash[k].data = oracle[a0]
        BY <2>7, <2>8, <3>2
      <4>2. k \in 1 .. Len(stash) /\ k <= k
        BY <4>1
      <4> HIDE DEF mine
      <4>3. (CHOOSE i \in mine : \A j \in mine : i <= j) = k
        BY <4>1, <4>2
      <4> QED  BY <3>2, <4>1, <4>3
    <3> QED  BY <3>1, <3>2
  <2> HIDE DEF data
  <2>10. /\ block'.addr = a0 /\ block'.leaf = posMap[a0]
         /\ block'.data = IF call.op = "WRITE" THEN call.data ELSE oracle[a0]
    BY <2>1, <2>5, <2>9 DEF AccessedBlock
  <2>11. PICK t : t = stash'
    OBVIOUS
  <2>12. /\ t \in Seq(Block) /\ At(t, a0) = {}
         /\ \A a : a # a0 => Carried(stash, At(stash, a), t, At(t, a))
         /\ \A l \in 1 .. Len(t) : \E k \in 1 .. Len(stash) : t[l] = stash[k] /\ stash[k].addr # a0
    <3>1. CASE mine # {}
      <4>1. t = Without(stash, a0)
        BY <2>1, <2>2, <2>5, <2>11, <3>1 DEF SaveStash
      <4> QED  BY <2>4, <4>1, WithoutCarries
    <3>2. CASE mine = {}
      <4>1. t = stash /\ At(stash, a0) = {}
        BY <2>1, <2>8, <2>11, <3>2
      <4>2. \A l \in 1 .. Len(stash) : stash[l].addr # a0
        BY <4>1 DEF At
      <4> QED  BY <2>4, <4>1, <4>2, CarriedSame
    <3> QED  BY <3>1, <3>2
  <2> HIDE DEF mine
  <2>13. \A n \in Nodes : Contents(n) = tree[n] /\ Contents(n)' = tree[n]
    <3>1. Replaced = {} /\ Replaced' = {}
      BY <2>1, XorFacts DEF Replaced, Among
    <3>2. \A n \in Nodes : Contents(n)' = tree[n]
      BY <2>1, <3>1 DEF Contents
    <3> QED  BY <2>1, <3>2, XorFacts
  <2> HIDE DEF Contents
  <2>14. Kept' = Kept /\ \A a : InTree(a)' = InTree(a)
    <3>1. Kept' = Kept
      BY <2>13 DEF Kept
    <3>2. \A n \in Kept : Contents(n)' = Contents(n)
      BY <2>13 DEF Kept
    <3> QED  BY <3>1, <3>2 DEF InTree
  <2>15. \A a : OnTheWay(a)' = {}
    <3>1. InFlight' = << >>
      BY <2>1 DEF InFlight
    <3>2. DOMAIN InFlight' = {}
      BY <3>1
    <3> QED  BY <3>2 DEF OnTheWay
  <2>16. \A a : LeafOf(a)' = posMap[a] /\ (a # a0 => LeafOf(a)' = LeafOf(a))
    BY <2>1, <2>5 DEF LeafOf
  <2>17. Copies(a0)' = InHand(a0)'
    <3>1. InStash(a0)' = {}
      BY <2>11, <2>12, StashPlaces, PlacesFacts
    <3> QED  BY <2>7, <2>14, <2>15, <3>1 DEF Copies
  <2>18. Accounted(a0)'
    <3>1. CASE call.op = "WRITE"
      <4>1. InHand(a0)' = {} /\ Writing(a0)'
        BY <2>1, <2>10, <3>1 DEF InHand, Writing
      <4> QED  BY <2>17, <4>1 DEF Accounted
    <3>2. CASE call.op # "WRITE"
      <4>1. call.op = "READ"
        BY <2>6, <3>2 DEF Calls
      <4>2. PICK c : c = <<"hand", 0, 0, oracle[a0]>>
        OBVIOUS
      <4>3. InHand(a0)' = {c} /\ ~ Writing(a0)'
        BY <2>1, <2>10, <4>1, <4>2 DEF InHand, Writing
      <4>4. c[4] = oracle'[a0]
        BY <2>1, <4>2
      <4> QED  BY <2>17, <4>3, <4>4 DEF Accounted
    <3> QED  BY <3>1, <3>2
  <2>19. ASSUME NEW a \in Addr, a # a0 PROVE Accounted(a)'
    <3>1. /\ InHand(a) = {} /\ InHand(a)' = {} /\ OnTheWay(a) = {}
          /\ ~ Writing(a) /\ ~ Writing(a)'
      BY <2>1, <2>5, <2>10, <2>19, XorFacts DEF InHand, Writing
    <3>2. Moves(InStash(a), InStash(a)')
      <4>1. Carried(stash, At(stash, a), t, At(t, a))
        BY <2>12, <2>19
      <4>2. Moves(Places(stash, At(stash, a), "stash", 0), Places(t, At(t, a), "stash", 0))
        BY <4>1, CarriedMoves
      <4> QED  BY <2>11, <4>2, StashPlaces
    <3>3. Copies(a) = InTree(a) \cup InStash(a) /\ Copies(a)' = InTree(a) \cup InStash(a)'
      BY <2>14, <2>15, <3>1 DEF Copies
    <3>4. InTree(a) \cap InStash(a) = {}
      BY CopiesApart
    <3>5. PICK O, F, T : O = InTree(a) /\ F = InStash(a) /\ T = InStash(a)'
      OBVIOUS
    <3>6. /\ Copies(a) = O \cup F /\ O \cap F = {} /\ Copies(a)' = O \cup T /\ Moves(F, T)
      BY <3>2, <3>3, <3>4, <3>5
    <3>7. LeafOf(a)' = LeafOf(a) /\ oracle'[a] = oracle[a]
      BY <2>1, <2>16, <2>19
    <3> QED  BY <2>4, <2>14, <3>1, <3>6, <3>7, AccountMoves
  <2>20. ASSUME NEW n \in Kept' PROVE Fits(n, Contents(n))'
    <3>1. PICK b : b = Contents(n) /\ b = Contents(n)'
      BY <2>13 DEF Kept
    <3>2. n \in Kept /\ Fits(n, b)
      BY <2>4, <2>14, <3>1 DEF BlocksInPlace
    <3>3. ASSUME NEW i \in ValidReals(b), b.entries[i].addr = a0 PROVE FALSE
      <4>1. i \in Targets(b, a0)
        BY <3>3 DEF Targets
      <4>2. <<"tree", n, i, b.entries[i].data>> \in ValidCopies(b, n, a0)
        BY <4>1, ValidCopiesFacts
      <4>3. <<"tree", n, i, b.entries[i].data>> \in InTree(a0)
        BY <3>1, <3>2, <4>2 DEF InTree
      <4> QED  BY <2>7, <4>3
    <3>4. \A i \in ValidReals(b) : LeafOf(b.entries[i].addr)' = LeafOf(b.entries[i].addr)
      BY <2>16, <3>3
    <3> QED  BY <3>1, <3>2, <3>4, FitsUnder
  <2>21. (\A k \in 1 .. Len(stash) : stash[k].leaf = LeafOf(stash[k].addr))'
    <3>1. \A k \in 1 .. Len(stash) : stash[k].leaf = LeafOf(stash[k].addr)
      BY <2>4 DEF BlocksInPlace
    <3>2. \A l \in 1 .. Len(t) : t[l].leaf = LeafOf(t[l].addr) /\ t[l].addr # a0
      BY <2>12, <3>1
    <3>3. \A l \in 1 .. Len(t) : t[l].leaf = LeafOf(t[l].addr)'
      BY <2>16, <3>2
    <3> QED  BY <2>11, <3>3, StashUnder
  <2> QED  BY <2>1, <2>18, <2>19, <2>20, <2>21 DEF BlocksInPlace, BlockIsTaken
<1> QED  BY <1>1, <1>2

LEMMA ReverseFacts ==
    ASSUME NEW X, NEW p \in Seq(X), NEW q, q = Reverse(p)
    PROVE  /\ q \in Seq(X)
           /\ \A n : Among(n, q) <=> Among(n, p)
           /\ Distinct(p) => Distinct(q)
<1> DEFINE L == Len(p)
<1>1. /\ L \in Nat /\ q = [i \in 1 .. L |-> p[(L - i) + 1]]
  BY DEF Reverse
<1>2. \A i \in 1 .. L : p[i] \in X
  OBVIOUS
<1> HIDE DEF L
<1>3. \A i \in 1 .. L : (L - i) + 1 \in 1 .. L /\ (L - ((L - i) + 1)) + 1 = i
  BY <1>1
<1>4. q \in Seq(X) /\ Len(q) = L /\ \A i \in 1 .. L : q[i] = p[(L - i) + 1]
  BY <1>1, <1>2, <1>3
<1>5. \A n : Among(n, q) <=> Among(n, p)
  <2> SUFFICES ASSUME NEW n PROVE Among(n, q) <=> Among(n, p)
    OBVIOUS
  <2>1. ASSUME NEW i \in 1 .. L, q[i] = n PROVE Among(n, p)
    BY <1>3, <1>4, <2>1 DEF Among, L
  <2>2. ASSUME NEW i \in 1 .. L, p[i] = n PROVE Among(n, q)
    <3>1. q[(L - i) + 1] = p[(L - ((L - i) + 1)) + 1]
      BY <1>3, <1>4
    <3>2. q[(L - i) + 1] = n
      BY <1>3, <2>2, <3>1
    <3> QED  BY <1>3, <1>4, <3>2 DEF Among
  <2> QED  BY <1>4, <2>1, <2>2 DEF Among, L
<1>6. ASSUME Distinct(p), NEW i \in 1 .. L, NEW j \in 1 .. L, q[i] = q[j] PROVE i = j
  <2>1. PICK x, y : x = (L - i) + 1 /\ y = (L - j) + 1
    OBVIOUS
  <2>2. x \in 1 .. L /\ y \in 1 .. L /\ p[x] = p[y]
    BY <1>3, <1>4, <1>6, <2>1
  <2>3. x = y
    BY <1>6, <2>2 DEF Distinct, L
  <2> QED  BY <1>1, <2>1, <2>3
<1> QED  BY <1>4, <1>5, <1>6 DEF Distinct, L

LEMMA EvictionLeafType ==
    ASSUME IInv
    PROVE  EvictionLeaf \in Leaves
<1>1. evictions \in Nat
  BY Constants DEF IInv, TypeOK
<1>2. \A d \in Nat \ {0} : evictions % d \in 0 .. d - 1
  BY <1>1
<1> QED  BY <1>2, Constants DEF EvictionLeaf, Leaves

LEMMA PathDistinct ==
    ASSUME NEW leaf \in Leaves
    PROVE  Paths[leaf] \in Seq(Nodes) /\ Distinct(Paths[leaf])
BY PathsFacts DEF Distinct

\* What PutBlock does when it does not throw.
LEMMA PutFacts ==
    ASSUME IInv, CallInv, UNCHANGED serverVars, PutBlock, ~ failed',
           oracle' = IF call.op = "WRITE" /\ result' # NoResult
                     THEN [oracle EXCEPT ![call.addr] = call.data] ELSE oracle
    PROVE  /\ cpc = "put" /\ cpc' = "work" /\ block \in Block /\ block.addr = call.addr /\ call \in Calls
           /\ call.addr \in Addr /\ block.leaf = posMap[block.addr]
           /\ call.op = "WRITE" => block.data = call.data
           /\ block' = NoBlock /\ result' = block.data /\ result' # NoResult
           /\ call' = call /\ posMap' = posMap /\ oldLeaf' = oldLeaf /\ tree' = tree /\ failed' = failed
           /\ stash \in Seq(Block) /\ SaveStash(Put(stash, block)) /\ checks' = Paths[oldLeaf]
           /\ reads = << >> /\ writes = << >> /\ req' = req /\ resp' = resp /\ conn' = conn
           /\ \/ reads' = << >> /\ writes' = << >>
              \/ \E leaf \in Leaves : reads' = Paths[leaf] /\ writes' = Reverse(Paths[leaf])
           /\ oracle' = IF call.op = "WRITE" THEN [oracle EXCEPT ![call.addr] = call.data] ELSE oracle
<1>1. /\ cpc = "put" /\ cpc' = "work" /\ stash # Malformed /\ SaveStash(Put(stash, block))
      /\ block' = NoBlock /\ result' = block.data /\ call' = call /\ posMap' = posMap /\ oldLeaf' = oldLeaf
      /\ failed' = failed /\ checks' = Paths[oldLeaf] /\ req' = req /\ resp' = resp /\ conn' = conn
  BY DEF PutBlock, Throws, Loaded
<1>2. /\ block \in Block /\ block.addr = call.addr /\ call \in Calls /\ reads = << >> /\ writes = << >>
      /\ stash \in Seq(Block)
  BY <1>1 DEF IInv, CallState, TypeOK
<1>3. block.data \in Data /\ call.addr \in Addr
  BY <1>2 DEF Block, Calls
<1>4. result' # NoResult
  BY <1>1, <1>3, Constants
<1>5. \/ reads' = << >> /\ writes' = << >>
      \/ \E leaf \in Leaves : reads' = Paths[leaf] /\ writes' = Reverse(Paths[leaf])
  BY <1>2, EvictionLeafType DEF PutBlock, Throws
<1>6. block.leaf = posMap[block.addr] /\ (call.op = "WRITE" => block.data = call.data)
  BY <1>1 DEF CallInv
<1>7. tree' = tree
  BY DEF serverVars
<1> QED  BY <1>1, <1>2, <1>3, <1>4, <1>5, <1>6, <1>7

LEMMA PutSettles ==
    ASSUME IInv, CallInv, CopiesInv, UNCHANGED serverVars, PutBlock,
           oracle' = IF call.op = "WRITE" /\ result' # NoResult
                     THEN [oracle EXCEPT ![call.addr] = call.data] ELSE oracle
    PROVE  CopiesInv'
<1>1. CASE failed'
  BY <1>1, EndSettles DEF Accountable
<1>2. CASE ~ failed'
  <2> SUFFICES ASSUME Accountable'
               PROVE  BlocksInPlace' /\ (\A a \in Addr : Accounted(a)') /\ BlockIsTaken'
    BY DEF CopiesInv
  <2>1. /\ cpc = "put" /\ cpc' = "work" /\ block \in Block /\ block.addr = call.addr /\ call \in Calls
        /\ call.addr \in Addr /\ block.leaf = posMap[block.addr]
        /\ call.op = "WRITE" => block.data = call.data
        /\ block' = NoBlock
        /\ call' = call /\ posMap' = posMap /\ tree' = tree /\ failed' = failed
        /\ stash \in Seq(Block) /\ SaveStash(Put(stash, block))
        /\ reads = << >> /\ writes = << >>
        /\ \/ reads' = << >> /\ writes' = << >>
           \/ \E leaf \in Leaves : reads' = Paths[leaf] /\ writes' = Reverse(Paths[leaf])
        /\ oracle' = IF call.op = "WRITE" THEN [oracle EXCEPT ![call.addr] = call.data] ELSE oracle
    BY <1>2, PutFacts
  <2>2. stash' # Malformed /\ ~ failed /\ stash # Malformed
    BY <2>1, RingClientAssumption DEF Accountable, Block
  <2>3. Accountable
    BY <2>1, <2>2 DEF Accountable
  <2>4. BlocksInPlace /\ (\A a \in Addr : Accounted(a))
    BY <2>3 DEF CopiesInv
  <2>5. PICK a0, b0 : a0 = call.addr /\ b0 = block
    OBVIOUS
  <2>6. a0 \in Addr /\ b0 \in Block /\ b0.addr = a0 /\ b0.leaf = posMap[a0]
    BY <2>1, <2>5
  <2>7. PICK t : t = stash'
    OBVIOUS
  <2>8. /\ t \in Seq(Block)
        /\ \E l : At(t, a0) = {l} /\ t[l] = b0
        /\ \A a : a # a0 => Carried(stash, At(stash, a), t, At(t, a))
        /\ \A l \in 1 .. Len(t) : t[l] = b0 \/ \E k \in 1 .. Len(stash) : t[l] = stash[k]
    <3>1. t = Put(stash, b0)
      BY <2>1, <2>2, <2>5, <2>7 DEF SaveStash
    <3> HIDE DEF Block
    <3>2. Supersedes(stash, b0, t)
      BY <2>1, <2>6, <3>1, PutCarries
    <3> QED  BY <2>6, <3>2 DEF Supersedes
  <2>9. Replaced = {} /\ Replaced' = {}
    <3>1. \A n : ~ Among(n, writes)
      BY <2>1 DEF Among
    <3>2. \A n : Among(n, writes') => Among(n, reads')
      <4>1. CASE writes' = << >>
        BY <4>1 DEF Among
      <4>2. CASE \E leaf \in Leaves : reads' = Paths[leaf] /\ writes' = Reverse(Paths[leaf])
        BY <4>2, PathDistinct, ReverseFacts
      <4> QED  BY <2>1, <4>1, <4>2
    <3>3. \A n : Among(n, writes)' => Among(n, reads)'
      BY <3>2 DEF Among
    <3> QED  BY <3>1, <3>3 DEF Replaced
  <2>10. \A n \in Nodes : Contents(n)' = Contents(n)
    BY <2>1, <2>9, ContentsStill
  <2>11. Kept' = Kept /\ \A a : InTree(a)' = InTree(a)
    <3> HIDE DEF Contents
    <3>1. Kept' = Kept
      BY <2>10 DEF Kept
    <3>2. \A n \in Kept : Contents(n)' = Contents(n)
      BY <2>10 DEF Kept
    <3> QED  BY <3>1, <3>2 DEF InTree
  <2>12. \A a : LeafOf(a)' = LeafOf(a) /\ LeafOf(a) = posMap[a]
    BY <2>1 DEF LeafOf
  <2>13. \A a : OnTheWay(a) = {} /\ OnTheWay(a)' = {}
    <3>1. InFlight = << >> /\ InFlight' = << >>
      BY <2>1 DEF InFlight
    <3>2. DOMAIN InFlight = {} /\ DOMAIN InFlight' = {}
      BY <3>1
    <3> QED  BY <3>2 DEF OnTheWay
  <2>14. \A a \in Addr : InHand(a)' = {} /\ ~ Writing(a)'
    <3>1. \A a \in Addr : block'.addr # a
      BY <2>1, NoCallFacts DEF Addr
    <3> QED  BY <3>1 DEF InHand, Writing
  <2>15. InTree(a0) = {} /\ b0.data = oracle'[a0]
    <3>1. CASE call.op = "WRITE"
      <4>1. Writing(a0)
        BY <2>1, <2>5, <3>1 DEF Writing
      <4>2. Copies(a0) = {}
        BY <2>4, <2>6, <4>1 DEF Accounted
      <4>3. oracle'[a0] = call.data
        BY <2>1, <2>5, <3>1 DEF IInv, TypeOK
      <4> QED  BY <2>1, <2>5, <3>1, <4>2, <4>3 DEF Copies
    <3>2. CASE call.op # "WRITE"
      <4>1. call.op = "READ"
        BY <2>1, <3>2 DEF Calls
      <4>2. PICK c : c = <<"hand", 0, 0, b0.data>>
        OBVIOUS
      <4>3. InHand(a0) = {c}
        BY <2>1, <2>5, <4>1, <4>2 DEF InHand
      <4>4. Copies(a0) = {c} /\ c[4] = oracle[a0]
        BY <2>4, <2>6, <4>3 DEF Accounted, Copies
      <4>5. InTree(a0) \subseteq {c} /\ c[1] = "hand" /\ c[4] = b0.data
        BY <4>2, <4>4 DEF Copies
      <4>6. InTree(a0) = {}
        BY <4>5, CopiesApart
      <4> QED  BY <2>1, <3>2, <4>4, <4>5, <4>6
    <3> QED  BY <3>1, <3>2
  <2>16. Accounted(a0)'
    <3>1. PICK l : At(t, a0) = {l} /\ t[l] = b0
      BY <2>8
    <3>2. PICK c : c = <<"stash", 0, l, t[l].data>>
      OBVIOUS
    <3>3. InStash(a0)' = {c}
      <4>1. Places(t, At(t, a0), "stash", 0) = {c}
        BY <3>1, <3>2, PlacesFacts
      <4> QED  BY <2>7, <4>1, StashPlaces
    <3>4. Copies(a0)' = {c} /\ c[4] = oracle'[a0]
      BY <2>6, <2>11, <2>13, <2>14, <2>15, <3>1, <3>2, <3>3 DEF Copies
    <3> QED  BY <2>6, <2>14, <3>4 DEF Accounted
  <2>17. ASSUME NEW a \in Addr, a # a0 PROVE Accounted(a)'
    <3>1. InHand(a) = {} /\ ~ Writing(a)
      BY <2>1, <2>5, <2>17 DEF InHand, Writing
    <3>2. Moves(InStash(a), InStash(a)')
      <4>1. Carried(stash, At(stash, a), t, At(t, a))
        BY <2>8, <2>17
      <4>2. Moves(Places(stash, At(stash, a), "stash", 0), Places(t, At(t, a), "stash", 0))
        BY <4>1, CarriedMoves
      <4> QED  BY <2>7, <4>2, StashPlaces
    <3>3. Copies(a) = InTree(a) \cup InStash(a) /\ Copies(a)' = InTree(a) \cup InStash(a)'
      BY <2>11, <2>13, <2>14, <3>1 DEF Copies
    <3>4. InTree(a) \cap InStash(a) = {}
      BY CopiesApart
    <3>5. PICK O, F, T : O = InTree(a) /\ F = InStash(a) /\ T = InStash(a)'
      OBVIOUS
    <3>6. /\ Copies(a) = O \cup F /\ O \cap F = {} /\ Copies(a)' = O \cup T /\ Moves(F, T)
      BY <3>2, <3>3, <3>4, <3>5
    <3>7. LeafOf(a)' = LeafOf(a) /\ oracle'[a] = oracle[a]
      BY <2>1, <2>5, <2>12, <2>17 DEF IInv, TypeOK
    <3> QED  BY <2>4, <2>11, <2>14, <3>1, <3>6, <3>7, AccountMoves
  <2>18. ASSUME NEW n \in Kept' PROVE Fits(n, Contents(n))'
    <3>1. PICK b : b = Contents(n) /\ b = Contents(n)'
      BY <2>10 DEF Kept
    <3>2. Fits(n, b)
      BY <2>4, <2>11, <3>1 DEF BlocksInPlace
    <3> QED  BY <2>12, <3>1, <3>2, FitsUnder
  <2>19. (\A k \in 1 .. Len(stash) : stash[k].leaf = LeafOf(stash[k].addr))'
    <3>1. \A k \in 1 .. Len(stash) : stash[k].leaf = LeafOf(stash[k].addr)
      BY <2>4 DEF BlocksInPlace
    <3>2. \A l \in 1 .. Len(t) : t[l].leaf = LeafOf(t[l].addr)'
      BY <2>6, <2>8, <2>12, <3>1
    <3> QED  BY <2>7, <3>2, StashUnder
  <2> QED  BY <2>1, <2>16, <2>17, <2>18, <2>19 DEF BlocksInPlace, BlockIsTaken
<1> QED  BY <1>1, <1>2
-----------------------------------------------------------------------------

LEMMA CarriedChain ==
    ASSUME NEW s, NEW K, NEW t, NEW L, NEW u, NEW M, Carried(s, K, t, L), Carried(t, L, u, M)
    PROVE  Carried(s, K, u, M)
<1>1. K = {} => M = {}
  BY DEF Carried
<1>2. ASSUME NEW k, K = {k} PROVE \E m : M = {m} /\ u[m].data = s[k].data
  <2>1. PICK l : L = {l} /\ t[l].data = s[k].data
    BY <1>2 DEF Carried
  <2>2. PICK m : M = {m} /\ u[m].data = t[l].data
    BY <2>1 DEF Carried
  <2> QED  BY <2>1, <2>2
<1> QED  BY <1>1, <1>2 DEF Carried

\* s holds one block with the address, with these data.
HoldsOnce(s, a, data) == \E l : At(s, a) = {l} /\ s[l].data = data

\* Every block of t is one of s or one of u.
DrawnFrom(t, s, u) ==
    \A l \in 1 .. Len(t) : \/ \E k \in 1 .. Len(s) : t[l] = s[k]
                           \/ \E k \in 1 .. Len(u) : t[l] = u[k]

\* The blocks of a bucket put in the stash one after the other: an address that
\* is not among them keeps its place, one that is there once ends with that block.
LEMMA PourSteps ==
    ASSUME stash \in Seq(Block), NEW blocks \in Seq(Block), NEW f, StashSteps(f, blocks), NEW a
    PROVE  /\ At(blocks, a) = {} =>
                \A j \in 0 .. Len(blocks) : Carried(stash, At(stash, a), f[j], At(f[j], a))
           /\ \A i : At(blocks, a) = {i} =>
                \A j \in i .. Len(blocks) : HoldsOnce(f[j], a, blocks[i].data)
           /\ \A j \in 0 .. Len(blocks) : DrawnFrom(f[j], stash, blocks)
<1> DEFINE N == Len(blocks)
<1>1. /\ N \in Nat /\ f \in [0 .. N -> Seq(Block)] /\ f[0] = stash
      /\ \A k \in 1 .. N : f[k] = Put(f[k - 1], blocks[k])
  BY DEF StashSteps
<1>2. \A k \in 1 .. N : blocks[k] \in Block
  <2> HIDE DEF Block
  <2> QED  OBVIOUS
<1> HIDE DEF N, Block
<1>3. ASSUME NEW k \in 1 .. N PROVE k - 1 \in 0 .. N /\ k \in 0 .. N /\ Supersedes(f[k - 1], blocks[k], f[k])
  <2>1. k - 1 \in 0 .. N /\ k \in 0 .. N
    BY <1>1
  <2> QED  BY <1>1, <1>2, <2>1, PutCarries
<1>4. ASSUME At(blocks, a) = {}
      PROVE  \A j \in 0 .. N : Carried(stash, At(stash, a), f[j], At(f[j], a))
  <2> DEFINE T == {j \in 0 .. N : ~ Carried(stash, At(stash, a), f[j], At(f[j], a))}
  <2> SUFFICES ASSUME T # {} PROVE FALSE
    OBVIOUS
  <2>1. PICK j \in T : \A k \in T : j <= k
    BY LeastNatural, T \subseteq Nat
  <2>2. j # 0
    BY <1>1, CarriedSame
  <2>3. j \in 1 .. N /\ j - 1 \in 0 .. N /\ j - 1 \notin T
    BY <1>1, <2>1, <2>2
  <2>4. Carried(stash, At(stash, a), f[j - 1], At(f[j - 1], a))
    BY <2>3
  <2>5. a # blocks[j].addr
    BY <1>4, <2>3 DEF At, N
  <2>6. Carried(f[j - 1], At(f[j - 1], a), f[j], At(f[j], a))
    BY <1>3, <2>3, <2>5 DEF Supersedes
  <2> QED  BY <2>4, <2>6, CarriedChain
<1>5. ASSUME NEW i, At(blocks, a) = {i}
      PROVE  \A j \in i .. N : HoldsOnce(f[j], a, blocks[i].data)
  <2>1. i \in 1 .. N /\ blocks[i].addr = a /\ \A k \in 1 .. N : blocks[k].addr = a => k = i
    BY <1>5 DEF At, N
  <2> DEFINE P(j) == \E l : At(f[j], a) = {l} /\ f[j][l].data = blocks[i].data
             T == {j \in i .. N : ~ P(j)}
  <2>2. P(i)
    BY <1>3, <2>1 DEF Supersedes
  <2>3. ASSUME NEW j \in 1 .. N, P(j - 1), blocks[j].addr # a PROVE P(j)
    <3>1. Carried(f[j - 1], At(f[j - 1], a), f[j], At(f[j], a))
      BY <1>3, <2>3 DEF Supersedes
    <3>2. PICK l : At(f[j - 1], a) = {l} /\ f[j - 1][l].data = blocks[i].data
      BY <2>3
    <3>3. PICK m : At(f[j], a) = {m} /\ f[j][m].data = f[j - 1][l].data
      BY <3>1, <3>2 DEF Carried
    <3> QED  BY <3>2, <3>3
  <2> HIDE DEF P
  <2>4. T = {}
    <3> SUFFICES ASSUME T # {} PROVE FALSE
      OBVIOUS
    <3>1. PICK j \in T : \A k \in T : j <= k
      BY <1>1, <2>1, LeastNatural, T \subseteq Nat
    <3>2. j \in i .. N /\ ~ P(j) /\ j # i
      BY <2>2
    <3>3. j \in 1 .. N /\ j - 1 \in i .. N
      BY <1>1, <2>1, <3>2
    <3>4. P(j - 1)
      <4>1. j - 1 \notin T
        BY <1>1, <3>1, <3>3
      <4> QED  BY <3>3, <4>1
    <3>5. blocks[j].addr # a
      BY <2>1, <3>2, <3>3
    <3> QED  BY <2>3, <3>2, <3>3, <3>4, <3>5
  <2> QED  BY <2>4 DEF P, HoldsOnce
<1>6. \A j \in 0 .. N : DrawnFrom(f[j], stash, blocks)
  <2> DEFINE P(j) == \A l \in 1 .. Len(f[j]) : \/ \E k \in 1 .. Len(stash) : f[j][l] = stash[k]
                                             \/ \E k \in 1 .. N : f[j][l] = blocks[k]
             T == {j \in 0 .. N : ~ P(j)}
  <2>1. P(0)
    BY <1>1
  <2>2. ASSUME NEW j \in 1 .. N, P(j - 1) PROVE P(j)
    <3>1. \A l \in 1 .. Len(f[j]) : f[j][l] = blocks[j] \/ \E k \in 1 .. Len(f[j - 1]) : f[j][l] = f[j - 1][k]
      BY <1>3 DEF Supersedes
    <3> SUFFICES ASSUME NEW l \in 1 .. Len(f[j])
                 PROVE  \/ \E k \in 1 .. Len(stash) : f[j][l] = stash[k]
                        \/ \E k \in 1 .. N : f[j][l] = blocks[k]
      OBVIOUS
    <3>2. CASE f[j][l] = blocks[j]
      BY <3>2
    <3>3. CASE \E k \in 1 .. Len(f[j - 1]) : f[j][l] = f[j - 1][k]
      BY <2>2, <3>3
    <3> QED  BY <3>1, <3>2, <3>3
  <2> HIDE DEF P
  <2>3. T = {}
    <3> SUFFICES ASSUME T # {} PROVE FALSE
      OBVIOUS
    <3>1. PICK j \in T : \A k \in T : j <= k
      BY <1>1, LeastNatural, T \subseteq Nat
    <3>2. j \in 0 .. N /\ ~ P(j) /\ j # 0
      BY <2>1
    <3>3. j \in 1 .. N /\ j - 1 \in 0 .. N
      BY <1>1, <3>2
    <3>4. P(j - 1)
      <4>1. j - 1 \notin T
        BY <1>1, <3>1, <3>3
      <4> QED  BY <3>3, <4>1
    <3> QED  BY <2>2, <3>2, <3>3, <3>4
  <2> QED  BY <2>3 DEF P, DrawnFrom, N
<1> QED  BY <1>4, <1>5, <1>6 DEF N

\* The blocks read of a bucket are those of its valid slots.
LEMMA ReadCarries ==
    ASSUME NEW b \in Buckets, NEW blocks, blocks = BlocksRead(b)
    PROVE  /\ blocks \in Seq(Block)
           /\ \A a : Carried(b.entries, Targets(b, a), blocks, At(blocks, a))
           /\ \A k \in 1 .. Len(blocks) : \E i \in ValidReals(b) :
                blocks[k].addr = b.entries[i].addr /\ blocks[k].leaf = b.entries[i].leaf
<1> DEFINE K == ValidReals(b)
           valid == Pick(b.entries, K)
<1>1. b.entries \in Seq(Entries) /\ K \subseteq 1 .. Len(b.entries)
  BY DEF Buckets, ValidReals
<1>2. valid \in Seq(Entries) /\ Len(valid) \in Nat
  <2> HIDE DEF K, Entries
  <2>1. valid \in Seq(Entries)
    BY <1>1, PickType
  <2> QED  BY <2>1
<1>3. /\ \A a : Carried(b.entries, At(b.entries, a) \cap K, valid, At(valid, a))
      /\ \A l \in 1 .. Len(valid) : \E k \in K \cap (1 .. Len(b.entries)) : valid[l] = b.entries[k]
  <2> HIDE DEF K, Entries
  <2>1. \A a : Carried(b.entries, At(b.entries, a) \cap K, valid, At(valid, a))
    BY <1>1, PickCarries
  <2>2. \A l \in 1 .. Len(valid) : \E k \in K \cap (1 .. Len(b.entries)) : valid[l] = b.entries[k]
    BY <1>1, PickFrom
  <2> QED  BY <2>1, <2>2
<1>4. blocks = [k \in 1 .. Len(valid) |->
                  [addr |-> valid[k].addr, leaf |-> valid[k].leaf, data |-> valid[k].data]]
  BY DEF BlocksRead
<1> HIDE DEF valid
<1>5. /\ Len(blocks) = Len(valid)
      /\ \A k \in 1 .. Len(valid) : /\ blocks[k].addr = valid[k].addr /\ blocks[k].leaf = valid[k].leaf
                                    /\ blocks[k].data = valid[k].data
  BY <1>2, <1>4
<1>6. ASSUME NEW a PROVE Carried(b.entries, Targets(b, a), blocks, At(blocks, a))
  <2>1. At(b.entries, a) \cap K = Targets(b, a)
    BY <1>1 DEF At, Targets
  <2>2. At(blocks, a) = At(valid, a)
    BY <1>5 DEF At
  <2>3. \A l \in At(valid, a) : blocks[l].data = valid[l].data
    BY <1>5 DEF At
  <2>4. Carried(b.entries, Targets(b, a), valid, At(valid, a))
    BY <1>3, <2>1
  <2> QED  BY <2>2, <2>3, <2>4 DEF Carried
<1>7. \A k \in 1 .. Len(blocks) : \E i \in K :
                blocks[k].addr = b.entries[i].addr /\ blocks[k].leaf = b.entries[i].leaf
  BY <1>3, <1>5
<1> QED  BY <1>6, <1>7, BlocksReadType

\* The stash s and the bucket b hold between them what t and c hold.
Exchanged(s, b, t, c, n) ==
    \A a : Moves(Places(s, At(s, a), "stash", 0) \cup ValidCopies(b, n, a),
                 Places(t, At(t, a), "stash", 0) \cup ValidCopies(c, n, a))

\* Blocks of t are blocks of s, or have the address and leaf of a valid one of b.
Poured(s, b, t) ==
    \A l \in 1 .. Len(t) :
       \/ \E k \in 1 .. Len(s) : t[l] = s[k]
       \/ \E i \in ValidReals(b) : t[l].addr = b.entries[i].addr /\ t[l].leaf = b.entries[i].leaf

\* ReadBucket moves the copies of a bucket to the stash.
LEMMA PourCarries ==
    ASSUME stash \in Seq(Block), NEW b \in Buckets, NEW blocks, blocks = BlocksRead(b),
           NEW t, t = StashAfter(blocks, Len(blocks))
    PROVE  /\ t \in Seq(Block)
           /\ \A c, n : (\A a : ValidCopies(c, n, a) = {}) => Exchanged(stash, b, t, c, n)
           /\ Poured(stash, b, t)
<1>1. /\ blocks \in Seq(Block)
      /\ \A a : Carried(b.entries, Targets(b, a), blocks, At(blocks, a))
      /\ \A k \in 1 .. Len(blocks) : \E i \in ValidReals(b) :
           blocks[k].addr = b.entries[i].addr /\ blocks[k].leaf = b.entries[i].leaf
  BY ReadCarries
<1>2. PICK N : N = Len(blocks) /\ N \in Nat
  BY <1>1
<1>3. PICK f : StashSteps(f, blocks)
  BY <1>1, StashAfterSteps, Zenon
<1>4. t = f[N] /\ t \in Seq(Block) /\ N \in 0 .. N
  BY <1>2, <1>3 DEF StashSteps
<1>5. ASSUME NEW n, NEW a
      PROVE  Moves(Places(stash, At(stash, a), "stash", 0) \cup ValidCopies(b, n, a),
                   Places(t, At(t, a), "stash", 0))
  <2> DEFINE F == Places(stash, At(stash, a), "stash", 0)
             G == ValidCopies(b, n, a)
             T == Places(t, At(t, a), "stash", 0)
  <2>1. G = Places(b.entries, Targets(b, a), "tree", n)
    BY ValidCopiesFacts
  <2>2. Carried(b.entries, Targets(b, a), blocks, At(blocks, a))
    BY <1>1
  <2>3. CASE G = {}
    <3>1. Targets(b, a) = {}
      BY <2>1, <2>3, PlacesFacts
    <3>2. At(blocks, a) = {}
      BY <2>2, <3>1 DEF Carried
    <3>3. Carried(stash, At(stash, a), t, At(t, a))
      BY <1>1, <1>2, <1>3, <1>4, <3>2, PourSteps
    <3>4. Moves(F, T)
      BY <3>3, CarriedMoves
    <3>5. F \cup G = F
      BY <2>3
    <3> HIDE DEF F, G, T
    <3> QED  BY <3>4, <3>5 DEF F, G, T
  <2>4. ASSUME NEW c, G # {}, F \cup G = {c} PROVE \E d : T = {d} /\ d[4] = c[4]
    <3>1. G = {c}
      BY <2>4
    <3>2. PICK i : Targets(b, a) = {i} /\ c[4] = b.entries[i].data
      BY <2>1, <3>1, PlacesFacts
    <3>3. PICK k : At(blocks, a) = {k} /\ blocks[k].data = b.entries[i].data
      BY <2>2, <3>2 DEF Carried
    <3>4. N \in k .. N
      <4>1. k \in 1 .. N
        BY <1>2, <3>3 DEF At
      <4> QED  BY <1>2, <4>1
    <3>5. PICK l : At(t, a) = {l} /\ t[l].data = blocks[k].data
      <4>1. \A j \in k .. N : HoldsOnce(f[j], a, blocks[k].data)
        BY <1>1, <1>2, <1>3, <3>3, PourSteps
      <4> QED  BY <1>4, <3>4, <4>1 DEF HoldsOnce
    <3>6. T = {<<"stash", 0, l, t[l].data>>}
      BY <3>5, PlacesFacts
    <3>7. <<"stash", 0, l, t[l].data>>[4] = c[4]
      BY <3>2, <3>3, <3>5
    <3> HIDE DEF T
    <3> QED  BY <3>6, <3>7
  <2> HIDE DEF F, G, T
  <2>5. Moves(F \cup G, T)
    <3>1. CASE G = {}
      BY <2>3, <3>1 DEF F, G, T
    <3>2. CASE G # {}
      BY <2>4, <3>2 DEF Moves
    <3> QED  BY <3>1, <3>2
  <2> QED  BY <2>5 DEF F, G, T
<1>6. ASSUME NEW l \in 1 .. Len(t)
      PROVE  \/ \E k \in 1 .. Len(stash) : t[l] = stash[k]
             \/ \E i \in ValidReals(b) : t[l].addr = b.entries[i].addr /\ t[l].leaf = b.entries[i].leaf
  <2>1. \/ \E k \in 1 .. Len(stash) : t[l] = stash[k]
        \/ \E k \in 1 .. Len(blocks) : t[l] = blocks[k]
    <3>1. PICK a : a = 0
      OBVIOUS
    <3>2. DrawnFrom(f[N], stash, blocks)
      BY <1>1, <1>2, <1>3, <1>4, <3>1, PourSteps
    <3> QED  BY <1>4, <3>2 DEF DrawnFrom
  <2> QED  BY <1>1, <2>1
<1>7. ASSUME NEW c, NEW n, \A a : ValidCopies(c, n, a) = {}
      PROVE  Exchanged(stash, b, t, c, n)
  <2>1. ASSUME NEW a
        PROVE  Moves(Places(stash, At(stash, a), "stash", 0) \cup ValidCopies(b, n, a),
                     Places(t, At(t, a), "stash", 0) \cup ValidCopies(c, n, a))
    <3>1. Places(t, At(t, a), "stash", 0) \cup ValidCopies(c, n, a) = Places(t, At(t, a), "stash", 0)
      BY <1>7
    <3>2. Moves(Places(stash, At(stash, a), "stash", 0) \cup ValidCopies(b, n, a),
                Places(t, At(t, a), "stash", 0))
      BY <1>5
    <3> QED  BY <3>1, <3>2
  <2> QED  BY <2>1 DEF Exchanged
<1>8. Poured(stash, b, t)
  BY <1>6 DEF Poured
<1> QED  BY <1>4, <1>7, <1>8

LEMMA TailAmong ==
    ASSUME NEW s \in Seq(Nodes), s # << >>, Distinct(s)
    PROVE  \A n : Among(n, Tail(s)) <=> Among(n, s) /\ n # Head(s)
<1> SUFFICES ASSUME NEW n PROVE Among(n, Tail(s)) <=> Among(n, s) /\ n # Head(s)
  OBVIOUS
<1>1. /\ Len(s) \in Nat \ {0} /\ Head(s) = s[1] /\ Len(Tail(s)) = Len(s) - 1
      /\ \A k \in 1 .. Len(s) - 1 : Tail(s)[k] = s[k + 1]
  OBVIOUS
<1>2. ASSUME NEW k \in 1 .. Len(s), s[k] = n, n # Head(s)
      PROVE  Among(n, Tail(s))
  <2>1. k # 1 /\ k - 1 \in 1 .. Len(s) - 1 /\ (k - 1) + 1 = k
    BY <1>1, <1>2
  <2>2. Tail(s)[k - 1] = n
    BY <1>1, <1>2, <2>1
  <2> QED  BY <1>1, <2>1, <2>2 DEF Among
<1>3. ASSUME NEW k \in 1 .. Len(s) - 1, Tail(s)[k] = n
      PROVE  Among(n, s) /\ n # Head(s)
  <2>1. k + 1 \in 1 .. Len(s) /\ 1 \in 1 .. Len(s) /\ k + 1 # 1 /\ s[k + 1] = n
    BY <1>1, <1>3
  <2>2. s[k + 1] # s[1]
    BY <2>1 DEF Distinct
  <2> QED  BY <1>1, <2>1, <2>2 DEF Among
<1> QED  BY <1>1, <1>2, <1>3 DEF Among

\* The copies in the tree but for those of one bucket.
InOtherBuckets(n0, a) == UNION {ValidCopies(Contents(n), n, a) : n \in Kept \ {n0}}

LEMMA TreeSplits ==
    ASSUME NEW a, NEW n0 \in Kept
    PROVE  /\ InTree(a) = InOtherBuckets(n0, a) \cup ValidCopies(Contents(n0), n0, a)
           /\ \A x \in InOtherBuckets(n0, a) : x[1] = "tree" /\ x[2] # n0
<1>1. InTree(a) = InOtherBuckets(n0, a) \cup ValidCopies(Contents(n0), n0, a)
  <2>1. Kept = (Kept \ {n0}) \cup {n0}
    OBVIOUS
  <2> HIDE DEF Kept, ValidCopies, Contents
  <2> QED  BY <2>1 DEF InTree, InOtherBuckets
<1>2. ASSUME NEW x \in InOtherBuckets(n0, a) PROVE x[1] = "tree" /\ x[2] # n0
  <2>1. PICK n \in Kept \ {n0} : x \in ValidCopies(Contents(n), n, a)
    BY DEF InOtherBuckets
  <2>2. x[1] = "tree" /\ x[2] = n
    BY <2>1, CopiesApart
  <2> QED  BY <2>1, <2>2
<1> QED  BY <1>1, <1>2

LEMMA OthersStill ==
    ASSUME NEW a, NEW n0, Kept' = Kept, \A n \in Kept \ {n0} : Contents(n)' = Contents(n)
    PROVE  InOtherBuckets(n0, a)' = InOtherBuckets(n0, a)
<1> DEFINE V(n) == ValidCopies(Contents(n), n, a)
<1>1. \A n \in Kept \ {n0} : V(n)' = V(n)
  OBVIOUS
<1>2. InOtherBuckets(n0, a)' = UNION {V(n)' : n \in Kept \ {n0}}
  BY DEF InOtherBuckets
<1>3. InOtherBuckets(n0, a) = UNION {V(n) : n \in Kept \ {n0}}
  BY DEF InOtherBuckets
<1> HIDE DEF V
<1> QED  BY <1>1, <1>2, <1>3

\* Between two messages the copies are those of the stash and the tree.
LEMMA AtRest ==
    ASSUME NEW a \in Addr, block = NoBlock, cpc # "xor"
    PROVE  InHand(a) = {} /\ OnTheWay(a) = {} /\ ~ Writing(a) /\ Copies(a) = InTree(a) \cup InStash(a)
<1>1. block.addr # a
  BY NoCallFacts DEF Addr
<1>2. InHand(a) = {} /\ ~ Writing(a)
  BY <1>1 DEF InHand, Writing
<1>3. OnTheWay(a) = {}
  <2>1. InFlight = << >>
    BY DEF InFlight
  <2>2. DOMAIN InFlight = {}
    BY <2>1
  <2> QED  BY <2>2 DEF OnTheWay
<1> QED  BY <1>2, <1>3 DEF Copies

LEMMA AtRestNext ==
    ASSUME NEW a \in Addr, block' = NoBlock, cpc' # "xor"
    PROVE  InHand(a)' = {} /\ OnTheWay(a)' = {} /\ ~ Writing(a)' /\ Copies(a)' = InTree(a)' \cup InStash(a)'
<1>1. block'.addr # a
  BY NoCallFacts DEF Addr
<1>2. InHand(a)' = {} /\ ~ Writing(a)'
  BY <1>1 DEF InHand, Writing
<1>3. OnTheWay(a)' = {}
  <2>1. InFlight' = << >>
    BY DEF InFlight
  <2>2. DOMAIN InFlight' = {}
    BY <2>1
  <2> QED  BY <2>2 DEF OnTheWay
<1> QED  BY <1>2, <1>3 DEF Copies

\* Copies may move between the stash and one bucket.
LEMMA ExchangeSettles ==
    ASSUME BlocksInPlace, \A a \in Addr : Accounted(a), UNCHANGED <<posMap, oracle>>,
           block = NoBlock, block' = NoBlock,
           cpc \notin {"metadata", "xor"}, cpc' \notin {"metadata", "xor"},
           NEW n0 \in Kept, NEW b, b = Contents(n0), NEW c \in Buckets, c = Contents(n0)',
           \A n \in Nodes \ {n0} : Contents(n)' = Contents(n),
           NEW t, t = stash',
           Exchanged(stash, b, t, c, n0),
           Fits(n0, c),
           \A l \in 1 .. Len(t) : t[l].leaf = LeafOf(t[l].addr)
    PROVE  BlocksInPlace' /\ (\A a \in Addr : Accounted(a)') /\ BlockIsTaken'
<1>1. Kept' = Kept /\ n0 \in Nodes
  <2>1. c # NoBucket /\ n0 \in Nodes /\ Contents(n0) # NoBucket
    BY NoBucketApart DEF Kept
  <2>2. \A n \in Nodes : Contents(n)' # NoBucket <=> Contents(n) # NoBucket
    <3> HIDE DEF Contents
    <3> QED  BY <2>1
  <2> HIDE DEF Contents
  <2> QED  BY <2>1, <2>2 DEF Kept
<1>2. \A a : LeafOf(a)' = LeafOf(a)
  BY LeavesStill
<1>3. \A n \in Kept \ {n0} : Contents(n)' = Contents(n)
  BY DEF Kept
<1>4. ASSUME NEW a \in Addr PROVE Accounted(a)'
  <2>1. PICK O, F, T : /\ O = InOtherBuckets(n0, a)
                       /\ F = InStash(a) \cup ValidCopies(b, n0, a)
                       /\ T = InStash(a)' \cup ValidCopies(c, n0, a)
    OBVIOUS
  <2>2. Copies(a) = O \cup F
    <3>1. Copies(a) = InTree(a) \cup InStash(a)
      BY AtRest
    <3>2. InTree(a) = O \cup ValidCopies(b, n0, a)
      <4> HIDE DEF Contents, Kept
      <4> QED  BY <2>1, TreeSplits
    <3> QED  BY <2>1, <3>1, <3>2
  <2>3. Copies(a)' = O \cup T
    <3>1. Copies(a)' = InTree(a)' \cup InStash(a)'
      BY AtRestNext
    <3>2. InTree(a)' = InOtherBuckets(n0, a)' \cup ValidCopies(c, n0, a)
      <4>1. InTree(a)' = UNION {ValidCopies(Contents(n)', n, a) : n \in Kept'}
        BY DEF InTree, ValidCopies, CopiesOf, ValidReals
      <4>2. InOtherBuckets(n0, a)' = UNION {ValidCopies(Contents(n)', n, a) : n \in Kept' \ {n0}}
        BY DEF InOtherBuckets, ValidCopies, CopiesOf, ValidReals
      <4>3. Kept' = (Kept' \ {n0}) \cup {n0}
        BY <1>1
      <4> HIDE DEF Kept, Contents, ValidCopies
      <4> QED  BY <4>1, <4>2, <4>3
    <3>3. InOtherBuckets(n0, a)' = O
      BY <1>1, <1>3, <2>1, OthersStill
    <3> QED  BY <2>1, <3>1, <3>2, <3>3
  <2>4. O \cap F = {}
    <3>1. \A x \in O : x[1] = "tree" /\ x[2] # n0
      <4> HIDE DEF Contents, Kept
      <4> QED  BY <2>1, TreeSplits
    <3>2. \A x \in F : x[1] = "stash" \/ x[2] = n0
      BY <2>1, CopiesApart
    <3>3. "stash" # "tree"
      OBVIOUS
    <3> QED  BY <3>1, <3>2, <3>3
  <2>5. Moves(F, T)
    <3>1. InStash(a) = Places(stash, At(stash, a), "stash", 0) /\ InStash(a)' = Places(t, At(t, a), "stash", 0)
      BY StashPlaces
    <3> QED  BY <2>1, <3>1 DEF Exchanged
  <2>6. ~ Writing(a) /\ ~ Writing(a)' /\ Accounted(a) /\ oracle'[a] = oracle[a] /\ LeafOf(a)' = LeafOf(a)
    BY <1>2, AtRest, AtRestNext
  <2> QED  BY <1>1, <2>2, <2>3, <2>4, <2>5, <2>6, AccountMoves
<1>5. ASSUME NEW n \in Kept' PROVE Fits(n, Contents(n))'
  <2>1. CASE n = n0
    BY <1>2, <2>1, FitsUnder
  <2>2. CASE n # n0
    <3>1. PICK d : d = Contents(n) /\ d = Contents(n)'
      BY <1>1, <1>3, <2>2
    <3>2. Fits(n, d)
      BY <1>1, <3>1 DEF BlocksInPlace
    <3> QED  BY <1>2, <3>1, <3>2, FitsUnder
  <2> QED  BY <2>1, <2>2
<1>6. (\A k \in 1 .. Len(stash) : stash[k].leaf = LeafOf(stash[k].addr))'
  <2>1. \A l \in 1 .. Len(t) : t[l].leaf = LeafOf(t[l].addr)'
    BY <1>2
  <2> QED  BY <2>1, StashUnder
<1> QED  BY <1>4, <1>5, <1>6 DEF BlocksInPlace, BlockIsTaken

LEMMA ReadSettles ==
    ASSUME IInv, LoopState, CopiesInv, UNCHANGED <<serverVars, oracle>>, ReadBucket
    PROVE  CopiesInv'
<1>1. CASE failed'
  BY <1>1, EndSettles DEF Accountable
<1>2. CASE ~ failed'
  <2> SUFFICES ASSUME Accountable'
               PROVE  BlocksInPlace' /\ (\A a \in Addr : Accounted(a)') /\ BlockIsTaken'
    BY DEF CopiesInv
  <2> DEFINE blocks == BlocksRead(resp.bucket)
  <2>1. /\ cpc = "bucket" /\ cpc' = "work" /\ resp.cmd = "bucket" /\ failed' = failed
        /\ block' = block /\ reads' = Tail(reads) /\ writes' = writes
        /\ posMap' = posMap /\ oracle' = oracle /\ tree' = tree
        /\ IF blocks = << >> THEN stash' = stash
           ELSE stash # Malformed /\ SaveStash(StashAfter(blocks, Len(blocks)))
    BY <1>2 DEF ReadBucket, Throws, serverVars, Loaded
  <2> HIDE DEF blocks
  <2>2. stash' # Malformed /\ stash # Malformed /\ ~ failed
    BY <2>1 DEF Accountable
  <2>3. Accountable
    BY <2>1, <2>2 DEF Accountable
  <2>4. BlocksInPlace /\ (\A a \in Addr : Accounted(a)) /\ stash \in Seq(Block)
    BY <2>3, StandingFacts DEF CopiesInv
  <2>5. block = NoBlock /\ reads # << >> /\ reads \in Seq(Nodes) /\ writes \in Seq(Nodes)
    BY <2>1 DEF IInv, CallState, TypeOK
  <2>6. PICK n0, b : n0 = Head(reads) /\ b = tree[n0] /\ b = resp.bucket
    BY <2>1 DEF IInv, RepliesAreTrue
  <2>7. n0 \in Nodes /\ b \in Buckets /\ b # NoBucket
    <3>1. n0 \in Nodes
      BY <2>5, <2>6
    <3>2. b # NoBucket
      BY <2>1, <2>6 DEF IInv, RepliesAreTrue
    <3> QED  BY <2>6, <3>1, <3>2 DEF IInv, TypeOK
  <2>8. Among(n0, reads) /\ Among(n0, writes)
    <3>1. 1 \in 1 .. Len(reads) /\ reads[1] = n0
      BY <2>5, <2>6
    <3> QED  BY <3>1 DEF Among, LoopState
  <2>9. Replaced' = Replaced \cup {n0}
    <3>1. \A n : Among(n, Tail(reads)) <=> Among(n, reads) /\ n # n0
      BY <2>5, <2>6, TailAmong DEF LoopState
    <3>2. \A n : (Among(n, reads)' <=> Among(n, Tail(reads))) /\ (Among(n, writes)' <=> Among(n, writes))
      BY <2>1 DEF Among
    <3> QED  BY <2>1, <2>7, <2>8, <3>1, <3>2 DEF Replaced
  <2>10. PICK c : c = ResetWithBlocks(<< >>, << >>)
    OBVIOUS
  <2>11. c \in FreshBuckets /\ c \in Buckets /\ ValidReals(c) = {} /\ \A n, a : ValidCopies(c, n, a) = {}
    BY <2>10, EmptyBucketFacts, FreshFacts
  <2>12. /\ Contents(n0) = b /\ Contents(n0)' = c
         /\ \A n \in Nodes \ {n0} : Contents(n)' = Contents(n)
    <3>1. n0 \notin Replaced
      BY <2>8 DEF Replaced
    <3>2. \A n \in Nodes : Contents(n) = IF n \in Replaced THEN c ELSE tree[n]
      BY <2>1, <2>10 DEF Contents
    <3>3. \A n \in Nodes : Contents(n)' = IF n \in Replaced' THEN c ELSE tree'[n]
      BY <2>1, <2>10 DEF Contents
    <3> HIDE DEF Contents, Replaced
    <3> QED  BY <2>1, <2>6, <2>7, <2>9, <3>1, <3>2, <3>3
  <2>13. n0 \in Kept /\ Fits(n0, b)
    BY <2>4, <2>7, <2>12 DEF Kept, BlocksInPlace
  <2>14. PICK t : t = stash'
    OBVIOUS
  <2>15. blocks \in Seq(Block) /\ t = StashAfter(blocks, Len(blocks))
    <3>1. blocks \in Seq(Block)
      BY <2>6, <2>7, BlocksReadType DEF blocks
    <3>2. CASE blocks = << >>
      <4>1. PICK f : StashSteps(f, blocks)
        BY <2>4, <3>1, StashAfterSteps, Zenon
      <4>2. Len(blocks) = 0 /\ 0 \in 0 .. Len(blocks)
        BY <3>2
      <4>3. StashAfter(blocks, Len(blocks)) = stash
        BY <4>1, <4>2 DEF StashSteps
      <4> QED  BY <2>1, <2>14, <3>1, <3>2, <4>3
    <3>3. CASE blocks # << >>
      BY <2>1, <2>2, <2>14, <3>1, <3>3 DEF SaveStash
    <3> QED  BY <3>2, <3>3
  <2>16. Exchanged(stash, b, t, c, n0) /\ Poured(stash, b, t)
    BY <2>4, <2>6, <2>7, <2>11, <2>15, PourCarries DEF blocks
  <2>18. Fits(n0, c)
    BY <2>11 DEF Fits
  <2>19. \A l \in 1 .. Len(t) : t[l].leaf = LeafOf(t[l].addr)
    BY <2>4, <2>13, <2>16 DEF BlocksInPlace, Fits, Poured
  <2>20. /\ UNCHANGED <<posMap, oracle>> /\ block' = NoBlock
         /\ cpc \notin {"metadata", "xor"} /\ cpc' \notin {"metadata", "xor"}
    BY <2>1, <2>5
  <2> QED  BY <2>4, <2>5, <2>11, <2>12, <2>13, <2>14, <2>16, <2>18, <2>19, <2>20, ExchangeSettles
<1> QED  BY <1>1, <1>2

\* What FillBucketFromStash leaves fits where it is.
LEMMA FillExchanges ==
    ASSUME NEW s \in Seq(Block), NEW n, NEW ptrs \in Layouts(Selected(s, n)),
           NEW c, c = ResetWithBlocks(Selected(s, n), ptrs), NEW t, t = Unselected(s, n)
    PROVE  /\ \A b : (\A a : ValidCopies(b, n, a) = {}) => Exchanged(s, b, t, c, n)
           /\ t \in Seq(Block) /\ c \in FreshBuckets
           /\ (\A k \in 1 .. Len(s) : s[k].leaf = LeafOf(s[k].addr)) =>
                Fits(n, c) /\ \A l \in 1 .. Len(t) : t[l].leaf = LeafOf(t[l].addr)
<1>1. PICK u : u = Selected(s, n)
  OBVIOUS
<1>2. u \in Seq(Block) /\ t \in Seq(Block) /\ c \in FreshBuckets
  BY <1>1, SelectedType, ResetType
<1>3. /\ \A a : Moves(CopiesOf(s, 1 .. Len(s), "stash", 0, a),
                      CopiesOf(t, 1 .. Len(t), "stash", 0, a) \cup ValidCopies(c, n, a))
      /\ \A i \in ValidReals(c) : \E k \in 1 .. Len(s) :
           /\ ResidesIn[n][s[k].leaf]
           /\ c.entries[i].leaf = s[k].leaf /\ c.entries[i].addr = s[k].addr
      /\ \A l \in 1 .. Len(t) : \E k \in 1 .. Len(s) : t[l] = s[k]
  <2> HIDE DEF Block
  <2>1. /\ \A a : Moves(CopiesOf(s, 1 .. Len(s), "stash", 0, a),
                        CopiesOf(t, 1 .. Len(t), "stash", 0, a) \cup ValidCopies(c, n, a))
    BY <1>1, FillCarries
  <2>2. \A i \in ValidReals(c) : \E k \in 1 .. Len(s) :
           /\ ResidesIn[n][s[k].leaf]
           /\ c.entries[i].leaf = s[k].leaf /\ c.entries[i].addr = s[k].addr
    BY <1>1, FillCarries
  <2>3. \A l \in 1 .. Len(t) : \E k \in 1 .. Len(s) : t[l] = s[k]
    BY <1>1, FillCarries
  <2> QED  BY <2>1, <2>2, <2>3
<1>4. ASSUME NEW b, \A a : ValidCopies(b, n, a) = {}
      PROVE  Exchanged(s, b, t, c, n)
  <2>1. ASSUME NEW a
        PROVE  Moves(Places(s, At(s, a), "stash", 0) \cup ValidCopies(b, n, a),
                     Places(t, At(t, a), "stash", 0) \cup ValidCopies(c, n, a))
    <3>1. /\ Places(s, At(s, a), "stash", 0) = CopiesOf(s, 1 .. Len(s), "stash", 0, a)
          /\ Places(t, At(t, a), "stash", 0) = CopiesOf(t, 1 .. Len(t), "stash", 0, a)
      BY AllAt
    <3>2. Places(s, At(s, a), "stash", 0) \cup ValidCopies(b, n, a) = Places(s, At(s, a), "stash", 0)
      BY <1>4
    <3> QED  BY <1>3, <3>1, <3>2
  <2> QED  BY <2>1 DEF Exchanged
<1>5. ASSUME \A k \in 1 .. Len(s) : s[k].leaf = LeafOf(s[k].addr)
      PROVE  Fits(n, c) /\ \A l \in 1 .. Len(t) : t[l].leaf = LeafOf(t[l].addr)
  BY <1>3, <1>5 DEF Fits
<1> QED  BY <1>2, <1>4, <1>5

LEMMA SendBucketSettles ==
    ASSUME IInv, LoopState, CopiesInv, UNCHANGED <<serverVars, oracle>>, WriteBucket
    PROVE  CopiesInv'
<1>1. CASE failed'
  BY <1>1, EndSettles DEF Accountable
<1>2. CASE ~ failed'
  <2> SUFFICES ASSUME Accountable'
               PROVE  BlocksInPlace' /\ (\A a \in Addr : Accounted(a)') /\ BlockIsTaken'
    BY DEF CopiesInv
  <2>1. PICK n0 : n0 = Head(writes)
    OBVIOUS
  <2>2. /\ cpc = "work" /\ cpc' = "ack" /\ reads = << >> /\ writes # << >> /\ failed' = failed
        /\ block' = block /\ reads' = reads /\ writes' = writes /\ resp' = resp
        /\ posMap' = posMap /\ oracle' = oracle /\ tree' = tree
        /\ stash # Malformed /\ SaveStash(Unselected(stash, n0))
    BY <1>2, <2>1 DEF WriteBucket, Throws, serverVars, Loaded
  <2>3. PICK ptrs \in Layouts(Selected(stash, n0)) :
           SendRequest([cmd |-> "W", node |-> n0, bucket |-> ResetWithBlocks(Selected(stash, n0), ptrs)])
    BY <1>2, <2>1 DEF WriteBucket, Throws
  <2>4. PICK t, c : t = stash' /\ c = ResetWithBlocks(Selected(stash, n0), ptrs)
    OBVIOUS
  <2>5. t = Unselected(stash, n0) /\ ~ failed
    BY <2>2, <2>4 DEF Accountable, SaveStash
  <2>6. Accountable
    BY <2>2, <2>5 DEF Accountable
  <2>7. BlocksInPlace /\ (\A a \in Addr : Accounted(a)) /\ stash \in Seq(Block)
    BY <2>6, StandingFacts DEF CopiesInv
  <2>8. block = NoBlock /\ writes \in Seq(Nodes) /\ req = NoMsg /\ resp = NoMsg
    BY <2>2, QuietFacts DEF IInv, CallState, TypeOK
  <2>9. req'.cmd = "W" /\ req'.bucket = c
    <3>1. req' # NoMsg
      BY <2>2, <2>8 DEF Accountable
    <3> QED  BY <2>3, <2>4, <2>8, <3>1 DEF SendRequest
  <2>10. n0 \in Nodes /\ Among(n0, writes) /\ \A n : ~ Among(n, reads)
    <3>1. 1 \in 1 .. Len(writes) /\ writes[1] = n0 /\ n0 \in Nodes
      BY <2>1, <2>2, <2>8
    <3> QED  BY <2>2, <3>1 DEF Among
  <2>11. n0 \in Replaced /\ Replaced' = Replaced \ {n0}
    <3>1. \A n : (Among(n, reads)' <=> Among(n, reads)) /\ (Among(n, writes)' <=> Among(n, writes))
      BY <2>2 DEF Among
    <3> QED  BY <2>1, <2>2, <2>10, <3>1 DEF Replaced
  <2>12. PICK b : b = ResetWithBlocks(<< >>, << >>)
    OBVIOUS
  <2>13. b \in Buckets /\ b # NoBucket /\ \A a : ValidCopies(b, n0, a) = {}
    BY <2>12, EmptyBucketFacts, FreshFacts, NoBucketApart
  <2>14. /\ Contents(n0) = b /\ Contents(n0)' = c
         /\ \A n \in Nodes \ {n0} : Contents(n)' = Contents(n)
    <3>1. \A n \in Nodes : Contents(n) = IF n \in Replaced THEN b ELSE tree[n]
      BY <2>2, <2>12 DEF Contents
    <3>2. \A n \in Nodes : Contents(n)' = IF n \in Replaced' THEN b ELSE IF n = n0 THEN c ELSE tree'[n]
      <4>1. n0 \notin Replaced'
        BY <2>11
      <4>2. Head(writes)' = n0 /\ Head(writes') = n0
        BY <2>1, <2>2
      <4> HIDE DEF Replaced
      <4> QED  BY <2>2, <2>9, <2>12, <4>1, <4>2 DEF Contents
    <3> HIDE DEF Contents, Replaced
    <3> QED  BY <2>2, <2>10, <2>11, <3>1, <3>2
  <2>15. n0 \in Kept
    BY <2>10, <2>13, <2>14 DEF Kept
  <2>16. Exchanged(stash, b, t, c, n0) /\ c \in FreshBuckets
    BY <2>4, <2>5, <2>7, <2>13, FillExchanges
  <2>17. Fits(n0, c) /\ \A l \in 1 .. Len(t) : t[l].leaf = LeafOf(t[l].addr)
    <3>1. \A k \in 1 .. Len(stash) : stash[k].leaf = LeafOf(stash[k].addr)
      BY <2>7 DEF BlocksInPlace
    <3> QED  BY <2>4, <2>5, <2>7, <3>1, FillExchanges
  <2>18. c \in Buckets
    BY <2>16, FreshFacts
  <2>19. /\ UNCHANGED <<posMap, oracle>> /\ block' = NoBlock
         /\ cpc \notin {"metadata", "xor"} /\ cpc' \notin {"metadata", "xor"}
    BY <2>2, <2>8
  <2> QED  BY <2>4, <2>7, <2>8, <2>14, <2>15, <2>16, <2>17, <2>18, <2>19, ExchangeSettles
<1> QED  BY <1>1, <1>2

\* The constructor shares all blocks out over the tree, the last bucket first.
\* What it has filled when k buckets are done, given their contents.
Filled(c, k, a) == UNION {ValidCopies(c[n], n, a) : n \in {m \in Nodes : m >= NumTreeNodes - k}}

SharedOut(c, k, a) == Places(Remaining[k], At(Remaining[k], a), "stash", 0) \cup Filled(c, k, a)

LEMMA SharesOut ==
    ASSUME CallInv, cpc = "build", stash \in Seq(Block), posMap \in [Addr -> Leaves], NEW c,
           \A n \in Nodes : \E ptrs \in Layouts(InitialBlocks(n)) :
              c[n] = ResetWithBlocks(InitialBlocks(n), ptrs)
    PROVE  /\ \A n \in Nodes : c[n] \in Buckets /\ Fits(n, c[n])
           /\ \A k \in 1 .. Len(Remaining[NumTreeNodes]) :
                Remaining[NumTreeNodes][k].leaf = LeafOf(Remaining[NumTreeNodes][k].addr)
           /\ \A a \in Addr : \E x : SharedOut(c, NumTreeNodes, a) = {x} /\ x[4] = Zero
<1>1. PICK N, R : N = NumTreeNodes /\ R = Remaining
  OBVIOUS
<1>2. /\ N \in Nat /\ R \in [0 .. N -> Seq(Block)] /\ R[0] = stash /\ N \in 0 .. N /\ 0 \in 0 .. N
      /\ \A k \in 1 .. N : R[k] = Unselected(R[k - 1], N - k)
  BY <1>1, Constants, RemainingSteps
<1>3. \A a : LeafOf(a) = posMap[a]
  BY DEF LeafOf
<1>4. ASSUME NEW k \in 1 .. N
      PROVE  /\ k - 1 \in 0 .. N /\ k \in 0 .. N /\ N - k \in Nodes /\ InitialBlocks(N - k) = Selected(R[k - 1], N - k)
             /\ R[k - 1] \in Seq(Block)
  <2>1. k - 1 \in 0 .. N /\ k \in 0 .. N /\ N - k \in Nodes /\ N - 1 - (N - k) = k - 1
    BY <1>1, <1>2 DEF Nodes
  <2>2. InitialBlocks(N - k) = Selected(R[N - 1 - (N - k)], N - k)
    BY <1>1 DEF InitialBlocks
  <2> HIDE DEF Block
  <2> QED  BY <1>2, <2>1, <2>2
<1> DEFINE InPlace(k) == \A l \in 1 .. Len(R[k]) : R[k][l].leaf = LeafOf(R[k][l].addr)
<1>5. ASSUME NEW k \in 1 .. N, InPlace(k - 1)
      PROVE  InPlace(k) /\ c[N - k] \in Buckets /\ Fits(N - k, c[N - k])
  <2>1. PICK s, t, n, d : s = R[k - 1] /\ t = R[k] /\ n = N - k /\ d = c[N - k]
    OBVIOUS
  <2>2. /\ s \in Seq(Block) /\ n \in Nodes /\ t = Unselected(s, n) /\ InitialBlocks(n) = Selected(s, n)
    BY <1>2, <1>4, <2>1
  <2>3. PICK ptrs \in Layouts(Selected(s, n)) : d = ResetWithBlocks(Selected(s, n), ptrs)
    BY <2>1, <2>2
  <2>4. \A l \in 1 .. Len(s) : s[l].leaf = LeafOf(s[l].addr)
    BY <1>5, <2>1
  <2>5. d \in FreshBuckets /\ Fits(n, d) /\ \A l \in 1 .. Len(t) : t[l].leaf = LeafOf(t[l].addr)
    BY <2>2, <2>3, <2>4, FillExchanges
  <2> QED  BY <2>1, <2>5, FreshFacts
<1>6. /\ InPlace(0)
      /\ \A a \in Addr : \E x : SharedOut(c, 0, a) = {x} /\ x[4] = Zero
  <2>1. stash = [k \in 1 .. NumBlocks |-> [addr |-> k - 1, leaf |-> posMap[k - 1], data |-> Zero]]
    BY DEF CallInv
  <2>2. /\ NumBlocks \in Nat /\ Len(stash) = NumBlocks
        /\ \A k \in 1 .. NumBlocks : /\ stash[k].addr = k - 1 /\ stash[k].leaf = posMap[k - 1]
                                     /\ stash[k].data = Zero
    BY <2>1, Constants
  <2>3. InPlace(0)
    BY <1>2, <1>3, <2>2
  <2>4. ASSUME NEW a \in Addr PROVE \E x : SharedOut(c, 0, a) = {x} /\ x[4] = Zero
    <3>1. a + 1 \in 1 .. NumBlocks /\ \A k \in 1 .. NumBlocks : k - 1 = a <=> k = a + 1
      BY <2>2 DEF Addr
    <3>2. At(stash, a) = {a + 1}
      BY <2>2, <3>1 DEF At
    <3>3. Filled(c, 0, a) = {}
      <4>1. {m \in Nodes : m >= NumTreeNodes - 0} = {}
        BY <1>1, <1>2 DEF Nodes
      <4> QED  BY <4>1 DEF Filled
    <3>4. PICK x : x = <<"stash", 0, a + 1, stash[a + 1].data>>
      OBVIOUS
    <3>5. Places(stash, At(stash, a), "stash", 0) = {x}
      BY <3>2, <3>4, PlacesFacts
    <3>6. x[4] = Zero
      BY <2>2, <3>1, <3>4
    <3>7. SharedOut(c, 0, a) = {x}
      BY <1>1, <1>2, <3>3, <3>5 DEF SharedOut
    <3> QED  BY <3>6, <3>7
  <2> QED  BY <2>3, <2>4
<1>7. ASSUME NEW a \in Addr, NEW k \in 1 .. N, \E x : SharedOut(c, k - 1, a) = {x} /\ x[4] = Zero
      PROVE  \E x : SharedOut(c, k, a) = {x} /\ x[4] = Zero
  <2>1. PICK s, t, n, d : s = R[k - 1] /\ t = R[k] /\ n = N - k /\ d = c[N - k]
    OBVIOUS
  <2>2. /\ s \in Seq(Block) /\ n \in Nodes /\ t = Unselected(s, n) /\ InitialBlocks(n) = Selected(s, n)
    BY <1>2, <1>4, <2>1
  <2>3. PICK ptrs \in Layouts(Selected(s, n)) : d = ResetWithBlocks(Selected(s, n), ptrs)
    BY <2>1, <2>2
  <2>4. PICK O, F, T : /\ O = Filled(c, k - 1, a) /\ F = Places(s, At(s, a), "stash", 0)
                       /\ T = Places(t, At(t, a), "stash", 0) \cup ValidCopies(d, n, a)
    OBVIOUS
  <2>5. Moves(F, T)
    <3>1. PICK b : b = ResetWithBlocks(<< >>, << >>)
      OBVIOUS
    <3>2. \A o : ValidCopies(b, n, o) = {}
      BY <3>1, EmptyBucketFacts
    <3>3. Exchanged(s, b, t, d, n)
      BY <2>2, <2>3, <3>2, FillExchanges
    <3>4. F \cup ValidCopies(b, n, a) = F
      BY <3>2
    <3> QED  BY <2>4, <3>3, <3>4 DEF Exchanged
  <2>6. O \cap F = {}
    <3>1. \A x \in O : x[1] = "tree"
      <4> SUFFICES ASSUME NEW x \in O PROVE x[1] = "tree"
        OBVIOUS
      <4>1. PICK m : x \in ValidCopies(c[m], m, a)
        BY <2>4 DEF Filled
      <4> QED  BY <4>1, CopiesApart
    <3>2. \A x \in F : x[1] = "stash"
      BY <2>4, PlacesFacts
    <3> QED  BY <3>1, <3>2
  <2>7. SharedOut(c, k - 1, a) = O \cup F
    BY <1>1, <2>1, <2>4 DEF SharedOut
  <2>8. SharedOut(c, k, a) = O \cup T
    <3>1. {m \in Nodes : m >= N - k} = {m \in Nodes : m >= N - (k - 1)} \cup {n}
      <4>1. \A m \in Nodes : m \in Nat
        BY <1>1, <1>2 DEF Nodes
      <4>2. \A m \in Nodes : (m >= N - k) <=> (m >= N - (k - 1) \/ m = n)
        <5>1. k \in Nat
          BY <1>2
        <5>2. \A m, p, q \in Nat : (m >= p - q) <=> (m >= p - (q - 1) \/ m = p - q)
          OBVIOUS
        <5> QED  BY <1>2, <2>1, <4>1, <5>1, <5>2
      <4> QED  BY <2>2, <4>2
    <3>2. Filled(c, k, a) = Filled(c, k - 1, a) \cup ValidCopies(d, n, a)
      <4> HIDE DEF ValidCopies
      <4> QED  BY <1>1, <2>1, <3>1 DEF Filled
    <3>3. SharedOut(c, k, a) = Places(t, At(t, a), "stash", 0) \cup Filled(c, k, a)
      BY <1>1, <2>1 DEF SharedOut
    <3> QED  BY <2>4, <3>2, <3>3
  <2>9. Moves(O, O)
    BY DEF Moves
  <2>10. Moves(O \cup F, O \cup T)
    BY <2>5, <2>6, <2>9, MovesTogether
  <2>11. PICK x : O \cup F = {x} /\ x[4] = Zero
    BY <1>7, <2>7
  <2>12. \E y : O \cup T = {y} /\ y[4] = x[4]
    BY <2>10, <2>11 DEF Moves
  <2> QED  BY <2>8, <2>11, <2>12
<1> DEFINE Holds(k) == InPlace(k) /\ \A a \in Addr : \E x : SharedOut(c, k, a) = {x} /\ x[4] = Zero
           U == {k \in 0 .. N : ~ Holds(k)}
<1>8. Holds(0) /\ \A k \in 1 .. N : Holds(k - 1) => Holds(k)
  <2>1. ASSUME NEW k \in 1 .. N, Holds(k - 1) PROVE Holds(k)
    <3> HIDE DEF InPlace
    <3> QED  BY <1>5, <1>7, <2>1
  <2> HIDE DEF InPlace
  <2> QED  BY <1>6, <2>1
<1> HIDE DEF Holds
<1>9. \A k \in 0 .. N : Holds(k)
  <2> SUFFICES ASSUME U # {} PROVE FALSE
    OBVIOUS
  <2>1. PICK k \in U : \A j \in U : k <= j
    BY <1>2, LeastNatural, U \subseteq Nat
  <2>2. k \in 0 .. N /\ ~ Holds(k) /\ k # 0
    BY <1>8
  <2>3. k \in 1 .. N /\ k - 1 \in 0 .. N
    BY <1>2, <2>2
  <2>4. Holds(k - 1)
    <3>1. k - 1 \notin U
      BY <1>2, <2>1, <2>3
    <3> QED  BY <2>3, <3>1
  <2> QED  BY <1>8, <2>2, <2>3, <2>4
<1>10. ASSUME NEW n \in Nodes PROVE c[n] \in Buckets /\ Fits(n, c[n])
  <2>1. PICK k : k = N - n
    OBVIOUS
  <2>2. k \in 1 .. N /\ k - 1 \in 0 .. N /\ N - k = n
    BY <1>1, <1>2, <2>1 DEF Nodes
  <2>3. InPlace(k - 1)
    BY <1>9, <2>2 DEF Holds
  <2> HIDE DEF InPlace
  <2> QED  BY <1>5, <2>2, <2>3
<1>11. Holds(N)
  BY <1>2, <1>9
<1> QED  BY <1>1, <1>10, <1>11 DEF Holds

LEMMA LoadSettles ==
    ASSUME IInv, CallInv, UNCHANGED <<serverVars, oracle>>, InitializeServerStorage
    PROVE  CopiesInv'
<1> SUFFICES ASSUME Accountable'
             PROVE  BlocksInPlace' /\ (\A a \in Addr : Accounted(a)') /\ BlockIsTaken'
  BY DEF CopiesInv
<1>1. /\ cpc = "build" /\ cpc' = "init" /\ stash \in Seq(Block) /\ posMap \in [Addr -> Leaves]
      /\ resp' = resp /\ block' = block /\ writes' = writes /\ posMap' = posMap /\ oracle' = oracle
      /\ req = NoMsg /\ resp = NoMsg /\ block = NoBlock /\ writes = << >>
      /\ SaveStash(Remaining[NumTreeNodes])
  BY QuietFacts DEF InitializeServerStorage, IInv, CallState, TypeOK
<1>2. PICK N : N = NumTreeNodes /\ N \in Nat
  BY Constants
<1>3. PICK ptrs \in InitialLayouts :
         SendRequest([cmd     |-> "I",
                      buckets |-> [k \in 1 .. NumTreeNodes |-> ResetWithBlocks(InitialBlocks(k - 1), ptrs[k - 1])]])
  BY DEF InitializeServerStorage
<1>4. PICK t : t = stash' /\ t = Remaining[N]
  BY <1>1, <1>2 DEF Accountable, SaveStash
<1>5. PICK bs : bs = [k \in 1 .. N |-> ResetWithBlocks(InitialBlocks(k - 1), ptrs[k - 1])]
  OBVIOUS
<1>6. req'.cmd = "I" /\ req'.buckets = bs /\ Len(bs) = N
  <2>1. req' # NoMsg
    BY <1>1 DEF Accountable
  <2>2. req' = [cmd |-> "I", buckets |-> bs]
    BY <1>1, <1>2, <1>3, <1>5, <2>1 DEF SendRequest
  <2> QED  BY <1>2, <1>5, <2>2
<1>7. PICK c : c = [n \in Nodes |-> ResetWithBlocks(InitialBlocks(n), ptrs[n])]
  OBVIOUS
<1>8. \A n \in Nodes : Contents(n)' = c[n]
  <2> SUFFICES ASSUME NEW n \in Nodes PROVE Contents(n)' = c[n]
    OBVIOUS
  <2>1. n \in Nat /\ n < N
    BY <1>2 DEF Nodes
  <2>2. n >= N - N /\ n + N - N + 1 = n + 1 /\ n + 1 \in 1 .. N /\ (n + 1) - 1 = n
    BY <1>2, <2>1
  <2>3. Replaced' = {}
    BY <1>1 DEF Replaced, Among
  <2>4. Contents(n)' = bs[n + 1]
    BY <1>1, <1>2, <1>6, <2>2, <2>3 DEF Contents
  <2>5. bs[n + 1] = ResetWithBlocks(InitialBlocks(n), ptrs[n])
    <3>1. bs[n + 1] = ResetWithBlocks(InitialBlocks((n + 1) - 1), ptrs[(n + 1) - 1])
      BY <1>5, <2>2
    <3> QED  BY <2>2, <3>1
  <2> HIDE DEF Contents
  <2> QED  BY <1>7, <2>4, <2>5
<1>9. \A n \in Nodes : \E p \in Layouts(InitialBlocks(n)) : c[n] = ResetWithBlocks(InitialBlocks(n), p)
  BY <1>3, <1>7 DEF InitialLayouts
<1>10. /\ \A n \in Nodes : c[n] \in Buckets /\ Fits(n, c[n])
       /\ \A k \in 1 .. Len(t) : t[k].leaf = LeafOf(t[k].addr)
       /\ \A a \in Addr : \E x : SharedOut(c, N, a) = {x} /\ x[4] = Zero
  <2>1. t = Remaining[NumTreeNodes]
    BY <1>2, <1>4
  <2>2. /\ \A n \in Nodes : c[n] \in Buckets /\ Fits(n, c[n])
        /\ \A k \in 1 .. Len(Remaining[NumTreeNodes]) :
             Remaining[NumTreeNodes][k].leaf = LeafOf(Remaining[NumTreeNodes][k].addr)
        /\ \A a \in Addr : \E x : SharedOut(c, NumTreeNodes, a) = {x} /\ x[4] = Zero
    BY <1>1, <1>9, SharesOut
  <2> HIDE DEF Fits, LeafOf, SharedOut
  <2> QED  BY <1>2, <2>1, <2>2
<1>11. \A a : LeafOf(a)' = LeafOf(a)
  BY <1>1, LeavesStill
<1>12. Kept' = Nodes
  <2>1. \A n \in Nodes : Contents(n)' # NoBucket
    <3> HIDE DEF Contents
    <3> QED  BY <1>8, <1>10, NoBucketApart
  <2> QED  BY <2>1 DEF Kept
<1>13. ASSUME NEW a \in Addr PROVE Accounted(a)'
  <2>1. Copies(a)' = InTree(a)' \cup InStash(a)' /\ ~ Writing(a)'
    BY <1>1, AtRestNext
  <2>2. InTree(a)' = Filled(c, N, a)
    <3>1. InTree(a)' = UNION {ValidCopies(Contents(n)', n, a) : n \in Kept'}
      BY DEF InTree, ValidCopies, CopiesOf, ValidReals
    <3>2. {m \in Nodes : m >= N - N} = Nodes
      BY <1>2 DEF Nodes
    <3>3. Filled(c, N, a) = UNION {ValidCopies(c[n], n, a) : n \in Nodes}
      BY <1>2, <3>2 DEF Filled
    <3> HIDE DEF Contents, Kept
    <3> QED  BY <1>8, <1>12, <3>1, <3>3
  <2>3. InStash(a)' = Places(t, At(t, a), "stash", 0)
    BY <1>4, StashPlaces
  <2>4. PICK x : SharedOut(c, N, a) = {x} /\ x[4] = Zero
    BY <1>10
  <2>5. Copies(a)' = {x}
    BY <1>4, <2>1, <2>2, <2>3, <2>4 DEF SharedOut
  <2>6. oracle'[a] = Zero
    BY <1>1 DEF CallInv
  <2> QED  BY <2>1, <2>4, <2>5, <2>6 DEF Accounted
<1>14. ASSUME NEW n \in Kept' PROVE Fits(n, Contents(n))'
  BY <1>8, <1>10, <1>11, <1>12, FitsUnder
<1>15. (\A k \in 1 .. Len(stash) : stash[k].leaf = LeafOf(stash[k].addr))'
  <2>1. \A l \in 1 .. Len(t) : t[l].leaf = LeafOf(t[l].addr)'
    BY <1>10, <1>11
  <2> QED  BY <1>4, <2>1, StashUnder
<1> QED  BY <1>1, <1>13, <1>14, <1>15 DEF BlocksInPlace, BlockIsTaken

LEMMA ClientCopies ==
    ASSUME IInv, LoopState, CallInv, CopiesInv, ClientNext
    PROVE  CopiesInv'
<1>1. UNCHANGED serverVars
  BY DEF ClientNext
<1>2. CASE PutBlock /\ oracle' = IF call.op = "WRITE" /\ result' # NoResult
                                 THEN [oracle EXCEPT ![call.addr] = call.data] ELSE oracle
  BY <1>1, <1>2, PutSettles
<1>3. CASE oracle' = oracle /\ \E c \in Calls : Access(c)
  BY <1>1, <1>3, AccessSettles
<1>4. CASE /\ oracle' = oracle
           /\ FetchServerStats \/ StatsFetched \/ Return \/ RequestBucket \/ RequestCount \/ EarlyReshuffle
  BY <1>1, <1>4, NothingMoves
<1>5. CASE oracle' = oracle /\ (ConstructorThrows \/ DestroyClient \/ RecvThrows)
  BY <1>1, <1>5, EndsSettle
<1>6. CASE oracle' = oracle /\ InitializeServerStorage
  BY <1>1, <1>6, LoadSettles
<1>7. CASE oracle' = oracle /\ Constructed
  BY <1>1, <1>7, ConstructedSettles
<1>8. CASE oracle' = oracle /\ BucketWritten
  BY <1>1, <1>8, WrittenSettles
<1>9. CASE oracle' = oracle /\ SelectOffsets
  BY <1>1, <1>9, SelectSettles
<1>10. CASE oracle' = oracle /\ TakeBlock
  BY <1>1, <1>10, TakeSettles
<1>11. CASE oracle' = oracle /\ ReadBucket
  BY <1>1, <1>11, ReadSettles
<1>12. CASE oracle' = oracle /\ WriteBucket
  BY <1>1, <1>12, SendBucketSettles
<1> QED  BY <1>2, <1>3, <1>4, <1>5, <1>6, <1>7, <1>8, <1>9, <1>10, <1>11, <1>12 DEF ClientNext
-----------------------------------------------------------------------------
\* The rest of the invariant.
LEMMA TailDistinct ==
    ASSUME NEW s \in Seq(Nodes), s # << >>, Distinct(s)
    PROVE  Distinct(Tail(s))
<1>1. /\ Len(s) \in Nat \ {0} /\ Len(Tail(s)) = Len(s) - 1
      /\ \A k \in 1 .. Len(s) - 1 : Tail(s)[k] = s[k + 1] /\ k + 1 \in 1 .. Len(s)
  OBVIOUS
<1> SUFFICES ASSUME NEW i \in 1 .. Len(s) - 1, NEW j \in 1 .. Len(s) - 1, Tail(s)[i] = Tail(s)[j]
             PROVE  i = j
  BY <1>1 DEF Distinct
<1>2. i + 1 = j + 1
  BY <1>1 DEF Distinct
<1> QED  BY <1>1, <1>2

LEMMA LoopKept ==
    ASSUME IInv, LoopState, ClientNext
    PROVE  LoopState'
<1>1. /\ reads \in Seq(Nodes) /\ writes \in Seq(Nodes)
      /\ Distinct(reads) /\ Distinct(writes) /\ \A k \in 1 .. Len(reads) : Among(reads[k], writes)
      /\ cpc = "ack" => reads = << >> /\ writes # << >>
      /\ cpc = "bucket" => reads # << >>
  BY DEF LoopState, IInv, TypeOK, CallState
<1>2. \A r, w : reads' = r /\ writes' = w /\ Distinct(r) /\ Distinct(w)
                  /\ (\A k \in 1 .. Len(r) : Among(r[k], w)) => LoopState'
  BY DEF LoopState, Distinct, Among
<1>3. CASE reads' = reads /\ writes' = writes
  BY <1>1, <1>2, <1>3
<1>4. CASE reads' = << >> /\ writes' = << >>
  <2>1. Distinct(<< >>) /\ \A k \in 1 .. Len(<< >>) : Among(<< >>[k], << >>)
    BY DEF Distinct
  <2> QED  BY <1>2, <1>4, <2>1
<1>5. CASE \E leaf \in Leaves : reads' = Paths[leaf] /\ writes' = Reverse(Paths[leaf])
  <2>1. PICK leaf \in Leaves : reads' = Paths[leaf] /\ writes' = Reverse(Paths[leaf])
    BY <1>5
  <2>2. PICK p, q : p = Paths[leaf] /\ q = Reverse(p)
    OBVIOUS
  <2>3. Distinct(p) /\ Distinct(q) /\ \A n : Among(n, q) <=> Among(n, p)
    BY <2>2, PathDistinct, ReverseFacts
  <2>4. \A k \in 1 .. Len(p) : Among(p[k], q)
    BY <2>3 DEF Among
  <2> QED  BY <1>2, <2>1, <2>2, <2>3, <2>4
<1>6. CASE ReadBucket /\ reads' = Tail(reads) /\ writes' = writes
  <2>1. reads # << >>
    BY <1>1, <1>6 DEF ReadBucket
  <2>2. Distinct(Tail(reads)) /\ Len(Tail(reads)) = Len(reads) - 1
        /\ \A k \in 1 .. Len(reads) - 1 : Tail(reads)[k] = reads[k + 1] /\ k + 1 \in 1 .. Len(reads)
    BY <1>1, <2>1, TailDistinct
  <2> QED  BY <1>1, <1>2, <1>6, <2>2
<1>7. CASE BucketWritten
  <2>1. cpc = "ack" /\ reads' = reads /\ writes' = Tail(writes)
    BY <1>7 DEF BucketWritten
  <2>2. PICK r, w : r = reads /\ w = Tail(writes)
    OBVIOUS
  <2>3. Distinct(r) /\ Distinct(w)
    BY <1>1, <2>1, <2>2, TailDistinct
  <2>4. \A k \in 1 .. Len(r) : Among(r[k], w)
    BY <1>1, <2>1, <2>2
  <2> QED  BY <1>2, <2>1, <2>2, <2>3, <2>4
<1>8. CASE \E n : reads' = <<n>> /\ writes' = <<n>>
  <2>1. PICK n, p : p = <<n>> /\ reads' = p /\ writes' = p
    BY <1>8
  <2>2. p = <<n>>
    BY <2>1
  <2>3. Len(p) = 1 /\ \A k \in 1 .. Len(p) : k = 1
    BY <2>2
  <2>4. Distinct(p) /\ \A k \in 1 .. Len(p) : Among(p[k], p)
    BY <2>3 DEF Distinct, Among
  <2> QED  BY <1>2, <2>1, <2>2, <2>4
<1>9. PutBlock => \/ reads' = reads /\ writes' = writes
                  \/ reads' = << >> /\ writes' = << >>
                  \/ \E leaf \in Leaves : reads' = Paths[leaf] /\ writes' = Reverse(Paths[leaf])
  BY EvictionLeafType DEF PutBlock, Throws, EndOfCall
<1>10. ReadBucket => \/ reads' = << >> /\ writes' = << >>
                     \/ reads' = Tail(reads) /\ writes' = writes
  BY DEF ReadBucket, Throws, EndOfCall
<1>11. EarlyReshuffle => \/ reads' = reads /\ writes' = writes
                         \/ \E n : reads' = <<n>> /\ writes' = <<n>>
  BY DEF EarlyReshuffle
<1>12. SelectOffsets \/ TakeBlock \/ WriteBucket \/ Return \/ RecvThrows =>
         \/ reads' = reads /\ writes' = writes
         \/ reads' = << >> /\ writes' = << >>
  BY DEF SelectOffsets, TakeBlock, WriteBucket, Return, RecvThrows, Throws, EndOfCall
<1>13. (\E c \in Calls : Access(c)) \/ FetchServerStats \/ DestroyClient
         \/ InitializeServerStorage \/ Constructed \/ ConstructorThrows
         \/ RequestBucket \/ RequestCount \/ StatsFetched => reads' = reads /\ writes' = writes
  BY DEF Access, FetchServerStats, DestroyClient, InitializeServerStorage, Constructed, ConstructorThrows,
         RequestBucket, RequestCount, StatsFetched
<1> QED  BY <1>3, <1>4, <1>5, <1>6, <1>7, <1>8, <1>9, <1>10, <1>11, <1>12, <1>13 DEF ClientNext

\* CallInv, a part at a time.
RequestsFit ==
    /\ req.cmd = "W" => failed \/ cpc = "ack"
    /\ req.cmd = "I" => cpc \in {"init", "destroyed"}

Building ==
    cpc = "build" =>
      /\ stash = [k \in 1 .. NumBlocks |-> [addr |-> k - 1, leaf |-> posMap[k - 1], data |-> Zero]]
      /\ oracle = [a \in Addr |-> Zero]

Putting ==
    cpc = "put" =>
      /\ block.leaf = posMap[block.addr]
      /\ call.op = "WRITE" => block.data = call.data

Expecting ==
    cpc \in {"xor", "ack"} /\ conn = "up" /\ spc \notin {"left", "destroyed"} =>
      req # NoMsg \/ resp # NoMsg

LEMMA CallParts ==
    /\ CallInv <=> RequestsFit /\ Building /\ Putting /\ Expecting
    /\ CallInv' <=> RequestsFit' /\ Building' /\ Putting' /\ Expecting'
BY DEF CallInv, RequestsFit, Building, Putting, Expecting

LEMMA CallKeptByServer ==
    ASSUME IInv, CallInv, ServerNext
    PROVE  CallInv'
<1>1. UNCHANGED <<clientVars, oracle>> /\ cpc' = cpc /\ failed' = failed
  BY DEF ServerNext, clientVars
<1>2. /\ Building /\ Putting /\ RequestsFit /\ Expecting
      /\ spc = "init" => req.cmd = "I"
  BY CallParts DEF IInv, Conversation
<1>3. Building' /\ Putting'
  BY <1>1, <1>2 DEF Building, Putting, clientVars
<1>4. RequestsFit'
  <2>1. req' = req \/ req' = NoMsg \/ (req.cmd = "I" /\ req'.cmd = "I")
    BY <1>2 DEF ServerNext, StartHandleRequests, Stop, DestroyServer, ServerStep, HandleInit, InitBucket, AckInit,
           HandleReadPathMetadata, HandleXorPathSlots, XorSlot, AnswerXor, HandleReadBucket,
           HandleWriteBucket, HandleReadBucketCount, HandleReadStats, HandleQuit, ServerRecvThrows,
           Answer, Consume
  <2> QED  BY <1>1, <1>2, <2>1, NoMsgFacts DEF RequestsFit
<1>5. Expecting'
  <2> SUFFICES ASSUME cpc \in {"xor", "ack"}, conn' = "up", spc' \notin {"left", "destroyed"}
               PROVE  req' # NoMsg \/ resp' # NoMsg
    BY <1>1 DEF Expecting
  <2>1. CASE StartHandleRequests \/ Stop \/ DestroyServer
    BY <1>2, <2>1 DEF StartHandleRequests, Stop, DestroyServer, Expecting
  <2>2. CASE HandleInit \/ InitBucket
    <3>1. spc # "left" /\ spc # "destroyed" /\ resp' = resp /\ (req' = req \/ req'.cmd = "I") /\ conn' = conn
      BY <2>2 DEF HandleInit, InitBucket, Leave, Consume, Command
    <3> QED  BY <1>2, <3>1, NoMsgFacts DEF Expecting
  <2>3. CASE \E m, possible, mayThrow : m.cmd # "none" /\ conn' = conn /\ Answer(m, possible, mayThrow)
    <3>1. PICK m, possible, mayThrow : m.cmd # "none" /\ conn' = conn /\ Answer(m, possible, mayThrow)
      BY <2>3
    <3>2. resp' = m
      BY <3>1 DEF Answer, Leave, SendReply
    <3> QED  BY <3>1, <3>2, NoMsgFacts
  <2>4. CASE HandleXorPathSlots \/ XorSlot
    <3>1. spc # "left" /\ spc # "destroyed" /\ resp' = resp /\ req' = req /\ conn' = conn
      BY <2>4 DEF HandleXorPathSlots, XorSlot, Leave, Command
    <3> QED  BY <1>2, <3>1 DEF Expecting
  <2>5. CASE HandleQuit \/ ServerRecvThrows
    BY <2>5 DEF HandleQuit, ServerRecvThrows, Leave
  <2>6. CASE HandleWriteBucket
    <3>1. resp' = [cmd |-> "ack"]
      BY <2>6 DEF HandleWriteBucket, Answer, Leave, SendReply
    <3> QED  BY <3>1, NoMsgFacts
  <2>7. CASE AckInit
    <3>1. resp' = [cmd |-> "ack"]
      BY <2>7 DEF AckInit, Answer, Leave, SendReply
    <3> QED  BY <3>1, NoMsgFacts
  <2>8. CASE HandleReadPathMetadata
    <3>1. resp'.cmd = "metadata"
      BY <2>8 DEF HandleReadPathMetadata, Answer, Leave, SendReply
    <3> QED  BY <3>1, NoMsgFacts
  <2>9. CASE AnswerXor
    <3>1. resp'.cmd = "xor"
      BY <2>9 DEF AnswerXor, Answer, Leave, SendReply
    <3> QED  BY <3>1, NoMsgFacts
  <2>10. CASE HandleReadBucket \/ HandleReadBucketCount \/ HandleReadStats
    <3>1. resp'.cmd \in {"bucket", "count", "stats"}
      BY <2>10 DEF HandleReadBucket, HandleReadBucketCount, HandleReadStats, Answer, Leave, SendReply
    <3> QED  BY <3>1, NoMsgFacts
  <2> QED  BY <2>1, <2>2, <2>4, <2>5, <2>6, <2>7, <2>8, <2>9, <2>10 DEF ServerNext, ServerStep
<1> QED  BY <1>3, <1>4, <1>5, CallParts

LEMMA CallKeptByClient ==
    ASSUME IInv, CallInv, ClientNext
    PROVE  CallInv'
<1>1. UNCHANGED serverVars /\ spc' = spc
  BY DEF ClientNext, serverVars
<1>2. RequestsFit
  BY CallParts
<1>3. cpc' # "build"
  BY DEF ClientNext, Access, FetchServerStats, DestroyClient, InitializeServerStorage, Constructed,
         ConstructorThrows, SelectOffsets, TakeBlock, RequestBucket, ReadBucket, WriteBucket, BucketWritten,
         RequestCount, EarlyReshuffle, Return, StatsFetched, RecvThrows, PutBlock, Throws, EndOfCall
<1>4. ASSUME cpc' = "put" PROVE /\ block'.leaf = posMap'[block'.addr]
                                /\ call'.op = "WRITE" => block'.data = call'.data
  <2>1. TakeBlock
    BY <1>4 DEF ClientNext, Access, FetchServerStats, DestroyClient, InitializeServerStorage, Constructed,
         ConstructorThrows, SelectOffsets, TakeBlock, RequestBucket, ReadBucket, WriteBucket, BucketWritten,
         RequestCount, EarlyReshuffle, Return, StatsFetched, RecvThrows, PutBlock, Throws, EndOfCall
  <2>2. \E data : block' = AccessedBlock(data) /\ call' = call /\ posMap' = posMap
    BY <1>4, <2>1 DEF TakeBlock, Throws, EndOfCall
  <2> QED  BY <2>2 DEF AccessedBlock
<1>5. RequestsFit'
  <2>1. CASE InitializeServerStorage
    <3>1. cpc' = "init" /\ req = NoMsg /\ (req'.cmd = "I" \/ req' = req)
      BY <2>1, QuietFacts DEF InitializeServerStorage, SendRequest
    <3> QED  BY <3>1, NoMsgFacts DEF RequestsFit
  <2>2. CASE WriteBucket
    <3>1. req = NoMsg /\ ((req'.cmd = "W" /\ cpc' = "ack") \/ req' = req)
      BY <2>2, QuietFacts DEF WriteBucket, SendRequest
    <3> QED  BY <3>1, NoMsgFacts DEF RequestsFit
  <2>3. CASE SelectOffsets \/ Constructed \/ TakeBlock \/ BucketWritten \/ ReadBucket \/ EarlyReshuffle
    <3>1. resp.cmd # "none" /\ cpc # "destroyed"
      BY <2>3 DEF SelectOffsets, Constructed, TakeBlock, BucketWritten, ReadBucket, EarlyReshuffle, ExpectAck
    <3>2. req = NoMsg
      BY <3>1, RepliedFacts
    <3>3. req' = req \/ req'.cmd = "X"
      BY <2>3 DEF SelectOffsets, Constructed, TakeBlock, BucketWritten, ReadBucket, EarlyReshuffle, SendRequest
    <3> QED  BY <3>2, <3>3, NoMsgFacts DEF RequestsFit
  <2>4. CASE PutBlock \/ Return
    <3>1. req = NoMsg /\ req' = req
      BY <2>4, QuietFacts DEF PutBlock, Return
    <3> QED  BY <3>1, NoMsgFacts DEF RequestsFit
  <2>5. CASE (\E c \in Calls : Access(c)) \/ FetchServerStats \/ DestroyClient \/ RequestBucket \/ RequestCount \/ StatsFetched
    <3>1. /\ req' = req \/ req'.cmd \in {"M", "S", "Q", "B", "T"}
          /\ cpc \notin {"ack", "init", "destroyed"} /\ failed' = failed
      BY <2>5 DEF Access, FetchServerStats, DestroyClient, RequestBucket, RequestCount, StatsFetched, SendRequest
    <3> QED  BY <1>2, <3>1 DEF RequestsFit
  <2>6. CASE RecvThrows
    <3>1. req' = req /\ failed' /\ cpc \notin {"init", "destroyed"}
      BY <2>6 DEF RecvThrows, Throws
    <3> QED  BY <1>2, <3>1 DEF RequestsFit
  <2>7. CASE ConstructorThrows
    <3>1. req' = req /\ cpc' = "destroyed" /\ failed' = failed /\ cpc # "ack"
      BY <2>7 DEF ConstructorThrows
    <3> QED  BY <1>2, <3>1 DEF RequestsFit
  <2> QED  BY <2>1, <2>2, <2>3, <2>4, <2>5, <2>6, <2>7 DEF ClientNext
<1>6. Expecting'
  <2> SUFFICES ASSUME cpc' \in {"xor", "ack"}, conn' = "up" PROVE req' # NoMsg
    BY DEF Expecting
  <2>1. SelectOffsets \/ WriteBucket
    BY DEF ClientNext, Access, FetchServerStats, DestroyClient, InitializeServerStorage, Constructed,
         ConstructorThrows, SelectOffsets, TakeBlock, RequestBucket, ReadBucket, WriteBucket, BucketWritten,
         RequestCount, EarlyReshuffle, Return, StatsFetched, RecvThrows, PutBlock, Throws, EndOfCall
  <2>2. req'.cmd \in {"X", "W"}
    BY <2>1 DEF SelectOffsets, WriteBucket, Throws, EndOfCall, SendRequest
  <2> QED  BY <2>2, NoMsgFacts
<1> QED  BY <1>3, <1>4, <1>5, <1>6, CallParts DEF Building, Putting
-----------------------------------------------------------------------------
\* As many indices as entries.
LEMMA IntervalCounted ==
    ASSUME NEW n \in Nat
    PROVE  IsFiniteSet(1 .. n) /\ Cardinality(1 .. n) = n
BY FS_Interval

\* What a bucket has left.
LEMMA ValidsCounted ==
    ASSUME NEW b \in Buckets, b.count = Cardinality(Slots \ b.valids)
    PROVE  /\ IsFiniteSet(b.valids) /\ Cardinality(b.valids) = (Z + S) - b.count
           /\ b.count \in Nat
<1> USE Constants
<1>1. IsFiniteSet(Slots) /\ Cardinality(Slots) = Z + S
  BY FS_Interval DEF Slots
<1>2. b.valids \subseteq Slots /\ b.count \in Nat
  BY DEF Buckets
<1>3. /\ IsFiniteSet(b.valids) /\ IsFiniteSet(Slots \ b.valids)
      /\ Cardinality(b.valids) \in Nat /\ Cardinality(Slots \ b.valids) \in Nat
  BY <1>1, <1>2, FS_Subset, FS_CardinalityType
<1>4. b.valids \cup (Slots \ b.valids) = Slots /\ b.valids \cap (Slots \ b.valids) = {}
  BY <1>2
<1>5. Cardinality(Slots) = Cardinality(b.valids) + Cardinality(Slots \ b.valids) - Cardinality({})
  BY <1>3, <1>4, FS_Union
<1> QED  BY <1>1, <1>2, <1>3, <1>5, FS_EmptySet

LEMMA DummyLeft ==
    ASSUME NEW b \in Buckets, b.count = Cardinality(Slots \ b.valids), b.count < S
    PROVE  ValidDummyOffsets(b) # {}
<1> USE Constants
<1> SUFFICES ASSUME ValidDummyOffsets(b) = {} PROVE FALSE
  OBVIOUS
<1> DEFINE K == ValidReals(b)
           P == {b.entries[i].ptr : i \in K}
           f == [i \in K |-> b.entries[i].ptr]
<1>1. Len(b.entries) \in Nat /\ Len(b.entries) <= Z
  BY DEF Buckets
<1>2. IsFiniteSet(K) /\ Cardinality(K) <= Z /\ Cardinality(K) \in Nat
  <2>1. K \subseteq 1 .. Len(b.entries)
    BY DEF ValidReals
  <2>2. IsFiniteSet(1 .. Len(b.entries)) /\ Cardinality(1 .. Len(b.entries)) <= Z
        /\ Cardinality(1 .. Len(b.entries)) \in Nat
    <3> DEFINE n == Len(b.entries)
    <3>1. n \in Nat /\ n <= Z
      BY <1>1
    <3> HIDE DEF n
    <3>2. IsFiniteSet(1 .. n) /\ Cardinality(1 .. n) = n
      BY <3>1, IntervalCounted
    <3> QED  BY <3>1, <3>2 DEF n
  <2>3. PICK I : I = 1 .. Len(b.entries)
    OBVIOUS
  <2> HIDE DEF K
  <2>4. IsFiniteSet(K) /\ Cardinality(K) <= Cardinality(I)
    BY <2>1, <2>2, <2>3, FS_Subset
  <2> QED  BY <2>2, <2>3, <2>4, FS_CardinalityType
<1>3. f \in Surjection(K, P)
  BY DEF Surjection
<1>4. IsFiniteSet(P) /\ Cardinality(P) <= Cardinality(K)
  <2> HIDE DEF f, P, K
  <2> QED  BY <1>2, <1>3, FS_Surjection
<1>5. b.valids \subseteq P
  BY DEF ValidDummyOffsets
<1>6. Cardinality(b.valids) <= Cardinality(P) /\ Cardinality(P) \in Nat
  <2> HIDE DEF P
  <2> QED  BY <1>4, <1>5, FS_Subset, FS_CardinalityType
<1> HIDE DEF P, K
<1> QED  BY <1>2, <1>4, <1>6, ValidsCounted

\* No call throws of itself: there is a slot to read in every bucket, one slot
\* at most is the block's, and a bucket has Z slots left when it is read whole.
LEMMA OffsetsExist ==
    ASSUME IInv, ~ failed, cpc = "metadata", resp.cmd = "metadata", NEW k \in DOMAIN resp.buckets
    PROVE  BlockOffsets(resp.buckets[k], call.addr) # {}
<1>1. /\ resp.buckets = [j \in 1 .. TreeHeight + 1 |-> MetadataFromBucket(tree[Paths[oldLeaf][j]])]
      /\ \A j \in 1 .. TreeHeight + 1 : tree[Paths[oldLeaf][j]] # NoBucket
  BY DEF IInv, RepliesAreTrue
<1> DEFINE n == Paths[oldLeaf][k]
<1>2. k \in 1 .. TreeHeight + 1 /\ resp.buckets[k] = MetadataFromBucket(tree[n])
  BY <1>1
<1>3. n \in Nodes
  BY <1>2, PathsFacts DEF IInv, TypeOK
<1>4. tree[n] # NoBucket /\ tree[n] \in Buckets
  BY <1>1, <1>2, <1>3 DEF IInv, TypeOK
<1>5. ~ AwaitsReshuffle(n)
  BY DEF AwaitsReshuffle
<1> HIDE DEF n
<1>6. tree[n].count = Cardinality(Slots \ tree[n].valids) /\ tree[n].count < S
  <2>1. /\ tree[n].count = Cardinality(Slots \ tree[n].valids)
        /\ tree[n].count <= S /\ tree[n].count # S
    BY <1>3, <1>4, <1>5 DEF IInv, CountInv
  <2>2. tree[n].count \in Nat
    BY <1>4 DEF Buckets
  <2> QED  BY <2>1, <2>2, Constants
<1>7. BlockOffsets(tree[n], call.addr) # {}
  <2>1. ValidDummyOffsets(tree[n]) # {}
    BY <1>4, <1>6, DummyLeft
  <2>2. CASE Targets(tree[n], call.addr) = {}
    BY <1>4, <2>1, <2>2, TargetsType
  <2>3. CASE Targets(tree[n], call.addr) # {}
    <3>1. \E x : BlockOffsets(tree[n], call.addr) = {x}
      <4> DEFINE b == tree[n]
      <4>1. b \in Buckets /\ Targets(b, call.addr) # {}
        BY <1>4, <2>3
      <4> HIDE DEF b
      <4>2. PICK i \in Targets(b, call.addr) : BlockOffsets(b, call.addr) = {b.entries[i].ptr}
        BY <4>1, TargetsType
      <4> QED  BY <4>2 DEF b
    <3> QED  BY <3>1
  <2> QED  BY <2>2, <2>3
<1> QED  BY <1>2, <1>4, <1>7, MetadataTells

LEMMA OneTarget ==
    ASSUME IInv, CopiesInv, ~ failed, stash # Malformed, cpc = "xor", resp.cmd = "xor"
    PROVE  Cardinality(targets) <= 1
<1>1. Accountable
  BY NoMsgFacts DEF Accountable
<1>2. call # NoCall /\ call.addr \in Addr
  BY XorFacts
<1>3. Accounted(call.addr)
  BY <1>1, <1>2 DEF CopiesInv
<1>4. resp.slots \in Seq(Data) /\ Len(resp.slots) = TreeHeight + 1 /\ targets \subseteq 1 .. TreeHeight + 1
  BY DEF IInv, TypeOK, SlotsAsAsked
<1>5. InFlight = resp.slots
  BY DEF InFlight
<1>6. ASSUME NEW i \in targets, NEW j \in targets PROVE i = j
  <2> DEFINE x(k) == <<"way", 0, k, InFlight[k]>>
  <2>1. i \in targets \cap DOMAIN InFlight /\ j \in targets \cap DOMAIN InFlight
    BY <1>4, <1>5
  <2>2. x(i) \in OnTheWay(call.addr) /\ x(j) \in OnTheWay(call.addr)
    BY <1>2, <2>1 DEF OnTheWay
  <2>3. x(i) \in Copies(call.addr) /\ x(j) \in Copies(call.addr)
    BY <2>2 DEF Copies
  <2>4. x(i) = x(j)
    <3> HIDE DEF x
    <3> QED  BY <1>3, <2>3 DEF Accounted
  <2> QED  BY <2>4
<1>7. CASE targets = {}
  BY <1>7, FS_EmptySet
<1>8. CASE targets # {}
  <2>1. PICK i \in targets : TRUE
    BY <1>8
  <2>2. targets = {i}
    BY <1>6, <2>1
  <2> QED  BY <2>2, FS_Singleton
<1> QED  BY <1>7, <1>8

LEMMA ReadPads ==
    ASSUME IInv, ~ failed, cpc = "bucket", resp.cmd = "bucket"
    PROVE  PadsToZ(resp.bucket)
<1>1. Head(reads) \in Nodes
  BY DEF IInv, CallState, TypeOK
<1> DEFINE b == tree[Head(reads)]
<1>2. resp.bucket = b /\ b # NoBucket
  BY DEF IInv, RepliesAreTrue
<1>3. b \in Buckets
  BY <1>1, <1>2 DEF IInv, TypeOK
<1>4. b.count = Cardinality(Slots \ b.valids) /\ b.count <= S
  BY <1>1, <1>2 DEF IInv, CountInv
<1> HIDE DEF b
<1>5. Cardinality(b.valids) = (Z + S) - b.count /\ b.count \in Nat
  BY <1>3, <1>4, ValidsCounted
<1> QED  BY <1>2, <1>4, <1>5, Constants DEF PadsToZ
-----------------------------------------------------------------------------
\* An exception is the connection's, where no file of the client fails.
LEMMA OnlyRecvThrows ==
    ASSUME IInv, CopiesInv, ThrowsAreFinal, "stash" \notin Faults, ClientNext, failed', ~ failed
    PROVE  RecvThrows
<1>1. stash # Malformed /\ Loaded /\ ~ StashThrows
  BY DEF ThrowsAreFinal, Loaded, StashThrows
<1>2. ~ SelectOffsets
  <2> SUFFICES ASSUME SelectOffsets PROVE FALSE
    OBVIOUS
  <2>1. cpc = "metadata" /\ resp.cmd = "metadata"
    BY DEF SelectOffsets
  <2>2. \E k \in DOMAIN resp.buckets : BlockOffsets(resp.buckets[k], call.addr) = {}
    BY DEF SelectOffsets
  <2> QED  BY <2>1, <2>2, OffsetsExist
<1>3. ~ TakeBlock
  <2> SUFFICES ASSUME TakeBlock PROVE FALSE
    OBVIOUS
  <2>1. cpc = "xor" /\ resp.cmd = "xor"
    BY DEF TakeBlock
  <2>2. Cardinality(targets) <= 1 /\ ~ Cardinality(targets) > 1
    <3>1. Cardinality(targets) <= 1
      BY <1>1, <2>1, OneTarget
    <3>2. Cardinality(targets) \in Nat
      <4>1. targets \in SUBSET (1 .. TreeHeight + 1) /\ IsFiniteSet(1 .. TreeHeight + 1)
        BY FS_Interval, Constants DEF IInv, TypeOK
      <4>2. IsFiniteSet(targets)
        BY <4>1, FS_Subset
      <4> QED  BY <4>2, FS_CardinalityType
    <3> QED  BY <3>1, <3>2
  <2> QED  BY <1>1, <2>2 DEF TakeBlock
<1>4. ~ ReadBucket
  <2> SUFFICES ASSUME ReadBucket PROVE FALSE
    OBVIOUS
  <2>1. PadsToZ(resp.bucket)
    BY ReadPads DEF ReadBucket
  <2> QED  BY <1>1, <2>1 DEF ReadBucket
<1>5. ~ PutBlock /\ ~ WriteBucket
  BY <1>1 DEF PutBlock, WriteBucket
<1>6. (\E c \in Calls : Access(c)) \/ FetchServerStats \/ DestroyClient
         \/ InitializeServerStorage \/ Constructed \/ ConstructorThrows
         \/ RequestBucket \/ BucketWritten \/ RequestCount \/ EarlyReshuffle \/ Return
         \/ StatsFetched => failed' = failed
  BY DEF Access, FetchServerStats, DestroyClient, InitializeServerStorage, Constructed, ConstructorThrows,
         RequestBucket, BucketWritten, RequestCount, EarlyReshuffle, Return, StatsFetched
<1> QED  BY <1>2, <1>3, <1>4, <1>5, <1>6 DEF ClientNext

LEMMA StashStaysFile ==
    ASSUME IInv, "stash" \notin Faults, stash # Malformed, ClientNext
    PROVE  stash' # Malformed
<1>1. stash \in Seq(Block) /\ \A s \in Seq(Block) : s # Malformed
  BY RingClientAssumption DEF IInv, TypeOK, Block
<1>2. SaveStash(stash) => stash' = stash
  BY DEF SaveStash
<1>3. \A s : SaveStash(s) => stash' = s
  BY DEF SaveStash
<1>4. ~ StashThrows
  BY DEF StashThrows, Loaded
<1>5. CASE InitializeServerStorage
  <2>1. stash' = Remaining[NumTreeNodes]
    BY <1>3, <1>5 DEF InitializeServerStorage
  <2>2. Remaining[NumTreeNodes] \in Seq(Block)
    BY <1>1, RemainingSteps, Constants
  <2> QED  BY <1>1, <2>1, <2>2
<1>6. CASE TakeBlock
  <2>1. stash' = stash \/ stash' = Without(stash, call.addr)
    BY <1>3, <1>4, <1>6 DEF TakeBlock
  <2> QED  BY <1>1, <2>1, PutType
<1>7. CASE PutBlock
  <2>1. stash' = Put(stash, block) /\ block \in Block
    BY <1>3, <1>4, <1>7 DEF PutBlock, IInv, CallState
  <2> QED  BY <1>1, <2>1, PutType
<1>8. CASE WriteBucket
  <2>1. stash' = Unselected(stash, Head(writes))
    BY <1>3, <1>4, <1>8 DEF WriteBucket
  <2> QED  BY <1>1, <2>1, SelectedType
<1>9. CASE ReadBucket
  <2>1. resp.bucket \in Buckets
    <3>1. cpc = "bucket" /\ resp.cmd = "bucket"
      BY <1>9 DEF ReadBucket
    <3>2. Head(reads) \in Nodes /\ resp.bucket = tree[Head(reads)] /\ resp.bucket # NoBucket
      BY <3>1 DEF IInv, CallState, TypeOK, RepliesAreTrue
    <3> QED  BY <3>2 DEF IInv, TypeOK
  <2> DEFINE blocks == BlocksRead(resp.bucket)
  <2>2. blocks \in Seq(Block) /\ Len(blocks) \in 0 .. Len(blocks)
    BY <2>1, BlocksReadType
  <2>3. stash' = stash \/ stash' = StashAfter(blocks, Len(blocks))
    <3> HIDE DEF blocks
    <3> QED  BY <1>3, <1>9 DEF ReadBucket, blocks, Loaded
  <2> HIDE DEF blocks
  <2> QED  BY <1>1, <2>2, <2>3, StashAfterType
<1>10. (\E c \in Calls : Access(c)) \/ FetchServerStats \/ DestroyClient
         \/ Constructed \/ ConstructorThrows
         \/ SelectOffsets \/ RequestBucket \/ BucketWritten \/ RequestCount \/ EarlyReshuffle \/ Return
         \/ StatsFetched \/ RecvThrows => stash' = stash
  BY <1>4 DEF Access, FetchServerStats, DestroyClient, Constructed, ConstructorThrows,
         SelectOffsets, RequestBucket, BucketWritten, RequestCount, EarlyReshuffle, Return, StatsFetched, RecvThrows
<1> QED  BY <1>5, <1>6, <1>7, <1>8, <1>9, <1>10 DEF ClientNext

LEMMA ServerQuiet ==
    ASSUME ServerNext, conn = "down"
    PROVE  conn' = "down" /\ resp' = resp
<1>1. CASE StartHandleRequests \/ Stop \/ DestroyServer
  BY <1>1 DEF StartHandleRequests, Stop, DestroyServer
<1>2. CASE HandleInit \/ InitBucket \/ AckInit
  BY <1>2 DEF HandleInit, InitBucket, AckInit, Answer, SendReply
<1>3. CASE HandleReadPathMetadata
  BY <1>3 DEF HandleReadPathMetadata, Answer, SendReply
<1>4. CASE HandleXorPathSlots \/ XorSlot \/ AnswerXor
  BY <1>4 DEF HandleXorPathSlots, XorSlot, AnswerXor, Answer, SendReply
<1>5. CASE HandleReadBucket \/ HandleWriteBucket \/ HandleReadBucketCount
  BY <1>5 DEF HandleReadBucket, HandleWriteBucket, HandleReadBucketCount, Answer, SendReply
<1>6. CASE HandleReadStats \/ HandleQuit \/ ServerRecvThrows
  BY <1>6 DEF HandleReadStats, HandleQuit, ServerRecvThrows, Answer, SendReply
<1> QED  BY <1>1, <1>2, <1>3, <1>4, <1>5, <1>6 DEF ServerNext, ServerStep

LEMMA ThrowsKept ==
    ASSUME IInv, CopiesInv, ThrowsAreFinal, [Next]_vars
    PROVE  ThrowsAreFinal'
<1> SUFFICES ASSUME "stash" \notin Faults
             PROVE  /\ stash' # Malformed
                    /\ failed' => /\ conn' = "down" /\ resp' = NoMsg
                                  /\ cpc' \in {"idle", "metadata", "stats", "destroyed"}
  BY DEF ThrowsAreFinal
<1>1. /\ stash # Malformed
      /\ failed => conn = "down" /\ resp = NoMsg /\ cpc \in {"idle", "metadata", "stats", "destroyed"}
  BY DEF ThrowsAreFinal
<1>2. CASE ServerNext
  <2>1. stash' = stash /\ failed' = failed /\ cpc' = cpc
    BY <1>2 DEF ServerNext, clientVars
  <2> QED  BY <1>1, <1>2, <2>1, ServerQuiet
<1>3. CASE NetworkNext \/ Terminated \/ UNCHANGED vars
  <2>1. stash' = stash /\ failed' = failed /\ cpc' = cpc /\ resp' = resp /\ (conn = "down" => conn' = "down")
    BY <1>3 DEF NetworkNext, ConnectionLost, Terminated, vars, clientVars
  <2> QED  BY <1>1, <2>1
<1>4. CASE ClientNext
  <2>1. stash' # Malformed
    BY <1>1, <1>4, StashStaysFile
  <2>2. CASE failed' /\ ~ failed
    <3>1. RecvThrows
      BY <1>4, <2>2, OnlyRecvThrows
    <3>2. conn \in {"up", "down"}
      BY DEF IInv, TypeOK
    <3> QED  BY <2>1, <3>1, <3>2 DEF RecvThrows, Throws, EndOfCall, MayThrow
  <2>3. CASE failed
    <3>1. conn = "down" /\ resp.cmd = "none" /\ cpc \in {"idle", "metadata", "stats", "destroyed"}
      BY <1>1, <2>3, NoMsgFacts
    <3>2. (\E c \in Calls : Access(c)) \/ FetchServerStats \/ DestroyClient \/ StatsFetched \/ RecvThrows
      BY <1>4, <3>1 DEF ClientNext, InitializeServerStorage, Constructed, ConstructorThrows,
         SelectOffsets, TakeBlock, RequestBucket, ReadBucket, WriteBucket, BucketWritten,
         RequestCount, EarlyReshuffle, Return, PutBlock
    <3>3. conn' = "down" /\ resp' \in {resp, NoMsg} /\ cpc' \in {"idle", "metadata", "stats", "destroyed"}
      BY <3>1, <3>2 DEF Access, FetchServerStats, DestroyClient, StatsFetched, RecvThrows, Throws, EndOfCall
    <3> QED  BY <1>1, <2>1, <2>3, <3>3
  <2> QED  BY <2>1, <2>2, <2>3
<1> QED  BY <1>2, <1>3, <1>4 DEF Next
-----------------------------------------------------------------------------
\* Where nothing fails.
Whole == nodeCount = NumTreeNodes /\ \A n \in Nodes : tree[n] # NoBucket

Going ==
    /\ conn = "up"
    /\ spc \in {"constructed", "recv", "init", "xor"}
    /\ spc # "constructed" => running

Loading ==
    cpc = "init" /\ req.cmd = "I" =>
      IF spc = "init"
      THEN nodeCount = NumTreeNodes /\ \A n \in Nodes : n < NumTreeNodes - Len(req.buckets) => tree[n] # NoBucket
      ELSE Len(req.buckets) = NumTreeNodes

Built == cpc \notin {"build", "init", "destroyed"} \/ (cpc = "init" /\ resp # NoMsg)

LEMMA UndisturbedParts ==
    /\ Undisturbed <=> (Faults = {} => ~ failed /\ (cpc # "destroyed" => Going) /\ Loading /\ (Built => Whole))
    /\ Undisturbed' <=> (Faults = {} =>
                           ~ failed' /\ (cpc' # "destroyed" => Going') /\ Loading' /\ (Built' => Whole'))
BY DEF Undisturbed, Going, Loading, Built, Whole

\* Every request is answered as it should be.
LEMMA RequestsServed ==
    ASSUME IInv, Faults = {}, Going, Whole, ServerStep, cpc \notin {"build", "init", "destroyed"}
    PROVE  Going' /\ Whole'
<1> USE Constants
<1>1. /\ InStep /\ ~ MayThrow /\ "disk" \notin Faults
      /\ tree \in [Nodes -> Buckets \cup {NoBucket}] /\ req \in Requests
      /\ spc \notin {"left", "constructed"} => running
  BY DEF IInv, TypeOK, Conversation, Going, MayThrow
<1>2. /\ req.cmd # "I" /\ req.cmd # "Q" /\ spc # "init"
      /\ req.cmd = "X" => cpc = "xor" /\ req.leaf = oldLeaf
      /\ spc = "xor" => req.cmd = "X"
  <2>1. cpc \in ClientPoints
    BY DEF IInv, TypeOK
  <2>2. req.cmd # "I" /\ req.cmd # "Q" /\ (req.cmd = "X" => cpc = "xor" /\ req.leaf = oldLeaf)
    BY <1>1, <2>1, NoMsgFacts DEF InStep, Waiting, ClientPoints
  <2> QED  BY <2>2 DEF IInv, Conversation
<1>3. Initialized /\ \A n \in Nodes : Stored(n) /\ ~ ReadMayThrow(n)
  BY <1>1 DEF Whole, Initialized, Stored, ReadMayThrow
<1>4. \A b \in Buckets : b # NoBucket
  BY RingServerAssumption DEF Buckets, Entries
<1>5. ASSUME NEW n \in Nodes, NEW b \in Buckets
      PROVE  /\ ~ WriteBucketThrows(n, b)
             /\ WriteBucketToDisk(n, b) => \A m \in Nodes : tree'[m] # NoBucket
  <2>1. n < nodeCount /\ b # NoBucket
    BY <1>4 DEF Whole, Nodes
  <2>2. Writable(n, b)
    BY <2>1 DEF Writable
  <2>3. ~ WriteBucketThrows(n, b)
    BY <1>1, <2>2 DEF WriteBucketThrows
  <2>4. WriteBucketToDisk(n, b) => tree' = [tree EXCEPT ![n] = b]
    BY <1>1 DEF WriteBucketToDisk
  <2> QED  BY <1>1, <2>1, <2>3, <2>4 DEF Whole
<1>6. ASSUME tree' = tree \/ \A m \in Nodes : tree'[m] # NoBucket,
             nodeCount' = nodeCount, conn' = conn,
             (spc' \in {spc, "xor"} /\ running' = running) \/ NextTurn,
             spc # "constructed"
      PROVE  Going' /\ Whole'
  BY <1>6 DEF Going, Whole, NextTurn
<1>7. \A m, possible, mayThrow : Answer(m, possible, mayThrow) /\ ~ mayThrow => NextTurn
  BY <1>1 DEF Answer
<1>8. ServerStep => spc # "constructed"
  BY DEF ServerStep, HandleInit, InitBucket, AckInit, HandleReadPathMetadata, HandleXorPathSlots, XorSlot,
         AnswerXor, HandleReadBucket, HandleWriteBucket, HandleReadBucketCount, HandleReadStats,
         HandleQuit, ServerRecvThrows, Command
<1>9. CASE HandleReadPathMetadata
  <2>1. req.leaf \in Leaves
    BY <1>1, <1>9, RequestShapes DEF HandleReadPathMetadata, Command
  <2>2. ~ \E k \in DOMAIN Paths[req.leaf] : ReadMayThrow(Paths[req.leaf][k])
    BY <1>3, <2>1, PathsFacts
  <2>3. NextTurn
    BY <1>7, <1>9, <2>1, <2>2 DEF HandleReadPathMetadata
  <2> QED  BY <1>6, <1>8, <1>9, <2>3 DEF HandleReadPathMetadata
<1>10. CASE HandleXorPathSlots
  <2>1. req.leaf \in Leaves /\ Len(req.offsets) = TreeHeight + 1
    <3>1. req.leaf \in Leaves /\ req.offsets \in [1 .. TreeHeight + 1 -> Slots]
      BY <1>1, <1>10, RequestShapes DEF HandleXorPathSlots, Command
    <3> QED  BY <3>1
  <2> QED  BY <1>3, <1>6, <1>8, <1>10, <2>1 DEF HandleXorPathSlots
<1>11. CASE XorSlot
  <2> DEFINE k == Len(picked) + 1
             n == Paths[req.leaf][k]
             slot == req.offsets[k]
  <2>1. req.cmd = "X" /\ cpc = "xor" /\ req.leaf = oldLeaf /\ Len(picked) < TreeHeight + 1
    BY <1>2, <1>11 DEF XorSlot
  <2>2. k \in 1 .. TreeHeight + 1 /\ k \in Len(picked) + 1 .. TreeHeight + 1
    BY <2>1 DEF IInv, TypeOK
  <2>3. n \in Nodes
    BY <2>1, <2>2, PathsFacts DEF IInv, TypeOK
  <2>4. tree[n] # NoBucket /\ slot \in BlockOffsets(tree[n], call.addr)
    BY <2>1, <2>2 DEF IInv, SlotsAsAsked
  <2> HIDE DEF k, n, slot
  <2>5. tree[n] \in Buckets /\ slot \in tree[n].valids
    BY <1>1, <2>3, <2>4, TargetsType
  <2>6. SlotIsValid(n, slot) /\ Invalidate(tree[n], slot) \in Buckets
    BY <1>3, <2>3, <2>5, InvalidateFacts DEF SlotIsValid
  <2>7. ~ WriteBucketThrows(n, Invalidate(tree[n], slot))
        /\ (WriteBucketToDisk(n, Invalidate(tree[n], slot)) => \A m \in Nodes : tree'[m] # NoBucket)
    BY <1>5, <2>3, <2>6
  <2>8. WriteBucketToDisk(n, Invalidate(tree[n], slot)) /\ UNCHANGED <<spc, running, nodeCount, conn>>
    BY <1>3, <1>11, <2>3, <2>6, <2>7 DEF XorSlot, k, n, slot
  <2> QED  BY <1>6, <1>8, <2>7, <2>8
<1>12. CASE AnswerXor
  BY <1>6, <1>7, <1>8, <1>12 DEF AnswerXor
<1>13. CASE HandleReadBucket \/ HandleReadBucketCount
  <2>1. req.node \in Nodes
    BY <1>1, <1>13, RequestShapes DEF HandleReadBucket, HandleReadBucketCount, Command
  <2>2. ~ ReadMayThrow(req.node)
    BY <1>3, <2>1
  <2>3. NextTurn
    BY <1>7, <1>13, <2>2 DEF HandleReadBucket, HandleReadBucketCount
  <2> QED  BY <1>6, <1>8, <1>13, <2>3 DEF HandleReadBucket, HandleReadBucketCount
<1>14. CASE HandleWriteBucket
  <2>1. req.node \in Nodes /\ req.bucket \in Buckets
    BY <1>1, <1>14, RequestShapes, FreshFacts DEF HandleWriteBucket, Command
  <2>2. WriteBucketToDisk(req.node, req.bucket) /\ NextTurn
    BY <1>3, <1>5, <1>7, <1>14, <2>1 DEF HandleWriteBucket
  <2> QED  BY <1>5, <1>6, <1>8, <1>14, <2>1, <2>2 DEF HandleWriteBucket
<1>15. CASE HandleReadStats
  BY <1>6, <1>7, <1>8, <1>15 DEF HandleReadStats
<1>16. ~ HandleInit /\ ~ InitBucket /\ ~ AckInit /\ ~ ServerRecvThrows
  BY <1>1, <1>2 DEF HandleInit, InitBucket, AckInit, ServerRecvThrows, Command
<1>17. ~ HandleQuit
  <2> SUFFICES ASSUME HandleQuit PROVE FALSE
    OBVIOUS
  <2>1. req.cmd \notin Commands \cup {"none"}
    BY DEF HandleQuit
  <2> QED  BY <1>1, <1>2, <2>1, RequestShapes DEF Commands
<1> QED  BY <1>9, <1>10, <1>11, <1>12, <1>13, <1>14, <1>15, <1>16, <1>17 DEF ServerStep

\* While the constructor loads the tree it is filled node by node.
LEMMA TreeLoaded ==
    ASSUME IInv, Faults = {}, Going, Loading, ServerStep, cpc = "init", cpc' = cpc, resp = NoMsg
    PROVE  Going' /\ Loading' /\ (resp' # NoMsg => Whole')
<1> USE Constants
<1>1. /\ InStep /\ ~ MayThrow /\ "disk" \notin Faults
      /\ tree \in [Nodes -> Buckets \cup {NoBucket}] /\ req \in Requests
      /\ spc \notin {"left", "constructed"} => running
  BY DEF IInv, TypeOK, Conversation, Going, MayThrow
<1>2. req.cmd \in {"none", "I"} /\ spc # "xor" /\ cpc' = cpc
  <2>1. req.cmd \in {"none", "I"}
    BY <1>1, NoMsgFacts DEF InStep, Waiting
  <2>2. spc # "xor"
    BY <2>1 DEF IInv, Conversation
  <2> QED  BY <2>1, <2>2
<1>3. CASE HandleInit
  <2>1. req.cmd = "I" /\ spc = "recv" /\ Len(req.buckets) = NumTreeNodes
    BY <1>3 DEF HandleInit, Command, Loading
  <2>2. /\ nodeCount' = NumTreeNodes /\ spc' = "init" /\ UNCHANGED <<running, req, conn, resp>>
    BY <1>3, <2>1 DEF HandleInit
  <2>3. \A n \in Nodes : ~ n < NumTreeNodes - Len(req.buckets)
    BY <2>1 DEF Nodes
  <2> QED  BY <1>1, <2>1, <2>2, <2>3 DEF Going, Loading
<1>4. CASE InitBucket
  <2>1. spc = "init" /\ req.cmd = "I" /\ req.buckets # << >>
    BY <1>4 DEF InitBucket, IInv, Conversation
  <2>2. /\ req.buckets \in Seq(FreshBuckets) /\ Len(req.buckets) <= NumTreeNodes
    BY <1>1, <2>1, RequestShapes
  <2>3. PICK l : l = req.buckets
    OBVIOUS
  <2> DEFINE n == NumTreeNodes - Len(l)
  <2>4. /\ Head(l) \in FreshBuckets /\ n \in Nodes /\ Len(Tail(l)) = Len(l) - 1
        /\ \A m \in Nodes : m < NumTreeNodes - Len(Tail(l)) => m = n \/ m < n
    BY <2>1, <2>2, <2>3 DEF Nodes
  <2>5. Head(l) # NoBucket /\ nodeCount = NumTreeNodes /\ n < nodeCount
        /\ \A m \in Nodes : m < n => tree[m] # NoBucket
    <3>1. Head(l) # NoBucket
      BY <2>4, FreshFacts, RingServerAssumption DEF Buckets, Entries
    <3>2. nodeCount = NumTreeNodes /\ \A m \in Nodes : m < n => tree[m] # NoBucket
      BY <2>1, <2>3 DEF Loading
    <3> QED  BY <2>4, <3>1, <3>2 DEF Nodes
  <2> HIDE DEF n
  <2>6. ~ WriteBucketThrows(n, Head(l))
    BY <1>1, <2>4, <2>5 DEF WriteBucketThrows, Writable
  <2>7. /\ tree' = [tree EXCEPT ![n] = Head(l)] /\ req' = [cmd |-> "I", buckets |-> Tail(l)]
        /\ UNCHANGED <<spc, running, nodeCount, conn, resp>>
    BY <1>1, <1>4, <2>3, <2>6 DEF InitBucket, WriteBucketToDisk, n
  <2>8. \A m \in Nodes : m < NumTreeNodes - Len(Tail(l)) => tree'[m] # NoBucket
    BY <1>1, <2>4, <2>5, <2>7
  <2> QED  BY <2>1, <2>5, <2>7, <2>8 DEF Going, Loading
<1>5. CASE AckInit
  <2>1. spc = "init" /\ req.cmd = "I" /\ req.buckets = << >>
    BY <1>5 DEF AckInit, IInv, Conversation
  <2>2. NextTurn /\ req' = NoMsg /\ UNCHANGED <<tree, nodeCount, conn>>
    BY <1>1, <1>5 DEF AckInit, Answer, Consume
  <2>3. spc' = "recv" /\ running' = running
    BY <1>1, <2>1, <2>2 DEF NextTurn
  <2>4. \A m \in Nodes : m < NumTreeNodes - Len(req.buckets)
    BY <2>1 DEF Nodes
  <2>5. Whole'
    BY <2>1, <2>2, <2>4 DEF Whole, Loading
  <2> QED  BY <1>1, <2>1, <2>2, <2>3, <2>5, NoMsgFacts DEF Going, Loading
<1>6. ~ ServerRecvThrows
  BY <1>1 DEF ServerRecvThrows
<1>7. ~ HandleReadPathMetadata /\ ~ HandleXorPathSlots /\ ~ XorSlot /\ ~ AnswerXor
      /\ ~ HandleReadBucket /\ ~ HandleWriteBucket /\ ~ HandleReadBucketCount /\ ~ HandleReadStats /\ ~ HandleQuit
  BY <1>2 DEF HandleReadPathMetadata, HandleXorPathSlots, XorSlot, AnswerXor,
         HandleReadBucket, HandleWriteBucket, HandleReadBucketCount, HandleReadStats, HandleQuit, Command, Commands
<1> QED  BY <1>3, <1>4, <1>5, <1>6, <1>7 DEF ServerStep

LEMMA UndisturbedByServer ==
    ASSUME IInv, CallInv, Undisturbed, ServerNext
    PROVE  Undisturbed'
<1> SUFFICES ASSUME Faults = {}
             PROVE  ~ failed' /\ (cpc' # "destroyed" => Going') /\ Loading' /\ (Built' => Whole')
  BY UndisturbedParts
<1>1. ~ failed /\ (cpc # "destroyed" => Going) /\ Loading /\ (Built => Whole)
  BY UndisturbedParts
<1>2. cpc' = cpc /\ failed' = failed
  BY DEF ServerNext, clientVars
<1>3. CASE cpc = "destroyed"
  BY <1>1, <1>2, <1>3 DEF Loading, Built
<1>4. CASE cpc # "destroyed" /\ ~ ServerStep
  <2>1. StartHandleRequests
    BY <1>1, <1>4 DEF ServerNext, Stop, DestroyServer, Going
  <2>2. /\ spc = "constructed" /\ spc' = "recv" /\ running' = TRUE
        /\ UNCHANGED <<tree, nodeCount, conn, req, resp>>
    BY <2>1 DEF StartHandleRequests
  <2> QED  BY <1>1, <1>2, <1>4, <2>2 DEF Going, Loading, Built, Whole
<1>5. CASE cpc \notin {"build", "init", "destroyed"} /\ ServerStep
  <2>1. Going' /\ Whole'
    BY <1>1, <1>5, RequestsServed DEF Built
  <2> QED  BY <1>1, <1>2, <1>5, <2>1 DEF Loading
<1>6. CASE cpc = "build" /\ ServerStep
  <2>1. InStep /\ conn = "up"
    BY <1>1, <1>6 DEF Going, IInv, Conversation
  <2>2. req.cmd = "none" /\ spc \notin {"init", "xor"}
    BY <1>6, <2>1, NoMsgFacts DEF InStep, IInv, Conversation
  <2>3. FALSE
    BY <1>6, <2>1, <2>2 DEF ServerStep, HandleInit, InitBucket, AckInit, HandleReadPathMetadata,
         HandleXorPathSlots, XorSlot, AnswerXor, HandleReadBucket, HandleWriteBucket,
         HandleReadBucketCount, HandleReadStats, HandleQuit, ServerRecvThrows, Command, MayThrow
  <2> QED  BY <2>3
<1>7. CASE cpc = "init" /\ ServerStep /\ resp = NoMsg
  <2>1. Going' /\ Loading' /\ (resp' # NoMsg => Whole')
    BY <1>1, <1>2, <1>7, TreeLoaded
  <2> QED  BY <1>1, <1>2, <1>7, <2>1 DEF Built
<1>8. CASE cpc = "init" /\ ServerStep /\ resp # NoMsg
  <2>1. InStep /\ conn = "up"
    BY <1>1, <1>8 DEF Going, IInv, Conversation
  <2>2. req.cmd = "none"
    BY <1>8, <2>1, NoMsgFacts DEF InStep, Waiting
  <2>3. spc \notin {"init", "xor"}
    BY <2>2 DEF IInv, Conversation
  <2>4. FALSE
    BY <1>8, <2>1, <2>2, <2>3 DEF ServerStep, HandleInit, InitBucket, AckInit, HandleReadPathMetadata,
         HandleXorPathSlots, XorSlot, AnswerXor, HandleReadBucket, HandleWriteBucket,
         HandleReadBucketCount, HandleReadStats, HandleQuit, ServerRecvThrows, Command, MayThrow
  <2> QED  BY <2>4
<1> QED  BY <1>3, <1>4, <1>5, <1>6, <1>7, <1>8

LEMMA UndisturbedByClient ==
    ASSUME IInv, CopiesInv, ThrowsAreFinal, Undisturbed, ClientNext
    PROVE  Undisturbed'
<1> USE Constants
<1> SUFFICES ASSUME Faults = {}
             PROVE  ~ failed' /\ (cpc' # "destroyed" => Going') /\ Loading' /\ (Built' => Whole')
  BY UndisturbedParts
<1>1. ~ failed /\ (cpc # "destroyed" => Going) /\ Loading /\ (Built => Whole)
  BY UndisturbedParts
<1>2. UNCHANGED <<tree, nodeCount, running, spc>>
  BY DEF ClientNext, serverVars
<1>3. cpc # "destroyed" /\ cpc' # "build"
  BY DEF ClientNext, Access, FetchServerStats, DestroyClient, InitializeServerStorage, Constructed,
         ConstructorThrows, SelectOffsets, TakeBlock, RequestBucket, ReadBucket, WriteBucket, BucketWritten,
         RequestCount, EarlyReshuffle, Return, StatsFetched, RecvThrows, PutBlock, Throws, EndOfCall
<1>4. Going /\ conn = "up" /\ InStep /\ ~ MayThrow
  BY <1>1, <1>3 DEF Going, IInv, Conversation, MayThrow
<1>5. ~ failed'
  BY <1>1, <1>4, OnlyRecvThrows DEF RecvThrows
<1>6. cpc' # "destroyed" => conn' = "up"
  BY <1>4 DEF ClientNext, Access, FetchServerStats, DestroyClient, InitializeServerStorage, Constructed,
         ConstructorThrows, SelectOffsets, TakeBlock, RequestBucket, ReadBucket, WriteBucket, BucketWritten,
         RequestCount, EarlyReshuffle, Return, StatsFetched, RecvThrows, PutBlock
<1>7. cpc' # "destroyed" => Going'
  BY <1>2, <1>4, <1>6 DEF Going
<1>8. CASE InitializeServerStorage
  <2>1. cpc = "build" /\ cpc' = "init" /\ resp' = resp
    BY <1>8 DEF InitializeServerStorage
  <2>2. req = NoMsg /\ resp = NoMsg /\ spc # "init"
    BY <1>4, <2>1, NoMsgFacts DEF InStep, IInv, Conversation
  <2>3. PICK ptrs \in InitialLayouts :
          SendRequest([cmd     |-> "I",
                       buckets |-> [k \in 1 .. NumTreeNodes |-> ResetWithBlocks(InitialBlocks(k - 1), ptrs[k - 1])]])
    BY <1>8 DEF InitializeServerStorage
  <2>4. PICK l : l = [k \in 1 .. NumTreeNodes |-> ResetWithBlocks(InitialBlocks(k - 1), ptrs[k - 1])]
    OBVIOUS
  <2>5. Len(l) = NumTreeNodes /\ req' = [cmd |-> "I", buckets |-> l]
    BY <1>4, <2>3, <2>4 DEF SendRequest
  <2> QED  BY <1>2, <1>5, <1>7, <2>1, <2>2, <2>5 DEF Loading, Built
<1>9. CASE Constructed
  <2>1. cpc = "init" /\ cpc' = "idle" /\ resp.cmd = "ack"
    BY <1>9 DEF Constructed, ExpectAck
  <2>2. Whole
    BY <1>1, <2>1, NoMsgFacts DEF Built
  <2> QED  BY <1>2, <1>5, <1>7, <2>1, <2>2 DEF Loading, Whole
<1>10. ~ ConstructorThrows
  BY <1>1, <1>4 DEF ConstructorThrows, StashThrows, ThrowsAreFinal, Loaded
<1>11. CASE ~ InitializeServerStorage /\ ~ Constructed
  <2>1. cpc \notin {"build", "init"} /\ cpc' # "init"
    BY <1>10, <1>11 DEF ClientNext, Access, FetchServerStats, DestroyClient,
         SelectOffsets, TakeBlock, RequestBucket, ReadBucket, WriteBucket, BucketWritten,
         RequestCount, EarlyReshuffle, Return, StatsFetched, RecvThrows, PutBlock, Throws, EndOfCall
  <2>2. Whole
    BY <1>1, <1>3, <2>1 DEF Built
  <2> QED  BY <1>2, <1>5, <1>7, <2>1, <2>2 DEF Loading, Whole
<1> QED  BY <1>8, <1>9, <1>11
-----------------------------------------------------------------------------

LEMMA InitRInv == Init => RInv
<1> SUFFICES ASSUME Init PROVE RInv
  OBVIOUS
<1> USE Constants
<1>1. /\ cpc = "build" /\ failed = FALSE /\ req = NoMsg /\ resp = NoMsg /\ conn = "up" /\ spc = "constructed"
      /\ reads = << >> /\ writes = << >> /\ oracle = [a \in Addr |-> Zero]
      /\ stash = [k \in 1 .. NumBlocks |-> [addr |-> k - 1, leaf |-> posMap[k - 1], data |-> Zero]]
  BY DEF Init, ConstructClient, ConstructServer
<1>2. IInv
  BY InitIInv
<1>3. stash # Malformed
  BY <1>1, <1>2, RingClientAssumption DEF IInv, CallState, Block
<1>4. LoopState
  BY <1>1 DEF LoopState, Distinct
<1>5. CallInv
  BY <1>1, NoMsgFacts DEF CallInv
<1>6. CopiesInv
  BY <1>1 DEF CopiesInv, Accountable
<1>7. ThrowsAreFinal
  BY <1>1, <1>3 DEF ThrowsAreFinal
<1>8. Undisturbed
  BY <1>1, NoMsgFacts DEF Undisturbed
<1> QED  BY <1>2, <1>4, <1>5, <1>6, <1>7, <1>8 DEF RInv

\* RInv is inductive.
THEOREM RInvInductive == RInv /\ [Next]_vars => RInv'
<1> SUFFICES ASSUME RInv, [Next]_vars PROVE RInv'
  OBVIOUS
<1>1. IInv /\ LoopState /\ CallInv /\ CopiesInv /\ ThrowsAreFinal /\ Undisturbed
  BY DEF RInv
<1>2. IInv' /\ ThrowsAreFinal'
  BY <1>1, IInvInductive, ThrowsKept
<1>3. CASE ServerNext
  <2>1. reads' = reads /\ writes' = writes
    BY <1>3 DEF ServerNext, clientVars
  <2>2. LoopState'
    BY <1>1, <2>1 DEF LoopState, Distinct, Among
  <2> QED  BY <1>1, <1>2, <1>3, <2>2, CallKeptByServer, ServerCopies, UndisturbedByServer DEF RInv
<1>4. CASE ClientNext
  BY <1>1, <1>2, <1>4, LoopKept, CallKeptByClient, ClientCopies, UndisturbedByClient DEF RInv
<1>5. CASE NetworkNext \/ Terminated \/ UNCHANGED vars
  <2>1. /\ UNCHANGED <<clientVars, oracle, tree, nodeCount, running, spc, picked, req, resp>>
        /\ conn' = conn \/ (conn' = "down" /\ Faults # {})
    BY <1>5 DEF NetworkNext, ConnectionLost, Terminated, vars, serverVars
  <2>2. UNCHANGED <<reads, writes, cpc, failed, stash, posMap, block, call>>
    BY <2>1 DEF clientVars
  <2>3. CopiesInv'
    BY <1>1, <2>1, FrameSettles
  <2>4. LoopState'
    BY <1>1, <2>2 DEF LoopState, Distinct, Among
  <2>5. CallInv'
    BY <1>1, <2>1, <2>2 DEF CallInv
  <2>6. Undisturbed'
    BY <1>1, <2>1, <2>2 DEF Undisturbed
  <2> QED  BY <1>2, <2>3, <2>4, <2>5, <2>6 DEF RInv
<1> QED  BY <1>3, <1>4, <1>5 DEF Next

\* It holds in every reachable state, whatever fails.
THEOREM RInvariance == Spec => []RInv
BY InitRInv, RInvInductive, PTL DEF Spec

LEMMA WorkingIsAccountable ==
    ASSUME RInv, Working
    PROVE  Accountable /\ Kept = Nodes
<1>1. IInv /\ CallInv
  BY DEF RInv
<1>2. Accountable
  BY <1>1 DEF Working, Accountable, CallInv
<1>3. ASSUME NEW n \in Nodes PROVE Contents(n) # NoBucket
  <2>1. tree[n] # NoBucket /\ cpc # "init"
    BY DEF Working
  <2>2. CASE n \in Replaced
    BY <1>1, <2>2, ContentsCases, EmptyBucketFacts, FreshFacts, NoBucketApart
  <2>3. CASE n \notin Replaced /\ cpc = "ack" /\ req.cmd = "W" /\ n = Head(writes)
    <3>1. Contents(n) = req.bucket /\ req \in Requests
      BY <1>1, <2>3, ContentsCases DEF IInv, TypeOK
    <3> QED  BY <2>3, <3>1, RequestShapes, FreshFacts, NoBucketApart
  <2>4. CASE n \notin Replaced /\ ~ (cpc = "ack" /\ req.cmd = "W" /\ n = Head(writes))
    <3>1. Contents(n) = tree[n]
      BY <1>1, <2>1, <2>4, ContentsCases
    <3> QED  BY <2>1, <3>1
  <2> QED  BY <2>2, <2>3, <2>4
<1>4. Kept = Nodes
  BY <1>3 DEF Kept
<1> QED  BY <1>2, <1>4

\* Every address has one copy in the whole system, with the value last written,
\* while server and client go about their work and no file has been lost.
THEOREM CopiesAreCurrent == Spec => []OneCurrentCopy
<1>1. RInv => OneCurrentCopy
  <2> SUFFICES ASSUME RInv, Working, NEW a \in Addr
               PROVE  \/ \E c \in Copies(a) : Copies(a) = {c} /\ c[4] = oracle[a]
                      \/ Writing(a) /\ Copies(a) = {}
    BY DEF OneCurrentCopy
  <2>1. Accountable /\ Kept = Nodes
    BY WorkingIsAccountable
  <2>2. Accounted(a) /\ ~ OnLostBucket(a)
    BY <2>1 DEF RInv, CopiesInv, OnLostBucket
  <2> QED  BY <2>2 DEF Accounted
<1> QED  BY <1>1, RInvariance, PTL

\* A valid block lies on the path to the leaf that the position map has for it.
THEOREM BlocksStayOnPath == Spec => []BlocksOnPath
<1>1. RInv => BlocksOnPath
  BY WorkingIsAccountable DEF BlocksOnPath, RInv, CopiesInv
<1> QED  BY <1>1, RInvariance, PTL

\* Where nothing fails no call throws, and the server serves until the client has
\* gone: there is always a dummy to read and enough of a bucket to pad with.
THEOREM NeverThrows == Spec => []NothingThrows
<1>1. RInv => NothingThrows
  BY DEF RInv, Undisturbed, NothingThrows
<1> QED  BY <1>1, RInvariance, PTL
-----------------------------------------------------------------------------
\* What the caller of Access sees.
LEMMA HandIsCurrent ==
    ASSUME RInv, cpc = "put", ~ failed, stash # Malformed, call.op = "READ"
    PROVE  block.data = oracle[call.addr]
<1>1. call \in Calls /\ block.addr = call.addr
  BY DEF RInv, IInv, CallState
<1>2. call.addr \in Addr
  BY <1>1 DEF Calls
<1>3. Accounted(call.addr)
  BY <1>2 DEF RInv, CopiesInv, Accountable
<1> DEFINE c == <<"hand", 0, 0, block.data>>
<1>4. c \in Copies(call.addr)
  BY <1>1 DEF Copies, InHand
<1>5. c[4] = oracle[call.addr]
  <2> HIDE DEF c
  <2> QED  BY <1>3, <1>4 DEF Accounted
<1> QED  BY <1>5

\* Each step of the system is a step of the RAM or leaves it alone: a call is
\* invoked by Access, takes effect in PutBlock and ends in Return or an
\* exception of the connection.
LEMMA RAMSteps ==
    ASSUME "stash" \notin Faults, RInv, [Next]_vars
    PROVE  Memory!RAMNext \/ UNCHANGED <<oracle, call, result, failed>>
<1> USE Constants
<1>1. IInv /\ CallInv /\ CopiesInv /\ ThrowsAreFinal /\ CallState
  BY DEF RInv, IInv
<1>2. /\ stash # Malformed /\ failed \in BOOLEAN
      /\ failed => conn = "down" /\ resp.cmd = "none" /\ cpc \in {"idle", "metadata", "stats", "destroyed"}
  BY <1>1, NoMsgFacts DEF ThrowsAreFinal, IInv, TypeOK
<1>3. \A c \in Calls : c # NoCall
  BY NoCallFacts DEF Calls
<1>4. CASE ServerNext \/ NetworkNext \/ Terminated \/ UNCHANGED vars
  BY <1>4 DEF ServerNext, NetworkNext, Terminated, vars, clientVars
<1>5. CASE RecvThrows /\ oracle' = oracle
  <2>1. call \in Calls /\ call' = NoCall /\ result' = NoResult /\ failed' = TRUE
    BY <1>1, <1>5 DEF RecvThrows, Throws, EndOfCall, CallState
  <2>2. Memory!RAMThrow
    BY <1>3, <1>5, <2>1 DEF Memory!RAMThrow
  <2> QED  BY <2>2 DEF Memory!RAMNext
<1>6. ASSUME NEW c \in Calls, Access(c), oracle' = oracle
      PROVE  Memory!RAMNext
  <2>1. call = NoCall /\ call' = c /\ UNCHANGED <<result, failed>>
    BY <1>1, <1>6 DEF Access, CallState
  <2>2. Memory!RAMInvoke(c)
    BY <1>6, <2>1 DEF Memory!RAMInvoke
  <2> QED  BY <2>2 DEF Memory!RAMNext
<1>7. CASE Return /\ oracle' = oracle
  <2>1. result \in Data /\ call' = NoCall /\ result' = NoResult /\ failed' = failed
    BY <1>1, <1>7 DEF Return, EndOfCall, CallState
  <2>2. Memory!RAMReturn
    BY <1>7, <2>1 DEF Memory!RAMReturn
  <2> QED  BY <2>2 DEF Memory!RAMNext
<1>8. CASE /\ FetchServerStats \/ DestroyClient \/ InitializeServerStorage \/ Constructed
              \/ ConstructorThrows \/ RequestBucket \/ BucketWritten \/ RequestCount \/ EarlyReshuffle
              \/ StatsFetched
           /\ oracle' = oracle
  BY <1>8 DEF FetchServerStats, DestroyClient, InitializeServerStorage, Constructed,
         ConstructorThrows, RequestBucket, BucketWritten, RequestCount, EarlyReshuffle, StatsFetched
<1>9. ASSUME ClientNext, ~ RecvThrows, SelectOffsets \/ TakeBlock \/ ReadBucket \/ WriteBucket \/ PutBlock
      PROVE  ~ failed /\ ~ failed'
  <2>1. ~ failed
    BY <1>2, <1>9 DEF SelectOffsets, TakeBlock, ReadBucket, WriteBucket, PutBlock
  <2> QED  BY <1>1, <1>9, <2>1, OnlyRecvThrows
<1>10. CASE ClientNext /\ ~ RecvThrows /\ oracle' = oracle /\ (SelectOffsets \/ TakeBlock \/ ReadBucket \/ WriteBucket)
  <2>1. ~ failed /\ ~ failed'
    BY <1>9, <1>10
  <2>2. ~ Throws
    BY <2>1 DEF Throws
  <2> QED  BY <1>10, <2>2 DEF SelectOffsets, TakeBlock, ReadBucket, WriteBucket
<1>11. ASSUME ClientNext, ~ RecvThrows, PutBlock,
              oracle' = IF call.op = "WRITE" /\ result' # NoResult
                        THEN [oracle EXCEPT ![call.addr] = call.data] ELSE oracle
       PROVE  Memory!RAMNext
  <2>1. ~ failed /\ ~ failed'
    BY <1>9, <1>11
  <2>2. UNCHANGED serverVars
    BY <1>11 DEF ClientNext
  <2>3. /\ cpc = "put" /\ call \in Calls /\ result' = block.data
        /\ call.op = "WRITE" => block.data = call.data
        /\ call' = call /\ failed' = failed
        /\ oracle' = IF call.op = "WRITE" THEN [oracle EXCEPT ![call.addr] = call.data] ELSE oracle
    BY <1>1, <1>11, <2>1, <2>2, PutFacts
  <2>4. result = NoResult /\ call # NoCall /\ call.op \in {"READ", "WRITE"}
    BY <1>1, <1>3, <2>3 DEF CallState, Calls
  <2>5. call.op = "READ" => block.data = oracle[call.addr]
    BY <1>2, <2>1, <2>3, HandIsCurrent
  <2>6. Memory!RAMPerform
    BY <2>1, <2>3, <2>4, <2>5 DEF Memory!RAMPerform
  <2> QED  BY <2>6 DEF Memory!RAMNext
<1>12. PutBlock => ~ RecvThrows
  BY DEF PutBlock, RecvThrows
<1>13. CASE ClientNext
  <2>1. CASE oracle' = oracle /\ ~ PutBlock
    BY <1>5, <1>6, <1>7, <1>8, <1>10, <1>13, <2>1 DEF ClientNext
  <2>2. CASE PutBlock /\ oracle' = IF call.op = "WRITE" /\ result' # NoResult
                                 THEN [oracle EXCEPT ![call.addr] = call.data] ELSE oracle
    BY <1>11, <1>12, <1>13, <2>2
  <2> QED  BY <1>5, <1>6, <1>7, <1>8, <1>10, <1>13, <2>1, <2>2 DEF ClientNext
<1> QED  BY <1>4, <1>13 DEF Next

\* Seen by its caller Ring ORAM is a RAM, as long as the stash file can be
\* relied on: whatever becomes of the server, its files and the connection.
THEOREM ImplementsRAM ==
    ASSUME "stash" \notin Faults
    PROVE  Spec => RefinesRAM
<1>1. Init => Memory!RAMInit
  BY Constants DEF Init, ConstructClient, Memory!RAMInit
<1>2. RInv /\ [Next]_vars => [Memory!RAMNext]_(Memory!ramVars)
  BY RAMSteps DEF Memory!ramVars
<1> QED
  BY <1>1, <1>2, RInvariance, PTL DEF Spec, RefinesRAM, Memory!RAMSpec
=============================================================================
