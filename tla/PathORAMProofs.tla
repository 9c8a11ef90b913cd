--------------------------- MODULE PathORAMProofs ---------------------------
(***************************************************************************)
(* Path ORAM has the right types, finds every block on its path, keeps one *)
(* current copy of each and so implements a RAM: for trees of any height,  *)
(* any number of blocks and any bucket size.  Types and places hold under  *)
(* any faults; the copies, as long as no file is cut off after its count.  *)
(***************************************************************************)
EXTENDS PathORAM, FoundationsLemmas

-----------------------------------------------------------------------------
\* The operators on blocks and buckets.

\* The recursive function in WithoutId is defined, and each of its values is a
\* sequence of blocks with another id.
KeptPrefixes(f, S, s, x) ==
    /\ f \in [0 .. Len(s) -> Seq({b \in S : b.id # x})]
    /\ f[0] = << >>
    /\ \A k \in 1 .. Len(s) :
         f[k] = IF s[k].id = x THEN f[k - 1] ELSE Append(f[k - 1], s[k])
    /\ WithoutId(s, x) = f[Len(s)]

LEMMA WithoutIdSteps ==
    ASSUME NEW S, NEW s \in Seq(S), NEW x
    PROVE  \E f : KeptPrefixes(f, S, s, x)
<1> DEFINE K == {b \in S : b.id # x}
           Q == Seq(K)
           N == Len(s)
           g == [p \in Nat \X Q |->
                   IF p[1] + 1 \in 1 .. N /\ s[p[1] + 1].id # x
                   THEN Append(p[2], s[p[1] + 1]) ELSE p[2]]
<1>1. << >> \in Q /\ N \in Nat
  OBVIOUS
<1>2. g \in [Nat \X Q -> Q]
  <2>1. ASSUME NEW p \in Nat \X Q, p[1] + 1 \in 1 .. N, s[p[1] + 1].id # x
        PROVE  Append(p[2], s[p[1] + 1]) \in Q
    <3>1. s[p[1] + 1] \in K
      BY <2>1
    <3> HIDE DEF K
    <3> QED  BY <3>1
  <2> HIDE DEF Q
  <2> QED  BY <2>1
<1>3. PICK h \in [Nat -> Q] : h[0] = << >> /\ \A n \in Nat : h[n + 1] = g[<<n, h[n]>>]
  <2>1. \E h : Recursion(h, Q, << >>, g)
    <3> HIDE DEF g, Q
    <3> QED  BY <1>1, <1>2, RecursionExists, Zenon
  <2> HIDE DEF g, Q
  <2> QED  BY <2>1 DEF Recursion
<1> DEFINE f == [k \in 0 .. N |-> h[k]]
<1>4. f \in [0 .. N -> Q] /\ f[0] = << >>
  BY <1>1, <1>3
<1>5. ASSUME NEW k \in 1 .. N
      PROVE  f[k] = IF s[k].id = x THEN f[k - 1] ELSE Append(f[k - 1], s[k])
  <2> DEFINE m == k - 1
  <2>1. m \in Nat /\ m \in 0 .. N /\ m + 1 = k /\ k \in 0 .. N
    BY <1>1
  <2>2. h[m] \in Q /\ h[m + 1] = g[<<m, h[m]>>]
    <3> HIDE DEF m, g, Q
    <3> QED  BY <1>3, <2>1
  <2>3. g[<<m, h[m]>>] = IF s[k].id # x THEN Append(h[m], s[k]) ELSE h[m]
    <3> HIDE DEF Q
    <3> QED  BY <2>1, <2>2
  <2> HIDE DEF g
  <2> QED  BY <2>1, <2>2, <2>3
<1>6. f = [k \in 0 .. N |-> IF k = 0 THEN << >>
                            ELSE IF s[k].id = x THEN f[k - 1] ELSE Append(f[k - 1], s[k])]
  <2>1. ASSUME NEW k \in 0 .. N
        PROVE  f[k] = IF k = 0 THEN << >>
                      ELSE IF s[k].id = x THEN f[k - 1] ELSE Append(f[k - 1], s[k])
    <3>1. CASE k = 0
      BY <1>4, <3>1
    <3>2. CASE k # 0
      <4>1. k \in 1 .. N
        BY <1>1, <3>2
      <4> HIDE DEF f
      <4> QED  BY <1>5, <3>2, <4>1
    <3> QED  BY <3>1, <3>2
  <2>2. f = [k \in 0 .. N |-> f[k]]
    OBVIOUS
  <2> HIDE DEF f, N
  <2> QED  BY <2>1, <2>2
<1> DEFINE kept == CHOOSE ff : ff = [k \in 0 .. N |-> IF k = 0 THEN << >>
                            ELSE IF s[k].id = x THEN ff[k - 1] ELSE Append(ff[k - 1], s[k])]
<1>7. kept = [k \in 0 .. N |-> IF k = 0 THEN << >>
                            ELSE IF s[k].id = x THEN kept[k - 1] ELSE Append(kept[k - 1], s[k])]
  <2> HIDE DEF f
  <2> QED  BY <1>6, Zenon
<1>8. WithoutId(s, x) = kept[N]
  BY Zenon DEF WithoutId
<1> HIDE DEF f, kept, Q
<1>9. \A k \in 0 .. N : kept[k] = f[k]
  <2> DEFINE T == {k \in 0 .. N : kept[k] # f[k]}
  <2> SUFFICES ASSUME T # {} PROVE FALSE
    OBVIOUS
  <2>1. PICK k \in T : \A j \in T : k <= j
    BY LeastNatural, T \subseteq Nat
  <2>2. k \in 0 .. N /\ kept[k] # f[k]
    OBVIOUS
  <2>3. kept[0] = << >>
    <3>1. 0 \in 0 .. N
      BY <1>1
    <3> HIDE DEF N
    <3> QED  BY <1>7, <3>1
  <2>4. k \in 1 .. N /\ k - 1 \in 0 .. N /\ k - 1 \notin T
    BY <1>4, <2>1, <2>2, <2>3
  <2>5. kept[k - 1] = f[k - 1]
    BY <2>4
  <2>6. kept[k] = IF s[k].id = x THEN kept[k - 1] ELSE Append(kept[k - 1], s[k])
    <3>1. k \in 0 .. N /\ k # 0
      BY <2>4
    <3> HIDE DEF N
    <3> QED  BY <1>7, <3>1
  <2>7. f[k] = IF s[k].id = x THEN f[k - 1] ELSE Append(f[k - 1], s[k])
    BY <1>5, <2>4
  <2> QED  BY <2>2, <2>5, <2>6, <2>7
<1>10. WithoutId(s, x) = f[N]
  BY <1>1, <1>8, <1>9
<1>11. KeptPrefixes(f, S, s, x)
  BY <1>4, <1>5, <1>10 DEF Q, KeptPrefixes
<1> QED  BY <1>11

\* What ReadPath and RemoveBlockFromStash keep: blocks of the sequence, none
\* with the id they leave out.
THEOREM WithoutIdType ==
    ASSUME NEW S, NEW s \in Seq(S), NEW x
    PROVE  WithoutId(s, x) \in Seq({b \in S : b.id # x})
<1>1. PICK f : KeptPrefixes(f, S, s, x)
  BY WithoutIdSteps, Zenon
<1>2. Len(s) \in 0 .. Len(s)
  OBVIOUS
<1> QED  BY <1>1, <1>2 DEF KeptPrefixes

\* Where a sequence holds the blocks with id a.
At(s, a) == {k \in 1 .. Len(s) : s[k].id = a}

\* What one sequence has of id a, another has too: nothing, or the same block once.
Carries(s, t, a) ==
    /\ At(s, a) = {} => At(t, a) = {}
    /\ \A k : At(s, a) = {k} => \E j : At(t, a) = {j} /\ t[j] = s[k]

LEMMA AtAppend ==
    ASSUME NEW S, NEW s \in Seq(S), NEW b \in S, NEW a
    PROVE  /\ Len(Append(s, b)) = Len(s) + 1 /\ Append(s, b)[Len(s) + 1] = b
           /\ \A k \in 1 .. Len(s) : Append(s, b)[k] = s[k]
           /\ At(Append(s, b), a) = At(s, a) \cup (IF b.id = a THEN {Len(s) + 1} ELSE {})
<1>1. /\ Len(Append(s, b)) = Len(s) + 1 /\ Append(s, b)[Len(s) + 1] = b
      /\ \A k \in 1 .. Len(s) : Append(s, b)[k] = s[k]
  OBVIOUS
<1>2. Len(s) \in Nat
  OBVIOUS
<1>3. ASSUME NEW k
      PROVE  k \in At(Append(s, b), a) <=> k \in At(s, a) \cup (IF b.id = a THEN {Len(s) + 1} ELSE {})
  <2>1. CASE k \in 1 .. Len(s)
    BY <1>1, <1>2, <2>1 DEF At
  <2>2. CASE k = Len(s) + 1
    BY <1>1, <1>2, <2>2 DEF At
  <2>3. CASE k \notin 1 .. Len(s) + 1
    BY <1>1, <1>2, <2>3 DEF At
  <2> QED  BY <1>2, <2>1, <2>2, <2>3
<1> QED  BY <1>1, <1>3

LEMMA AtConcat ==
    ASSUME NEW S, NEW s \in Seq(S), NEW t \in Seq(S), NEW a
    PROVE  /\ Len(s) \in Nat /\ Len(s \o t) = Len(s) + Len(t)
           /\ \A k \in 1 .. Len(s) : (s \o t)[k] = s[k]
           /\ \A k \in 1 .. Len(t) : (s \o t)[Len(s) + k] = t[k]
           /\ At(s \o t, a) = At(s, a) \cup {Len(s) + k : k \in At(t, a)}
<1>1. Len(s) \in Nat /\ Len(t) \in Nat /\ Len(s \o t) = Len(s) + Len(t)
  OBVIOUS
<1>2. \A k \in 1 .. Len(s) : (s \o t)[k] = s[k]
  OBVIOUS
<1>3. \A k \in 1 .. Len(t) : (s \o t)[Len(s) + k] = t[k]
  OBVIOUS
<1>4. ASSUME NEW k
      PROVE  k \in At(s \o t, a) <=> k \in At(s, a) \cup {Len(s) + l : l \in At(t, a)}
  <2>1. CASE k \in 1 .. Len(s)
    BY <1>1, <1>2, <2>1 DEF At
  <2>2. CASE k \in Len(s) + 1 .. Len(s) + Len(t)
    <3> DEFINE l == k - Len(s)
    <3>1. l \in 1 .. Len(t) /\ k = Len(s) + l /\ k \notin 1 .. Len(s)
      BY <1>1, <2>2
    <3>2. (s \o t)[k] = t[l]
      BY <1>3, <3>1
    <3>3. \A m \in At(t, a) : k = Len(s) + m => m = l
      BY <1>1, <3>1 DEF At
    <3> HIDE DEF l
    <3> QED  BY <1>1, <2>2, <3>1, <3>2, <3>3 DEF At
  <2>3. CASE k \notin 1 .. Len(s) + Len(t)
    BY <1>1, <2>3 DEF At
  <2> QED  BY <1>1, <2>1, <2>2, <2>3
<1> QED  BY <1>1, <1>2, <1>3, <1>4

LEMMA AtTail ==
    ASSUME NEW S, NEW s \in Seq(S), s # << >>, NEW a
    PROVE  /\ 1 \in 1 .. Len(s) /\ Head(s) = s[1] /\ Len(Tail(s)) = Len(s) - 1
           /\ \A k \in 1 .. Len(Tail(s)) : Tail(s)[k] = s[k + 1]
           /\ \A k \in 1 .. Len(s) : k # 1 => k - 1 \in 1 .. Len(Tail(s)) /\ Tail(s)[k - 1] = s[k]
           /\ At(Tail(s), a) = {k - 1 : k \in At(s, a) \ {1}}
<1>1. /\ 1 \in 1 .. Len(s) /\ Head(s) = s[1] /\ Len(s) \in Nat /\ Len(Tail(s)) = Len(s) - 1
      /\ \A k \in 1 .. Len(Tail(s)) : Tail(s)[k] = s[k + 1]
      /\ \A k \in 1 .. Len(s) : k # 1 => k - 1 \in 1 .. Len(Tail(s)) /\ Tail(s)[k - 1] = s[k]
  OBVIOUS
<1>2. ASSUME NEW k \in At(Tail(s), a)
      PROVE  k \in {l - 1 : l \in At(s, a) \ {1}}
  <2>1. k \in 1 .. Len(Tail(s)) /\ Tail(s)[k].id = a
    BY DEF At
  <2>2. k + 1 \in At(s, a) \ {1} /\ k = (k + 1) - 1
    BY <1>1, <2>1 DEF At
  <2> QED  BY <2>2
<1>3. ASSUME NEW l \in At(s, a) \ {1}
      PROVE  l - 1 \in At(Tail(s), a)
  BY <1>1 DEF At
<1> QED  BY <1>1, <1>2, <1>3

\* Leaving out the blocks with one id neither loses nor doubles another.
THEOREM WithoutIdKeeps ==
    ASSUME NEW S, NEW s \in Seq(S), NEW x, NEW a, a # x
    PROVE  Carries(s, WithoutId(s, x), a)
<1> DEFINE N == Len(s)
           Before(m) == {k \in 1 .. m : s[k].id = a}
<1>1. PICK f : KeptPrefixes(f, S, s, x)
  BY WithoutIdSteps, Zenon
<1> DEFINE K == {b \in S : b.id # x}
           Good(m) == /\ Before(m) = {} => At(f[m], a) = {}
                      /\ \A k : Before(m) = {k} => \E j : At(f[m], a) = {j} /\ f[m][j] = s[k]
           T == {m \in 0 .. N : ~ Good(m)}
<1>2. /\ N \in Nat /\ f \in [0 .. N -> Seq(K)] /\ f[0] = << >>
      /\ \A k \in 1 .. N : f[k] = IF s[k].id = x THEN f[k - 1] ELSE Append(f[k - 1], s[k])
      /\ WithoutId(s, x) = f[N]
  BY <1>1 DEF KeptPrefixes
<1>3. Good(0)
  BY <1>2 DEF At
<1>4. ASSUME NEW m \in 1 .. N, Good(m - 1)
      PROVE  Good(m)
  <2> DEFINE p == f[m - 1]
  <2>1. m - 1 \in 0 .. N /\ p \in Seq(K) /\ s[m] \in S
    <3>1. m - 1 \in 0 .. N /\ m \in 1 .. Len(s)
      BY <1>2
    <3> QED  BY <1>2, <3>1
  <2>2. Before(m) = Before(m - 1) \cup (IF s[m].id = a THEN {m} ELSE {})
    BY <1>2
  <2>3. m \notin Before(m - 1)
    BY <1>2
  <2> HIDE DEF Before, p
  <2>4. CASE s[m].id = x
    <3>1. f[m] = f[m - 1] /\ Before(m) = Before(m - 1)
      BY <1>2, <2>2, <2>4
    <3> QED  BY <1>4, <3>1
  <2>5. CASE s[m].id # x
    <3>1. s[m] \in K /\ f[m] = Append(p, s[m])
      BY <1>2, <2>1, <2>5 DEF p
    <3> HIDE DEF K
    <3>2. /\ f[m][Len(p) + 1] = s[m]
          /\ \A k \in 1 .. Len(p) : f[m][k] = p[k]
          /\ At(f[m], a) = At(p, a) \cup (IF s[m].id = a THEN {Len(p) + 1} ELSE {})
      BY <2>1, <3>1, AtAppend
    <3>3. CASE s[m].id = a
      <4>1. m \in Before(m) /\ At(f[m], a) = At(p, a) \cup {Len(p) + 1}
        BY <2>2, <3>2, <3>3
      <4>2. ASSUME NEW k, Before(m) = {k}
            PROVE  \E j : At(f[m], a) = {j} /\ f[m][j] = s[k]
        <5>1. k = m /\ Before(m - 1) = {}
          BY <2>2, <2>3, <4>1, <4>2
        <5>2. At(p, a) = {}
          BY <1>4, <5>1 DEF p
        <5> QED  BY <3>2, <4>1, <5>1, <5>2
      <4> QED  BY <4>1, <4>2
    <3>4. CASE s[m].id # a
      <4>1. Before(m) = Before(m - 1) /\ At(f[m], a) = At(p, a)
        BY <2>2, <3>2, <3>4
      <4>2. ASSUME NEW k, Before(m) = {k}
            PROVE  \E j : At(f[m], a) = {j} /\ f[m][j] = s[k]
        <5>1. PICK j : At(p, a) = {j} /\ p[j] = s[k]
          BY <1>4, <4>1, <4>2 DEF p
        <5>2. j \in 1 .. Len(p)
          BY <5>1 DEF At
        <5> QED  BY <3>2, <4>1, <5>1, <5>2
      <4>3. Before(m) = {} => At(f[m], a) = {}
        BY <1>4, <4>1 DEF p
      <4> QED  BY <4>2, <4>3
    <3> QED  BY <3>3, <3>4
  <2> QED  BY <2>4, <2>5
<1> HIDE DEF Good
<1>5. T = {}
  <2> SUFFICES ASSUME T # {} PROVE FALSE
    OBVIOUS
  <2>1. PICK m \in T : \A j \in T : m <= j
    BY LeastNatural, T \subseteq Nat
  <2>2. m \in 0 .. N /\ ~ Good(m) /\ m # 0
    BY <1>3
  <2>3. m \in 1 .. N /\ m - 1 \in 0 .. N /\ m - 1 \notin T
    BY <1>2, <2>1, <2>2
  <2> QED  BY <1>4, <2>2, <2>3
<1>6. Good(N)
  BY <1>2, <1>5
<1>7. Before(N) = At(s, a)
  BY DEF At
<1> HIDE DEF Before
<1> QED  BY <1>2, <1>6, <1>7 DEF Good, Carries

\* A bucket padded by WritePath or by the server is full, holds what was put
\* into it first, and dummies after that.
LEMMA FillProperties ==
    ASSUME NEW b \in Seq(AnyBlock), Len(b) <= BucketSize
    PROVE  /\ FillBucketWithDummies(b) \in Seq(AnyBlock)
           /\ Len(FillBucketWithDummies(b)) = BucketSize
           /\ \A k \in 1 .. BucketSize :
                FillBucketWithDummies(b)[k] = IF k <= Len(b) THEN b[k] ELSE Dummy
<1> USE BlocksAssumption
<1> DEFINE n == BucketSize - Len(b)
           pad == [k \in 1 .. n |-> Dummy]
<1>1. n \in Nat /\ Len(b) \in Nat /\ Dummy \in AnyBlock
  BY DEF AnyBlock
<1>2. pad \in Seq(AnyBlock) /\ Len(pad) = n
  <2> HIDE DEF n
  <2> QED  BY <1>1
<1>3. \A k \in 1 .. n : pad[k] = Dummy
  OBVIOUS
<1>4. FillBucketWithDummies(b) = b \o pad
  BY DEF FillBucketWithDummies
<1> HIDE DEF pad
<1>5. b \o pad \in Seq(AnyBlock) /\ Len(b \o pad) = Len(b) + Len(pad)
  BY <1>2
<1>6. \A k \in 1 .. Len(b) + Len(pad) : (b \o pad)[k] = IF k <= Len(b) THEN b[k] ELSE pad[k - Len(b)]
  BY <1>2
<1> QED  BY <1>1, <1>2, <1>3, <1>4, <1>5, <1>6

-----------------------------------------------------------------------------

LEMMA Constants ==
    /\ TreeHeight \in Nat /\ BucketSize \in Nat \ {0} /\ NumBlocks \in Nat \ {0}
    /\ SizeTModulus \in Nat \ {0}
    /\ Zero \in Data /\ NoResult \notin Data
    /\ NumLeaves \in Nat /\ LeafOffset \in Nat /\ NumTreeNodes \in Nat
    /\ NumLeaves >= 1 /\ 0 \in Leaves
    /\ NumTreeNodes = LeafOffset + NumLeaves
<1>1. /\ Pow2(TreeHeight) \in Nat /\ Pow2(TreeHeight) >= 1
      /\ Pow2(TreeHeight + 1) = 2 * Pow2(TreeHeight)
  BY TreeHeightAssumption, Pow2Step
<1> QED
  BY <1>1, TreeHeightAssumption, BlocksAssumption, ServerAssumption, ClientAssumption
     DEF NumLeaves, LeafOffset, NumTreeNodes, Leaves

LEMMA DummyType ==
    /\ Dummy \in AnyBlock /\ Dummy.id = DummyId
    /\ \A b \in Block : b \in AnyBlock /\ b.id \in Addr /\ b.id # DummyId
    /\ \A b \in AnyBlock : b.id # DummyId => b \in Block
BY Constants DEF AnyBlock, Block, Dummy, DummyId, Addr

LEMMA BucketsAre == \A b : b \in Buckets <=> b \in Seq(AnyBlock) /\ Len(b) <= BucketSize
<1> USE Constants
<1>1. \A b \in Buckets : b \in Seq(AnyBlock) /\ Len(b) <= BucketSize
  BY DEF Buckets
<1>2. ASSUME NEW b \in Seq(AnyBlock), Len(b) <= BucketSize
      PROVE  b \in Buckets
  <2>1. b \in [1 .. Len(b) -> AnyBlock] /\ Len(b) \in 0 .. BucketSize
    BY <1>2
  <2> QED  BY <2>1 DEF Buckets
<1> QED  BY <1>1, <1>2

LEMMA EmptyBucket == << >> \in Buckets
BY Constants DEF Buckets

LEMMA BucketUnchanged == \A b \in Buckets : DeserializeBucket(b) = b
BY BucketsAre DEF DeserializeBucket

\* A file cut off after its count is no bucket, and has no block of any address.
LEMMA TornFacts ==
    /\ Torn \notin Buckets /\ Torn # << >>
    /\ \A k \in 1 .. Len(Torn) : Torn[k].id = DummyId
<1>1. Len(Torn) = BucketSize + 1 /\ \A k \in 1 .. BucketSize + 1 : Torn[k] = Dummy
  BY Constants DEF Torn
<1> QED  BY <1>1, BucketsAre, Constants, DummyType

\* A write leaves the bucket, or what is left of a file whose write failed.
LEMMA WrittenFacts ==
    /\ << >> \in Truncated
    /\ \A file \in Truncated : file = << >> \/ file = Torn
    /\ \A b : b \in Written(b) /\ \A file \in Written(b) : file = b \/ file \in Truncated
    /\ "torn" \notin Faults => Truncated = {<< >>}
BY DEF Truncated, Written

LEMMA FilledBucket ==
    ASSUME NEW b \in Seq(Block), Len(b) <= BucketSize
    PROVE  /\ FillBucketWithDummies(b) \in Buckets
           /\ Len(FillBucketWithDummies(b)) = BucketSize
           /\ \A k \in 1 .. BucketSize :
                FillBucketWithDummies(b)[k] = IF k <= Len(b) THEN b[k] ELSE Dummy
<1>1. b \in Seq(AnyBlock)
  <2>1. \A k \in 1 .. Len(b) : b[k] \in AnyBlock
    BY DummyType
  <2> QED  BY <2>1
<1> QED  BY <1>1, FillProperties, BucketsAre, Constants

LEMMA RequestShapes ==
    ASSUME NEW r \in Requests
    PROVE  /\ r.cmd \in {"none", "rest", "Q", "P", "T"}
           /\ r.cmd = "none" <=> r = NoMsg
           /\ r.cmd = "rest" <=> r = Rest
           /\ r.cmd = "T" => r.entries \in Seq(Entries) /\ r = [cmd |-> "T", entries |-> r.entries]
           /\ r.cmd = "P" => \E leaf \in Leaves : r = [cmd |-> "P", path |-> GetPathIndices(leaf)]
BY DEF Requests, NoMsg, Rest

LEMMA ReplyShapes ==
    ASSUME NEW r \in Replies
    PROVE  /\ r.cmd \in {"none", "ack", "path"}
           /\ r.cmd = "none" <=> r = NoMsg
           /\ r.cmd = "path" => r.buckets \in Seq(Buckets) /\ Len(r.buckets) = TreeHeight + 1
BY DEF Replies, NoMsg

LEMMA PathType ==
    ASSUME NEW leaf \in Leaves
    PROVE  /\ GetPathIndices(leaf) \in Seq(Nodes)
           /\ Len(GetPathIndices(leaf)) = TreeHeight + 1
           /\ DOMAIN GetPathIndices(leaf) = 1 .. TreeHeight + 1
           /\ \A k \in 1 .. TreeHeight + 1 : /\ k - 1 \in Levels
                                             /\ GetPathIndices(leaf)[k] = PathNode(leaf, k - 1)
<1>1. \A k \in 1 .. TreeHeight + 1 : k - 1 \in Levels /\ PathNode(leaf, k - 1) \in Nodes
  BY Constants, PathNodeInTree DEF Levels
<1> QED  BY <1>1, Constants DEF GetPathIndices

LEMMA EntriesType ==
    ASSUME NEW leaf \in Leaves, NEW pb \in [Levels -> Seq(Block)],
           \A i \in Levels : Len(pb[i]) <= BucketSize
    PROVE  /\ WritePathEntries(leaf, pb) \in Seq(Entries)
           /\ Len(WritePathEntries(leaf, pb)) = TreeHeight + 1
<1>1. ASSUME NEW k \in 1 .. TreeHeight + 1
      PROVE  [node |-> PathNode(leaf, k - 1), bucket |-> FillBucketWithDummies(pb[k - 1])] \in Entries
  <2>1. k - 1 \in Levels /\ PathNode(leaf, k - 1) \in Nodes
    BY PathType, PathNodeInTree
  <2>2. FillBucketWithDummies(pb[k - 1]) \in Buckets
    BY <2>1, FilledBucket
  <2> QED  BY <2>1, <2>2 DEF Entries
<1> HIDE DEF Entries
<1> QED  BY <1>1, Constants DEF WritePathEntries

-----------------------------------------------------------------------------
LEMMA InitialTreeType ==
    ASSUME NEW s \in Seq(Block)
    PROVE  /\ InitialTree(s) \in [Nodes -> Buckets]
           /\ \A n \in Nodes : \A k \in 1 .. Len(InitialTree(s)[n]) :
                \/ InitialTree(s)[n][k].id = DummyId
                \/ /\ n - LeafOffset \in Leaves /\ n - LeafOffset < Len(s)
                   /\ InitialTree(s)[n][k] = s[n - LeafOffset + 1]
<1> DEFINE leaf(n) == n - LeafOffset
           c(n) == IF n >= LeafOffset /\ leaf(n) < Len(s) THEN <<s[leaf(n) + 1]>> ELSE << >>
<1>1. ASSUME NEW n \in Nodes
      PROVE  /\ c(n) \in Seq(Block) /\ Len(c(n)) <= BucketSize
             /\ c(n) # << >> => /\ leaf(n) \in Leaves /\ leaf(n) < Len(s)
                                /\ Len(c(n)) = 1 /\ c(n)[1] = s[leaf(n) + 1]
  <2>1. CASE n >= LeafOffset /\ leaf(n) < Len(s)
    <3>1. leaf(n) \in Leaves /\ leaf(n) + 1 \in 1 .. Len(s)
      BY <2>1, Constants DEF Nodes, Leaves
    <3>2. s[leaf(n) + 1] \in Block
      BY <3>1
    <3>3. c(n) = <<s[leaf(n) + 1]>>
      BY <2>1
    <3> HIDE DEF c, leaf
    <3> QED  BY <2>1, <3>1, <3>2, <3>3, Constants
  <2>2. CASE ~ (n >= LeafOffset /\ leaf(n) < Len(s))
    BY <2>2, Constants
  <2> QED  BY <2>1, <2>2
<1>2. \A n \in Nodes : InitialTree(s)[n] = FillBucketWithDummies(c(n))
  BY DEF InitialTree
<1>3. InitialTree(s) = [n \in Nodes |-> InitialTree(s)[n]]
  BY DEF InitialTree
<1> HIDE DEF c, leaf
<1>4. InitialTree(s) \in [Nodes -> Buckets]
  BY <1>1, <1>2, <1>3, FilledBucket
<1>5. ASSUME NEW n \in Nodes, NEW k \in 1 .. Len(InitialTree(s)[n]), InitialTree(s)[n][k].id # DummyId
      PROVE  leaf(n) \in Leaves /\ leaf(n) < Len(s) /\ InitialTree(s)[n][k] = s[leaf(n) + 1]
  <2>1. k \in 1 .. BucketSize /\ InitialTree(s)[n][k] = IF k <= Len(c(n)) THEN c(n)[k] ELSE Dummy
    BY <1>1, <1>2, <1>5, FilledBucket
  <2>2. k <= Len(c(n)) /\ c(n) # << >>
    BY <1>1, <1>5, <2>1, DummyType
  <2> QED  BY <1>1, <2>1, <2>2
<1> QED  BY <1>4, <1>5 DEF leaf

\* Each bucket of the tree left by Init is the one stored, or a lost one.
LEMMA WrittenTreesType ==
    ASSUME NEW t \in [Nodes -> Buckets], NEW w \in WrittenTrees(t)
    PROVE  /\ w \in [Nodes -> Buckets \cup Truncated]
           /\ \A n \in Nodes : w[n] = t[n] \/ w[n] \in Truncated
<1>1. /\ w \in [Nodes -> UNION {Written(t[n]) : n \in Nodes}]
      /\ \A n \in Nodes : w[n] = t[n] \/ w[n] \in Truncated
  BY WrittenFacts DEF WrittenTrees
<1> QED  BY <1>1

LEMMA InitIInv == Init => IInv
<1> SUFFICES ASSUME Init PROVE IInv
  OBVIOUS
<1> USE Constants
<1>1. PICK n \in 0 .. NumBlocks :
        /\ n <= NumLeaves
        /\ oracle \in [Addr -> Data]
        /\ tree \in WrittenTrees(InitialTree([k \in 1 .. n |-> [id |-> k - 1, data |-> oracle[k - 1]]]))
        /\ posMap \in [Addr -> Leaves]
        /\ \A a \in 0 .. n - 1 : posMap[a] = a
        /\ ConstructClient(posMap)
  BY DEF Init, ConstructClient
<1>2. /\ nodeCount = NumTreeNodes /\ running = FALSE /\ spc = "constructed"
      /\ stats = [c \in Commands |-> 0] /\ conn = "up" /\ req = NoMsg /\ resp = NoMsg
  BY DEF Init
<1>3. /\ stash = << >> /\ cpc = "idle" /\ call = NoCall /\ oldLeaf = 0 /\ incoming = << >>
      /\ rest = << >> /\ pathBuckets = NoPath /\ result = NoResult /\ failed = FALSE
  BY <1>1 DEF ConstructClient
<1> DEFINE s == [k \in 1 .. n |-> [id |-> k - 1, data |-> oracle[k - 1]]]
<1>4. s \in Seq(Block) /\ Len(s) = n /\ \A k \in 1 .. n : s[k].id = k - 1
  <2>1. \A k \in 1 .. n : [id |-> k - 1, data |-> oracle[k - 1]] \in Block
    BY <1>1 DEF Block, Addr
  <2> HIDE DEF Block
  <2> QED  BY <2>1
<1>5. /\ tree \in [Nodes -> Buckets \cup Truncated]
      /\ \A m \in Nodes : tree[m] = InitialTree(s)[m] \/ tree[m] \in Truncated
  <2>1. InitialTree(s) \in [Nodes -> Buckets] /\ tree \in WrittenTrees(InitialTree(s))
    BY <1>1, <1>4, InitialTreeType
  <2> HIDE DEF s
  <2> QED  BY <2>1, WrittenTreesType
<1>6. NoPath \in [Levels -> Seq(Block)] /\ \A i \in Levels : NoPath[i] = << >>
  BY DEF NoPath
<1>7. TypeOK
  <2>1. NoMsg \in Requests /\ NoMsg \in Replies
    BY DEF Requests, Replies
  <2>2. stats \in [Commands -> 0 .. SizeTModulus - 1]
    BY <1>2
  <2>3. /\ stash \in Seq(Block) /\ incoming \in Seq(Buckets) /\ rest \in Seq(Block)
        /\ pathBuckets \in [Levels -> Seq(Block)]
        /\ \A i \in Levels : Len(pathBuckets[i]) <= BucketSize
    BY <1>3, <1>6
  <2> QED
    BY <1>1, <1>2, <1>3, <1>5, <2>1, <2>2, <2>3 DEF TypeOK, ServerPoints, ClientPoints
<1>8. Conversation
  BY <1>2, <1>3 DEF Conversation, NoMsg, Rest
<1>9. PlacedInTransit
  BY <1>2, <1>3, <1>6 DEF PlacedInTransit, Placed, NoMsg
<1>10. PathInvariant
  <2> SUFFICES ASSUME NEW m \in Nodes, NEW k \in 1 .. Len(tree[m]), tree[m][k].id # DummyId
               PROVE  OnPath(m, posMap[tree[m][k].id])
    BY DEF PathInvariant
  <2> DEFINE leaf == m - LeafOffset
  <2>0. tree[m] = InitialTree(s)[m]
    <3>1. tree[m] # << >> /\ tree[m] # Torn
      BY TornFacts
    <3> HIDE DEF s
    <3> QED  BY <1>5, <3>1, WrittenFacts
  <2>1. leaf \in Leaves /\ leaf < n /\ tree[m][k] = s[leaf + 1]
    BY <1>4, <2>0, InitialTreeType
  <2>2. leaf \in 0 .. n - 1 /\ tree[m][k].id = leaf
    BY <1>4, <2>1 DEF Leaves
  <2>3. posMap[tree[m][k].id] = leaf
    BY <1>1, <2>2
  <2>4. PathNode(leaf, 0) = m /\ 0 \in Levels
    BY <2>1, PathNodeStep DEF Levels, Nodes
  <2> QED  BY <2>3, <2>4 DEF OnPath
<1> QED  BY <1>7, <1>8, <1>9, <1>10 DEF IInv

-----------------------------------------------------------------------------
\* The commands the client never sends leave their handlers disabled.
LEMMA ServerCases ==
    ASSUME TypeOK, Conversation, ServerStep
    PROVE  \/ HandleReadPath \/ HandleWritePath \/ WritePathBucket
           \/ AckWritePath \/ HandleQuit \/ ServerRecvThrows
<1>1. req.cmd \in {"none", "Q", "P", "T"} \/ spc # "recv"
  BY RequestShapes DEF TypeOK, Conversation
<1> QED
  BY <1>1 DEF ServerStep, HandleReadBucket, HandleWriteBucket, HandleUnknown, Command, Commands

\* A file of the tree is a bucket or cut off after its count.
LEMMA TreeKinds ==
    ASSUME TypeOK
    PROVE  /\ \A n \in Nodes : tree[n] \in Buckets \/ tree[n] = Torn
           /\ "torn" \notin Faults => tree \in [Nodes -> Buckets]
<1>1. tree \in [Nodes -> Buckets \cup Truncated]
  BY DEF TypeOK
<1>2. \A n \in Nodes : tree[n] \in Buckets \/ tree[n] = Torn
  BY <1>1, WrittenFacts, EmptyBucket
<1>3. "torn" \notin Faults => Buckets \cup Truncated = Buckets
  BY WrittenFacts, EmptyBucket
<1> QED  BY <1>1, <1>2, <1>3

\* The client asks for a whole path, and is answered the buckets of its nodes,
\* none of them lost, or nothing.
LEMMA HandleReadPathReads ==
    ASSUME TypeOK, HandleReadPath
    PROVE  /\ req.cmd = "P" /\ spc = "recv" /\ req' = NoMsg
           /\ UNCHANGED <<tree, nodeCount, conn>>
           /\ running' \in BOOLEAN /\ spc' \in {"recv", "left"} /\ Count("P")
           /\ \/ resp' = resp
              \/ \E buckets \in Seq(Buckets) :
                   /\ conn = "up" /\ resp' = [cmd |-> "path", buckets |-> buckets]
                   /\ Len(buckets) = TreeHeight + 1
                   /\ \A k \in 1 .. TreeHeight + 1 :
                        tree[req.path[k]] \in {buckets[k], Torn} /\ tree[req.path[k]] # << >>
<1> USE Constants
<1>1. /\ req.cmd = "P" /\ spc = "recv" /\ UNCHANGED <<tree, nodeCount, conn>>
      /\ running' \in BOOLEAN /\ spc' \in {"recv", "left"}
  BY DEF HandleReadPath, Command, Leave, NextTurn, TypeOK
<1>2. PICK leaf \in Leaves : req = [cmd |-> "P", path |-> GetPathIndices(leaf)]
  BY <1>1, RequestShapes DEF TypeOK
<1>3. Initialized /\ Len(req.path) = TreeHeight + 1 /\ DOMAIN req.path = 1 .. TreeHeight + 1
  BY <1>2, PathType DEF TypeOK, Initialized
<1>4. \A k \in 1 .. TreeHeight + 1 : req.path[k] \in Nodes
  BY <1>2, PathType
<1>5. req' = NoMsg /\ Count("P")
  BY <1>3 DEF HandleReadPath, Consume
<1>6. CASE resp' = resp
  BY <1>1, <1>5, <1>6
<1>7. CASE resp' # resp
  <2>1. PICK buckets \in [1 .. Len(req.path) -> UNION {BucketsRead(req.path[k]) : k \in DOMAIN req.path}] :
          /\ \A k \in DOMAIN req.path : buckets[k] \in BucketsRead(req.path[k])
          /\ SendReply([cmd |-> "path", buckets |-> buckets])
    BY <1>3, <1>7 DEF HandleReadPath
  <2>2. \A k \in 1 .. TreeHeight + 1 : tree[req.path[k]] # << >>
    BY <1>3, <1>7 DEF HandleReadPath, Stored
  <2>3. ASSUME NEW k \in 1 .. TreeHeight + 1
        PROVE  buckets[k] \in Buckets /\ tree[req.path[k]] \in {buckets[k], Torn}
    <3>1. buckets[k] \in BucketsRead(req.path[k])
      BY <1>3, <2>1
    <3> QED  BY <1>4, <3>1, TreeKinds, BucketUnchanged DEF BucketsRead
  <2>4. buckets \in Seq(Buckets) /\ Len(buckets) = TreeHeight + 1
    <3>1. DOMAIN buckets = 1 .. TreeHeight + 1 /\ buckets = [k \in 1 .. TreeHeight + 1 |-> buckets[k]]
      BY <1>3, <2>1
    <3>2. \A k \in 1 .. TreeHeight + 1 : buckets[k] \in Buckets
      BY <2>3
    <3> HIDE DEF Buckets
    <3> QED  BY <3>1, <3>2
  <2>5. conn = "up" /\ resp' = [cmd |-> "path", buckets |-> buckets]
    BY <1>7, <2>1 DEF SendReply
  <2> QED  BY <1>1, <1>5, <2>2, <2>3, <2>4, <2>5
<1> QED  BY <1>6, <1>7

\* A turn of the loop of HandleWritePath stores the next bucket or loses it, or
\* ends the loop.
LEMMA WritePathBucketWrites ==
    ASSUME TypeOK, Conversation, WritePathBucket
    PROVE  /\ spc = "writing" /\ req.cmd = "T" /\ req.entries \in Seq(Entries) /\ req.entries # << >>
           /\ Head(req.entries) \in Entries /\ Tail(req.entries) \in Seq(Entries)
           /\ UNCHANGED <<nodeCount, stats, conn, resp>>
           /\ \/ /\ spc' = "writing" /\ running' = running
                 /\ req' = [cmd |-> "T", entries |-> Tail(req.entries)]
                 /\ \E file \in {Head(req.entries).bucket} \cup Truncated :
                      tree' = [tree EXCEPT ![Head(req.entries).node] = file]
              \/ /\ spc' = "left" /\ running' = FALSE /\ req' \in {NoMsg, Rest}
                 /\ \/ tree' = tree
                    \/ \E file \in Truncated : tree' = [tree EXCEPT ![Head(req.entries).node] = file]
<1>1. /\ spc = "writing" /\ req.cmd = "T" /\ req.entries \in Seq(Entries) /\ req.entries # << >>
      /\ UNCHANGED <<nodeCount, stats, conn, resp>>
  BY RequestShapes DEF WritePathBucket, Conversation, TypeOK
<1> DEFINE entry == Head(req.entries)
<1>2. entry \in Entries /\ Tail(req.entries) \in Seq(Entries)
  BY <1>1
<1>3. DeserializeBucket(entry.bucket) = entry.bucket
  BY <1>2, BucketUnchanged DEF Entries
<1>4. \/ /\ WriteBucketToDisk(entry.node, entry.bucket)
         /\ req' = [cmd |-> "T", entries |-> Tail(req.entries)] /\ spc' = spc /\ running' = running
      \/ WriteBucketThrows(entry.node) /\ LeaveRest(Tail(req.entries)) /\ Leave
  BY <1>3, Zenon DEF WritePathBucket
<1>5. CASE WriteBucketToDisk(entry.node, entry.bucket) /\ spc' = spc
  <2>1. \E file \in {entry.bucket} \cup Truncated : tree' = [tree EXCEPT ![entry.node] = file]
    BY <1>5, WrittenFacts DEF WriteBucketToDisk
  <2> HIDE DEF entry
  <2> QED  BY <1>1, <1>2, <1>4, <1>5, <2>1 DEF Leave, entry
<1>6. CASE WriteBucketThrows(entry.node) /\ LeaveRest(Tail(req.entries)) /\ Leave
  <2>1. tree' = tree \/ \E file \in Truncated : tree' = [tree EXCEPT ![entry.node] = file]
    BY <1>6 DEF WriteBucketThrows
  <2>2. spc' = "left" /\ running' = FALSE /\ req' \in {NoMsg, Rest}
    BY <1>6 DEF LeaveRest, Leave
  <2> HIDE DEF entry
  <2> QED  BY <1>1, <1>2, <2>1, <2>2 DEF entry
<1> QED  BY <1>4, <1>5, <1>6

LEMMA ServerType ==
    ASSUME IInv, ServerNext
    PROVE  TypeOK'
<1> USE Constants
<1>0. TypeOK /\ Conversation
  BY DEF IInv
<1>1. UNCHANGED <<clientVars, oracle>>
  BY DEF ServerNext
<1>2. NoMsg \in Requests /\ Rest \in Requests /\ NoMsg \in Replies /\ [cmd |-> "ack"] \in Replies
  BY DEF Requests, Replies
<1>3. \A c \in Commands : [stats EXCEPT ![c] = (@ + 1) % SizeTModulus] \in [Commands -> 0 .. SizeTModulus - 1]
  BY <1>0 DEF TypeOK
<1> DEFINE ServerTypeOK ==
             /\ tree \in [Nodes -> Buckets \cup Truncated] /\ nodeCount = NumTreeNodes /\ running \in BOOLEAN
             /\ spc \in ServerPoints /\ stats \in [Commands -> 0 .. SizeTModulus - 1]
             /\ conn \in {"up", "down"} /\ req \in Requests /\ resp \in Replies
<1>4. SUFFICES ServerTypeOK'
  BY <1>0, <1>1 DEF TypeOK, clientVars
<1>5. ServerTypeOK
  BY <1>0 DEF TypeOK
<1>6. CASE StartHandleRequests
  BY <1>5, <1>6 DEF StartHandleRequests, ServerPoints
<1>7. CASE Stop
  BY <1>5, <1>7 DEF Stop
<1>8. CASE DestroyServer
  BY <1>5, <1>8 DEF DestroyServer, ServerPoints
<1>9. CASE HandleReadPath
  <2>1. /\ tree' = tree /\ nodeCount' = nodeCount /\ conn' = conn /\ req' = NoMsg
        /\ running' \in BOOLEAN /\ spc' \in {"recv", "left"} /\ Count("P")
        /\ \/ resp' = resp
           \/ \E buckets \in Seq(Buckets) :
                resp' = [cmd |-> "path", buckets |-> buckets] /\ Len(buckets) = TreeHeight + 1
    BY <1>0, <1>9, HandleReadPathReads
  <2>2. stats' \in [Commands -> 0 .. SizeTModulus - 1]
    BY <1>3, <2>1 DEF Count, Commands
  <2>3. resp' \in Replies
    BY <1>5, <2>1 DEF Replies
  <2> QED  BY <1>2, <1>5, <2>1, <2>2, <2>3 DEF ServerPoints
<1>10. CASE HandleWritePath
  BY <1>2, <1>5, <1>10 DEF HandleWritePath, Leave, LeaveRest, ServerPoints
<1>11. CASE WritePathBucket
  <2> DEFINE entry == Head(req.entries)
  <2>1. /\ entry \in Entries /\ Tail(req.entries) \in Seq(Entries)
        /\ UNCHANGED <<nodeCount, stats, conn, resp>>
        /\ spc' \in {"writing", "left"} /\ running' \in BOOLEAN
        /\ req' \in {NoMsg, Rest, [cmd |-> "T", entries |-> Tail(req.entries)]}
        /\ \/ tree' = tree
           \/ \E file \in {entry.bucket} \cup Truncated : tree' = [tree EXCEPT ![entry.node] = file]
    BY <1>0, <1>5, <1>11, WritePathBucketWrites
  <2>2. entry.node \in Nodes /\ entry.bucket \in Buckets
    BY <2>1 DEF Entries
  <2> HIDE DEF entry
  <2>3. tree' \in [Nodes -> Buckets \cup Truncated]
    BY <1>5, <2>1, <2>2
  <2>4. req' \in Requests
    <3>1. [cmd |-> "T", entries |-> Tail(req.entries)] \in Requests
      BY <2>1 DEF Requests
    <3> QED  BY <1>2, <2>1, <3>1
  <2> QED  BY <1>5, <2>1, <2>3, <2>4 DEF ServerPoints
<1>12. CASE AckWritePath
  BY <1>2, <1>3, <1>5, <1>12
     DEF AckWritePath, Consume, Count, SendReply, Leave, NextTurn, ServerPoints, Commands
<1>13. CASE HandleQuit
  BY <1>2, <1>5, <1>13 DEF HandleQuit, Consume, Leave, ServerPoints
<1>14. CASE ServerRecvThrows
  BY <1>2, <1>5, <1>14 DEF ServerRecvThrows, Consume, Leave, ServerPoints
<1> QED
  BY <1>0, <1>6, <1>7, <1>8, <1>9, <1>10, <1>11, <1>12, <1>13, <1>14, ServerCases DEF ServerNext

LEMMA DataOfType ==
    ASSUME NEW s \in Seq(Block), NEW x
    PROVE  DataOf(s, x) \in Data
<1>1. CASE ~ \E k \in 1 .. Len(s) : s[k].id = x
  BY <1>1, Constants DEF DataOf
<1>2. CASE \E k \in 1 .. Len(s) : s[k].id = x
  <2> DEFINE T == {k \in 1 .. Len(s) : s[k].id = x}
             First(k) == s[k].id = x /\ \A j \in 1 .. k - 1 : s[j].id # x
             first == CHOOSE k \in 1 .. Len(s) : First(k)
  <2>1. PICK k \in T : \A j \in T : k <= j
    <3>1. T # {} /\ T \subseteq Nat
      BY <1>2
    <3> HIDE DEF T
    <3> QED  BY <3>1, LeastNatural
  <2>2. k \in 1 .. Len(s) /\ First(k)
    BY <2>1
  <2>3. first \in 1 .. Len(s)
    <3> HIDE DEF First
    <3> QED  BY <2>2
  <2>4. DataOf(s, x) = s[first].data
    BY <1>2 DEF DataOf
  <2> HIDE DEF first
  <2>5. s[first] \in Block
    BY <2>3
  <2> QED  BY <2>4, <2>5 DEF Block
<1> QED  BY <1>1, <1>2

LEMMA RealBlocksType ==
    ASSUME NEW b \in Buckets
    PROVE  WithoutId(b, DummyId) \in Seq(Block)
<1> DEFINE R == {x \in AnyBlock : x.id # DummyId}
<1>1. WithoutId(b, DummyId) \in Seq(R)
  BY WithoutIdType, BucketsAre
<1>2. \A x \in R : x \in Block
  BY DummyType
<1> HIDE DEF R
<1> QED  BY <1>1, <1>2

LEMMA WithoutAddrType ==
    ASSUME NEW s \in Seq(Block), NEW x
    PROVE  WithoutId(s, x) \in Seq(Block)
<1> DEFINE R == {b \in Block : b.id # x}
<1>1. WithoutId(s, x) \in Seq(R)
  BY WithoutIdType
<1>2. \A b \in R : b \in Block
  OBVIOUS
<1> HIDE DEF R
<1> QED  BY <1>1, <1>2

LEMMA CallShapes ==
    ASSUME NEW c \in Calls
    PROVE  /\ c.addr \in Addr /\ c.data \in Data
           /\ c.op \in {"READ", "WRITE"}
BY Constants DEF Calls

LEMMA ClientType ==
    ASSUME IInv, ClientNext
    PROVE  TypeOK'
<1> USE Constants
<1>0. TypeOK /\ Conversation
  BY DEF IInv
<1>1. UNCHANGED serverVars
  BY DEF ClientNext
<1>2. NoMsg \in Requests /\ NoMsg \in Replies /\ [cmd |-> "Q"] \in Requests
  BY DEF Requests, Replies
<1> DEFINE Control ==
             /\ cpc \in ClientPoints /\ call \in Calls \cup {NoCall} /\ oldLeaf \in Leaves
             /\ result \in Data \cup {NoResult} /\ failed \in BOOLEAN
           Positions == posMap \in [Addr -> Leaves]
           Sequences == stash \in Seq(Block) /\ incoming \in Seq(Buckets) /\ rest \in Seq(Block)
           Path == /\ pathBuckets \in [Levels -> Seq(Block)]
                   /\ \A i \in Levels : Len(pathBuckets[i]) <= BucketSize
           Wire == conn \in {"up", "down"} /\ req \in Requests /\ resp \in Replies
           History == oracle \in [Addr -> Data]
<1>3. Control /\ Positions /\ Sequences /\ Path /\ Wire /\ History
  BY <1>0 DEF TypeOK
<1>4. SUFFICES (Control /\ Positions /\ Sequences /\ Path /\ Wire /\ History)'
  BY <1>0, <1>1 DEF TypeOK, serverVars
<1>5. ASSUME NEW c \in Calls, Access(c), UNCHANGED oracle
      PROVE  (Control /\ Positions /\ Sequences /\ Path /\ Wire /\ History)'
  <2>1. c.addr \in Addr
    BY CallShapes
  <2>2. oldLeaf' \in Leaves /\ Positions'
    BY <1>3, <1>5, <2>1 DEF Access
  <2>3. Control'
    BY <1>3, <1>5, <2>2 DEF Access, ClientPoints
  <2>4. req' \in Requests
    <3>1. [cmd |-> "P", path |-> GetPathIndices(oldLeaf')] \in Requests
      BY <2>2 DEF Requests
    <3> QED  BY <1>3, <1>5, <3>1 DEF Access, SendRequest
  <2> QED  BY <1>3, <1>5, <2>2, <2>3, <2>4 DEF Access
<1>6. ASSUME ReadPathFromServer, UNCHANGED oracle
      PROVE  (Control /\ Positions /\ Sequences /\ Path /\ Wire /\ History)'
  <2>1. incoming' \in Seq(Buckets)
    <3>1. resp.buckets \in Seq(Buckets)
      BY <1>3, <1>6, ReplyShapes DEF ReadPathFromServer
    <3>2. \A k \in 1 .. Len(resp.buckets) : DeserializeBucket(resp.buckets[k]) \in Buckets
      BY <3>1, BucketUnchanged
    <3>3. Len(resp.buckets) \in Nat
      BY <3>1
    <3> HIDE DEF Buckets
    <3> QED  BY <1>6, <3>2, <3>3 DEF ReadPathFromServer
  <2> QED  BY <1>2, <1>3, <1>6, <2>1 DEF ReadPathFromServer, ClientPoints
<1>7. ASSUME ReadPath, UNCHANGED oracle
      PROVE  (Control /\ Positions /\ Sequences /\ Path /\ Wire /\ History)'
  <2>1. Head(incoming) \in Buckets /\ Tail(incoming) \in Seq(Buckets)
    BY <1>3, <1>7 DEF ReadPath
  <2>2. WithoutId(Head(incoming), DummyId) \in Seq(Block)
    BY <2>1, RealBlocksType
  <2> QED  BY <1>3, <1>7, <2>1, <2>2 DEF ReadPath
<1>8. ASSUME AccessStash,
             oracle' = IF call.op = "WRITE" THEN [oracle EXCEPT ![call.addr] = call.data] ELSE oracle
      PROVE  (Control /\ Positions /\ Sequences /\ Path /\ Wire /\ History)'
  <2>1. call \in Calls
    BY <1>3, <1>8 DEF AccessStash, NoCall
  <2>2. result' \in Data /\ rest' \in Seq(Block)
    <3>1. CASE call.op = "READ"
      BY <1>3, <1>8, <3>1, DataOfType DEF AccessStash
    <3>2. CASE call.op = "WRITE"
      <4>1. [id |-> call.addr, data |-> call.data] \in Block
        BY <2>1, CallShapes DEF Block
      <4>2. WithoutId(stash, call.addr) \in Seq(Block)
        BY <1>3, WithoutAddrType
      <4>3. /\ result' = call.data
            /\ rest' = Append(WithoutId(stash, call.addr), [id |-> call.addr, data |-> call.data])
        BY <1>8, <3>2 DEF AccessStash
      <4> QED  BY <2>1, <4>1, <4>2, <4>3, CallShapes
    <3> QED  BY <1>8, <3>1, <3>2 DEF AccessStash
  <2>3. oracle' \in [Addr -> Data]
    BY <1>3, <1>8, <2>1, CallShapes
  <2> QED  BY <1>3, <1>8, <2>2, <2>3 DEF AccessStash, ClientPoints
<1>9. ASSUME EvictBlock, UNCHANGED oracle
      PROVE  (Control /\ Positions /\ Sequences /\ Path /\ Wire /\ History)'
  <2>1. Head(rest) \in Block /\ Tail(rest) \in Seq(Block)
    BY <1>3, <1>9 DEF EvictBlock
  <2>2. stash' \in Seq(Block)
    <3>1. stash' = stash \/ stash' = Append(stash, Head(rest))
      BY <1>9, Zenon DEF EvictBlock
    <3>2. stash \in Seq(Block)
      BY <1>3
    <3>3. Append(stash, Head(rest)) \in Seq(Block)
      BY <2>1, <3>2
    <3> QED  BY <3>1, <3>2, <3>3
  <2>3. Path'
    <3>1. CASE UNCHANGED pathBuckets
      BY <1>3, <3>1
    <3>2. ASSUME NEW i \in Fits(posMap[Head(rest).id]),
                 pathBuckets' = [pathBuckets EXCEPT ![i] = Append(@, Head(rest))]
          PROVE  Path'
      <4>1. i \in Levels /\ pathBuckets[i] \in Seq(Block) /\ Len(pathBuckets[i]) < BucketSize
        BY <1>3, <3>2 DEF Fits
      <4>2. Append(pathBuckets[i], Head(rest)) \in Seq(Block)
            /\ Len(Append(pathBuckets[i], Head(rest))) <= BucketSize
        BY <2>1, <4>1
      <4> QED  BY <1>3, <3>2, <4>1, <4>2
    <3> QED  BY <1>9, <3>1, <3>2 DEF EvictBlock
  <2> QED  BY <1>3, <1>9, <2>1, <2>2, <2>3 DEF EvictBlock
<1>10. ASSUME WritePath, UNCHANGED oracle
       PROVE  (Control /\ Positions /\ Sequences /\ Path /\ Wire /\ History)'
  <2>1. [cmd |-> "T", entries |-> WritePathEntries(oldLeaf, pathBuckets)] \in Requests
    BY <1>3, EntriesType DEF Requests
  <2>2. req' \in Requests
    BY <1>3, <1>10, <2>1 DEF WritePath, SendRequest
  <2> QED  BY <1>3, <1>10, <2>2 DEF WritePath, ClientPoints
<1> DEFINE NP == NoPath \in [Levels -> Seq(Block)] /\ \A i \in Levels : Len(NoPath[i]) <= BucketSize
<1>11. NP
  BY DEF NoPath
<1>12. ASSUME EndOfCall, UNCHANGED <<posMap, stash, incoming, rest, conn, req, oracle>>,
              failed' \in BOOLEAN
       PROVE  (Control /\ Positions /\ Sequences /\ Path /\ Wire /\ History)'
  BY <1>2, <1>3, <1>11, <1>12 DEF EndOfCall, ClientPoints
<1>13. ASSUME Return, UNCHANGED oracle
       PROVE  (Control /\ Positions /\ Sequences /\ Path /\ Wire /\ History)'
  BY <1>3, <1>12, <1>13 DEF Return
<1>14. ASSUME Throw, UNCHANGED oracle
       PROVE  (Control /\ Positions /\ Sequences /\ Path /\ Wire /\ History)'
  BY <1>3, <1>12, <1>14 DEF Throw
<1>15. ASSUME DestroyClient, UNCHANGED oracle
       PROVE  (Control /\ Positions /\ Sequences /\ Path /\ Wire /\ History)'
  BY <1>2, <1>3, <1>15 DEF DestroyClient, SendRequest, ClientPoints
<1> QED
  BY <1>5, <1>6, <1>7, <1>8, <1>9, <1>10, <1>13, <1>14, <1>15 DEF ClientNext

-----------------------------------------------------------------------------
\* While the client waits for a path, the server is not inside a path write,
\* so the tree stands still.
LEMMA WritingMeansWritePath ==
    ASSUME IInv, ~ failed, spc = "writing"
    PROVE  cpc = "writePath" /\ req.cmd = "T" /\ resp = NoMsg
BY DEF IInv, TypeOK, Conversation, NoMsg, ClientPoints

LEMMA ServerConversation ==
    ASSUME IInv, ServerNext
    PROVE  Conversation'
<1> USE Constants
<1>0. TypeOK /\ Conversation
  BY DEF IInv
<1>1. UNCHANGED <<posMap, stash, cpc, call, oldLeaf, incoming, rest, pathBuckets, result, failed>>
  BY DEF ServerNext, clientVars
<1>2. req \in Requests /\ resp \in Replies
  BY <1>0 DEF TypeOK
<1>3. NoMsg.cmd = "none" /\ Rest.cmd = "rest"
  BY DEF NoMsg, Rest
<1>4. CASE StartHandleRequests
  BY <1>0, <1>1, <1>4 DEF StartHandleRequests, Conversation
<1>5. CASE Stop
  BY <1>0, <1>1, <1>5 DEF Stop, Conversation
<1>6. CASE DestroyServer
  BY <1>0, <1>1, <1>6 DEF DestroyServer, Conversation
<1>7. CASE HandleReadPath
  <2>1. /\ req.cmd = "P" /\ spc = "recv" /\ tree' = tree /\ conn' = conn /\ req' = NoMsg
        /\ spc' \in {"recv", "left"}
        /\ \/ resp' = resp
           \/ \E buckets \in Seq(Buckets) :
                /\ resp' = [cmd |-> "path", buckets |-> buckets]
                /\ \A k \in 1 .. TreeHeight + 1 : tree[req.path[k]] \in {buckets[k], Torn}
    BY <1>0, <1>7, HandleReadPathReads
  <2>2. CASE failed
    BY <1>0, <1>1, <1>3, <2>1, <2>2 DEF Conversation
  <2>3. CASE ~ failed
    <3>1. cpc = "readPath" /\ req = [cmd |-> "P", path |-> GetPathIndices(oldLeaf)] /\ resp = NoMsg
      BY <1>0, <1>3, <2>1, <2>3 DEF Conversation, TypeOK, ClientPoints
    <3>2. oldLeaf \in Leaves
      BY <1>0 DEF TypeOK
    <3>3. \A k \in 1 .. TreeHeight + 1 : req.path[k] = PathNode(oldLeaf, k - 1)
      BY <3>1, <3>2, PathType
    <3>4. \/ resp' = NoMsg
          \/ /\ resp'.cmd = "path"
             /\ \A k \in 1 .. TreeHeight + 1 : tree[PathNode(oldLeaf, k - 1)] \in {resp'.buckets[k], Torn}
      <4>1. CASE resp' = resp
        BY <3>1, <4>1
      <4>2. ASSUME NEW buckets \in Seq(Buckets), resp' = [cmd |-> "path", buckets |-> buckets],
                   \A k \in 1 .. TreeHeight + 1 : tree[req.path[k]] \in {buckets[k], Torn}
            PROVE  /\ resp'.cmd = "path"
                   /\ \A k \in 1 .. TreeHeight + 1 : tree[PathNode(oldLeaf, k - 1)] \in {resp'.buckets[k], Torn}
        <5>1. resp'.cmd = "path" /\ resp'.buckets = buckets
          BY <4>2
        <5> QED  BY <3>3, <4>2, <5>1
      <4> QED  BY <2>1, <4>1, <4>2
    <3> QED  BY <1>0, <1>1, <1>3, <2>1, <2>3, <3>1, <3>4 DEF Conversation
  <2> QED  BY <2>2, <2>3
<1>8. CASE HandleWritePath
  <2>1. req.cmd = "T" /\ spc # "writing" /\ tree' = tree /\ conn' = conn /\ resp' = resp
        /\ \/ spc' = "writing" /\ req' = req
           \/ spc' = "left" /\ req' \in {NoMsg, Rest}
    BY <1>8 DEF HandleWritePath, Command, LeaveRest, Leave
  <2>2. CASE failed
    BY <1>0, <1>1, <1>3, <2>1, <2>2 DEF Conversation
  <2>3. CASE ~ failed
    <3>1. cpc = "writePath" /\ resp = NoMsg
      BY <1>0, <1>3, <2>1, <2>3 DEF Conversation, TypeOK, ClientPoints
    <3> QED  BY <1>0, <1>1, <1>3, <2>1, <2>3, <3>1 DEF Conversation
  <2> QED  BY <2>2, <2>3
<1>9. CASE WritePathBucket
  <2>1. spc = "writing" /\ conn' = conn /\ resp' = resp
        /\ \/ spc' = "writing" /\ req'.cmd = "T"
           \/ spc' = "left" /\ req' \in {NoMsg, Rest}
    <3>1. [cmd |-> "T", entries |-> Tail(req.entries)].cmd = "T"
      OBVIOUS
    <3> QED  BY <1>0, <1>9, <3>1, WritePathBucketWrites
  <2>2. CASE failed
    BY <1>0, <1>1, <1>3, <2>1, <2>2 DEF Conversation
  <2>3. CASE ~ failed
    <3>1. cpc = "writePath" /\ req.cmd = "T" /\ resp = NoMsg
      BY <2>1, <2>3, WritingMeansWritePath
    <3> QED  BY <1>0, <1>1, <1>3, <2>1, <2>3, <3>1 DEF Conversation
  <2> QED  BY <2>2, <2>3
<1>10. CASE AckWritePath
  <2>1. spc = "writing" /\ conn' = conn /\ req' = NoMsg /\ spc' # "writing" /\ tree' = tree
        /\ resp' \in {resp, [cmd |-> "ack"]}
    BY <1>10 DEF AckWritePath, Consume, Leave, NextTurn, SendReply
  <2>2. CASE failed
    BY <1>0, <1>1, <1>3, <2>1, <2>2 DEF Conversation
  <2>3. CASE ~ failed
    <3>1. cpc = "writePath" /\ req.cmd = "T" /\ resp = NoMsg
      BY <2>1, <2>3, WritingMeansWritePath
    <3> QED  BY <1>0, <1>1, <1>3, <2>1, <2>3, <3>1 DEF Conversation
  <2> QED  BY <2>2, <2>3
<1>11. CASE HandleQuit
  <2>1. req' = NoMsg /\ spc' = "left" /\ UNCHANGED <<tree, conn, resp>>
    BY <1>11 DEF HandleQuit, Consume, Leave
  <2> QED  BY <1>0, <1>1, <1>3, <2>1 DEF Conversation
<1>12. CASE ServerRecvThrows
  <2>1. req' = NoMsg /\ spc' = "left" /\ UNCHANGED <<tree, conn, resp>>
    BY <1>12 DEF ServerRecvThrows, Consume, Leave
  <2> QED  BY <1>0, <1>1, <1>3, <2>1 DEF Conversation
<1> QED
  BY <1>0, <1>4, <1>5, <1>6, <1>7, <1>8, <1>9, <1>10, <1>11, <1>12, ServerCases DEF ServerNext

LEMMA ClientConversation ==
    ASSUME IInv, ClientNext
    PROVE  Conversation'
<1> USE Constants
<1>0. TypeOK /\ Conversation
  BY DEF IInv
<1>1. UNCHANGED <<tree, spc>>
  BY DEF ClientNext, serverVars
<1>2. req \in Requests /\ resp \in Replies /\ conn \in {"up", "down"}
  BY <1>0 DEF TypeOK
<1>3. NoMsg.cmd = "none" /\ Rest.cmd = "rest"
  BY DEF NoMsg, Rest
<1>4. ASSUME NEW c \in Calls, Access(c)
      PROVE  Conversation'
  <2>1. /\ cpc = "idle" /\ cpc' = "readPath"
        /\ UNCHANGED <<failed, pathBuckets, conn, resp>>
        /\ req' = IF conn = "up" THEN [cmd |-> "P", path |-> GetPathIndices(oldLeaf')] ELSE req
    BY <1>4 DEF Access, SendRequest
  <2>2. CASE failed
    BY <1>0, <1>1, <2>1, <2>2 DEF Conversation
  <2>3. CASE ~ failed
    <3>1. req = NoMsg /\ resp = NoMsg /\ spc # "writing" /\ pathBuckets = NoPath
      BY <1>0, <1>3, <2>1, <2>3 DEF Conversation
    <3> QED  BY <1>0, <1>1, <1>3, <2>1, <2>3, <3>1 DEF Conversation
  <2> QED  BY <2>2, <2>3
<1>5. CASE ReadPathFromServer
  <2>1. /\ cpc = "readPath" /\ resp.cmd = "path" /\ cpc' = "push" /\ resp' = NoMsg
        /\ UNCHANGED <<failed, pathBuckets, conn, req>>
    BY <1>5 DEF ReadPathFromServer
  <2> QED  BY <1>0, <1>1, <1>3, <2>1 DEF Conversation
<1>6. CASE ReadPath
  BY <1>0, <1>1, <1>6 DEF ReadPath, Conversation
<1>7. CASE AccessStash
  <2>1. cpc = "push" /\ cpc' = "evict" /\ UNCHANGED <<failed, pathBuckets, conn, req, resp>>
    BY <1>7 DEF AccessStash
  <2> QED  BY <1>0, <1>1, <2>1 DEF Conversation
<1>8. CASE EvictBlock
  <2>1. cpc = "evict" /\ UNCHANGED <<cpc, failed, conn, req, resp>>
    BY <1>8 DEF EvictBlock
  <2> QED  BY <1>0, <1>1, <2>1 DEF Conversation
<1>9. CASE WritePath
  <2>1. /\ cpc = "evict" /\ cpc' = "writePath" /\ UNCHANGED <<failed, pathBuckets, conn, resp>>
        /\ req' = req \/ (conn = "up" /\ req'.cmd = "T")
    BY <1>2, <1>9 DEF WritePath, SendRequest
  <2> QED  BY <1>0, <1>1, <1>3, <2>1 DEF Conversation
<1>10. CASE Return
  <2>1. /\ cpc = "writePath" /\ resp.cmd = "ack" /\ cpc' = "idle" /\ resp' = NoMsg
        /\ pathBuckets' = NoPath /\ UNCHANGED <<failed, conn, req>>
    BY <1>10 DEF Return, EndOfCall
  <2> QED  BY <1>0, <1>1, <1>3, <2>1 DEF Conversation
<1>11. CASE Throw
  <2>1. failed' /\ UNCHANGED <<conn, req>>
    BY <1>11 DEF Throw
  <2>2. cpc = "readPath" \/ cpc = "writePath"
    BY <1>11 DEF Throw
  <2>3. conn = "down"
    <3>1. CASE failed
      BY <1>0, <3>1 DEF Conversation
    <3>2. CASE ~ failed /\ cpc = "readPath"
      <4>1. resp.cmd = "path" => Len(resp.buckets) = TreeHeight + 1
        BY <1>2, ReplyShapes
      <4> QED  BY <1>11, <3>2, <4>1 DEF Throw, MayThrow
    <3>3. CASE ~ failed /\ cpc = "writePath"
      <4>1. resp.cmd \in {"none", "ack"}
        BY <1>0, <3>3 DEF Conversation
      <4> QED  BY <1>11, <3>3, <4>1 DEF Throw, MayThrow
    <3> QED  BY <2>2, <3>1, <3>2, <3>3
  <2> QED  BY <1>0, <1>1, <2>1, <2>3 DEF Conversation
<1>12. CASE DestroyClient
  <2>1. /\ cpc = "idle" /\ cpc' = "destroyed" /\ conn' = "down"
        /\ UNCHANGED <<failed, pathBuckets, resp>>
        /\ req' = IF conn = "up" THEN [cmd |-> "Q"] ELSE req
    BY <1>12 DEF DestroyClient, SendRequest
  <2>2. CASE failed
    BY <1>0, <1>1, <2>1, <2>2 DEF Conversation
  <2>3. CASE ~ failed
    BY <1>0, <1>1, <1>3, <2>1, <2>3 DEF Conversation
  <2> QED  BY <2>2, <2>3
<1> QED
  BY <1>4, <1>5, <1>6, <1>7, <1>8, <1>9, <1>10, <1>11, <1>12 DEF ClientNext

-----------------------------------------------------------------------------
LEMMA ServerPlaced ==
    ASSUME IInv, ServerNext
    PROVE  PlacedInTransit'
<1>0. TypeOK /\ Conversation /\ PlacedInTransit
  BY DEF IInv
<1>1. UNCHANGED <<posMap, stash, cpc, call, oldLeaf, incoming, rest, pathBuckets, result, failed>>
  BY DEF ServerNext, clientVars
<1> SUFFICES ASSUME ~ failed
             PROVE  PlacedInTransit'
  BY <1>1 DEF PlacedInTransit
<1>2. NoMsg.cmd = "none" /\ Rest.cmd = "rest"
  BY DEF NoMsg, Rest
<1>3. CASE req' \in {NoMsg, Rest}
  BY <1>0, <1>1, <1>2, <1>3 DEF PlacedInTransit, Placed
<1>4. CASE req' = req /\ (spc = "writing" => spc' = "writing")
  BY <1>0, <1>1, <1>4 DEF PlacedInTransit, Placed
<1>5. CASE WritePathBucket /\ req' \notin {NoMsg, Rest}
  <2>1. /\ spc = "writing" /\ spc' = "writing" /\ req.entries # << >>
        /\ req' = [cmd |-> "T", entries |-> Tail(req.entries)]
    BY <1>0, <1>5, WritePathBucketWrites
  <2>2. req.cmd = "T" /\ req.entries \in Seq(Entries)
    BY <1>0, <1>5, WritePathBucketWrites
  <2>3. /\ req'.entries = Tail(req.entries)
        /\ \A k \in 1 .. Len(Tail(req.entries)) :
             k + 1 \in 1 .. Len(req.entries) /\ Tail(req.entries)[k] = req.entries[k + 1]
    BY <2>1, <2>2
  <2>4. \A k \in 1 .. Len(req.entries) : Placed(req.entries[k].node, req.entries[k].bucket)
    BY <1>0, <2>2 DEF PlacedInTransit
  <2>5. ASSUME NEW k \in 1 .. Len(Tail(req.entries))
        PROVE  Placed(Tail(req.entries)[k].node, Tail(req.entries)[k].bucket)
    BY <2>3, <2>4
  <2>6. \A i \in Levels : Placed(PathNode(oldLeaf, i), pathBuckets[i])
    BY <1>0 DEF PlacedInTransit
  <2> QED  BY <1>1, <2>1, <2>3, <2>5, <2>6 DEF PlacedInTransit, Placed
<1>6. CASE StartHandleRequests \/ Stop \/ DestroyServer
  <2>1. req' = req /\ (spc = "writing" => spc' = "writing")
    BY <1>6 DEF StartHandleRequests, Stop, DestroyServer
  <2> QED  BY <1>4, <2>1
<1>7. CASE HandleReadPath \/ AckWritePath \/ HandleQuit \/ ServerRecvThrows
  <2>1. req' = NoMsg
    BY <1>0, <1>7, HandleReadPathReads DEF AckWritePath, HandleQuit, ServerRecvThrows, Consume
  <2> QED  BY <1>3, <2>1
<1>8. CASE HandleWritePath
  <2>1. req' \in {NoMsg, Rest} \/ (req' = req /\ spc' = "writing")
    BY <1>8 DEF HandleWritePath, LeaveRest
  <2> QED  BY <1>3, <1>4, <2>1
<1> QED
  BY <1>0, <1>3, <1>5, <1>6, <1>7, <1>8, ServerCases DEF ServerNext

LEMMA ClientPlaced ==
    ASSUME IInv, ClientNext
    PROVE  PlacedInTransit'
<1> USE Constants
<1>0. TypeOK /\ Conversation /\ PlacedInTransit
  BY DEF IInv
<1>1. UNCHANGED <<tree, spc>>
  BY DEF ClientNext, serverVars
<1>2. NoMsg.cmd = "none"
  BY DEF NoMsg
<1> DEFINE Unmoved == UNCHANGED <<posMap, oldLeaf, pathBuckets, req, failed>>
<1>3. CASE Unmoved
  BY <1>0, <1>1, <1>3 DEF PlacedInTransit, Placed
<1>4. CASE failed
  <2>1. failed'
    BY <1>4 DEF ClientNext, Access, ReadPathFromServer, ReadPath, AccessStash, EvictBlock,
                WritePath, Return, Throw, DestroyClient
  <2> QED  BY <2>1 DEF PlacedInTransit
<1>5. \A i \in Levels : Len(NoPath[i]) = 0
  BY DEF NoPath
<1>6. ASSUME NEW c \in Calls, Access(c), ~ failed
      PROVE  PlacedInTransit'
  <2>1. pathBuckets = NoPath /\ req = NoMsg
    BY <1>0, <1>6 DEF Access, Conversation
  <2>2. pathBuckets' = NoPath /\ req'.cmd # "T"
    BY <1>2, <1>6, <2>1 DEF Access, SendRequest
  <2> QED  BY <1>5, <2>2 DEF PlacedInTransit, Placed
<1>7. ASSUME EvictBlock, ~ failed
      PROVE  PlacedInTransit'
  <2>1. UNCHANGED <<posMap, oldLeaf, req, failed>> /\ req = NoMsg /\ rest # << >>
    BY <1>0, <1>7 DEF EvictBlock, Conversation
  <2> DEFINE block == Head(rest)
             target == posMap[block.id]
  <2>2. /\ block \in Block /\ block.id \in Addr /\ target \in Leaves /\ oldLeaf \in Leaves
        /\ pathBuckets \in [Levels -> Seq(Block)]
    <3>1. block \in Block
      BY <1>0, <2>1 DEF TypeOK
    <3> QED  BY <1>0, <3>1, DummyType DEF TypeOK
  <2>3. \A i \in Levels : Placed(PathNode(oldLeaf, i), pathBuckets[i])
    BY <1>0, <1>7 DEF PlacedInTransit
  <2>4. CASE UNCHANGED pathBuckets
    BY <1>3, <2>1, <2>4
  <2>5. ASSUME NEW i \in Fits(target), pathBuckets' = [pathBuckets EXCEPT ![i] = Append(@, block)]
        PROVE  PlacedInTransit'
    <3>1. i \in Levels /\ CanPlaceInBucket(target, oldLeaf, i)
      BY <2>5 DEF Fits
    <3>2. OnPath(PathNode(oldLeaf, i), target)
      BY <2>2, <3>1, CanPlaceIffShared
    <3>3. Placed(PathNode(oldLeaf, i), Append(pathBuckets[i], block))
      <4> DEFINE old == pathBuckets[i]
      <4>1. old \in Seq(Block) /\ Placed(PathNode(oldLeaf, i), old)
        BY <2>2, <2>3, <3>1
      <4> HIDE DEF old, block
      <4>2. ASSUME NEW k \in 1 .. Len(Append(old, block))
            PROVE  \/ k \in 1 .. Len(old) /\ Append(old, block)[k] = old[k]
                   \/ Append(old, block)[k] = block
        BY <2>2, <4>1
      <4>3. OnPath(PathNode(oldLeaf, i), posMap[block.id])
        BY <3>2
      <4> DEFINE new == Append(old, block)
      <4>4. \A k \in 1 .. Len(new) : (k \in 1 .. Len(old) /\ new[k] = old[k]) \/ new[k] = block
        BY <4>2
      <4> HIDE DEF new, target
      <4>5. Placed(PathNode(oldLeaf, i), new)
        BY <4>1, <4>3, <4>4 DEF Placed
      <4> QED  BY <4>5 DEF new, old
    <3>4. ASSUME NEW j \in Levels
          PROVE  Placed(PathNode(oldLeaf, j), pathBuckets'[j])
      <4>1. CASE j = i
        <5>1. pathBuckets'[j] = Append(pathBuckets[i], block)
          <6> HIDE DEF block
          <6> QED  BY <2>2, <2>5, <3>1, <4>1
        <5> QED  BY <3>3, <4>1, <5>1
      <4>2. CASE j # i
        BY <2>2, <2>3, <2>5, <3>1, <4>2
      <4> QED  BY <4>1, <4>2
    <3> HIDE DEF block, target
    <3> QED  BY <1>2, <2>1, <3>4 DEF PlacedInTransit, Placed
  <2>6. \/ UNCHANGED pathBuckets
        \/ \E i \in Fits(target) : pathBuckets' = [pathBuckets EXCEPT ![i] = Append(@, block)]
    BY <1>7, Zenon DEF EvictBlock
  <2> QED  BY <2>4, <2>5, <2>6
<1>8. ASSUME WritePath, ~ failed
      PROVE  PlacedInTransit'
  <2>1. UNCHANGED <<posMap, oldLeaf, pathBuckets, failed>> /\ req = NoMsg /\ resp = NoMsg
    BY <1>0, <1>8 DEF WritePath, Conversation
  <2> DEFINE entries == WritePathEntries(oldLeaf, pathBuckets)
             message == [cmd |-> "T", entries |-> entries]
  <2>2. req' = NoMsg \/ req' = message
    BY <1>8, <2>1 DEF WritePath, SendRequest
  <2>3. oldLeaf \in Leaves /\ pathBuckets \in [Levels -> Seq(Block)]
        /\ \A i \in Levels : Len(pathBuckets[i]) <= BucketSize
    BY <1>0 DEF TypeOK
  <2>4. Len(entries) = TreeHeight + 1
    BY <2>3, EntriesType
  <2>5. ASSUME NEW k \in 1 .. TreeHeight + 1
        PROVE  /\ entries[k].node = PathNode(oldLeaf, k - 1)
               /\ entries[k].bucket = FillBucketWithDummies(pathBuckets[k - 1])
    BY DEF WritePathEntries
  <2>6. ASSUME NEW k \in 1 .. Len(entries)
        PROVE  Placed(entries[k].node, entries[k].bucket)
    <3> DEFINE i == k - 1
    <3>1. i \in Levels /\ k \in 1 .. TreeHeight + 1
      BY <2>3, <2>4, PathType
    <3>2. Placed(PathNode(oldLeaf, i), pathBuckets[i])
      BY <1>0, <1>8, <3>1 DEF PlacedInTransit
    <3>3. /\ Len(FillBucketWithDummies(pathBuckets[i])) = BucketSize
          /\ \A j \in 1 .. BucketSize :
                FillBucketWithDummies(pathBuckets[i])[j]
                  = IF j <= Len(pathBuckets[i]) THEN pathBuckets[i][j] ELSE Dummy
      BY <2>3, <3>1, FilledBucket
    <3>4. Len(pathBuckets[i]) \in Nat
      BY <2>3, <3>1
    <3>5. Placed(PathNode(oldLeaf, i), FillBucketWithDummies(pathBuckets[i]))
      BY <3>2, <3>3, <3>4, DummyType DEF Placed
    <3> QED  BY <2>5, <3>1, <3>5
  <2>7. ASSUME NEW n \in Nodes, OnPath(n, oldLeaf)
        PROVE  \E k \in 1 .. Len(entries) : entries[k].node = n
    <3>1. PICK i \in Levels : n = PathNode(oldLeaf, i)
      BY <2>7 DEF OnPath
    <3>2. i + 1 \in 1 .. TreeHeight + 1 /\ (i + 1) - 1 = i
      BY DEF Levels
    <3>3. entries[i + 1].node = PathNode(oldLeaf, (i + 1) - 1)
      BY <2>5, <3>2
    <3> QED  BY <2>4, <3>1, <3>2, <3>3
  <2>8. message.cmd = "T" /\ message.entries = entries
    OBVIOUS
  <2>9. \A i \in Levels : Placed(PathNode(oldLeaf, i), pathBuckets[i])
    BY <1>0, <1>8 DEF PlacedInTransit
  <2> HIDE DEF entries, message
  <2>10. CASE req' = NoMsg
    BY <1>2, <2>1, <2>9, <2>10 DEF PlacedInTransit, Placed
  <2>11. CASE req' = message
    BY <2>1, <2>6, <2>7, <2>8, <2>9, <2>11 DEF PlacedInTransit, Placed
  <2> QED  BY <2>2, <2>10, <2>11
<1>9. ASSUME Return, ~ failed
      PROVE  PlacedInTransit'
  <2>1. pathBuckets' = NoPath /\ req' = NoMsg
    BY <1>0, <1>2, <1>9 DEF Return, EndOfCall, Conversation
  <2> QED  BY <1>2, <1>5, <2>1 DEF PlacedInTransit, Placed
<1>10. CASE Throw
  <2>1. failed'
    BY <1>10 DEF Throw
  <2> QED  BY <2>1 DEF PlacedInTransit
<1>11. ASSUME DestroyClient, ~ failed
       PROVE  PlacedInTransit'
  <2>1. pathBuckets = NoPath /\ req = NoMsg
    BY <1>0, <1>11 DEF DestroyClient, Conversation
  <2>2. pathBuckets' = NoPath /\ req'.cmd # "T"
    BY <1>2, <1>11, <2>1 DEF DestroyClient, SendRequest
  <2> QED  BY <1>5, <2>2 DEF PlacedInTransit, Placed
<1>12. CASE ReadPathFromServer \/ ReadPath \/ AccessStash
  <2>1. Unmoved
    BY <1>12 DEF ReadPathFromServer, ReadPath, AccessStash
  <2> QED  BY <1>3, <2>1
<1> QED
  BY <1>4, <1>6, <1>7, <1>8, <1>9, <1>10, <1>11, <1>12 DEF ClientNext

-----------------------------------------------------------------------------
\* A step that leaves the tree and the positions alone, and lets no bucket off
\* its rewrite, keeps the path invariant.
LEMMA PathInvariantFrame ==
    ASSUME PathInvariant, UNCHANGED <<tree, posMap, call, failed>>,
           \A n \in Nodes : AwaitsOverwrite(n) => AwaitsOverwrite(n)'
    PROVE  PathInvariant'
BY DEF PathInvariant

LEMMA ServerPath ==
    ASSUME IInv, ServerNext
    PROVE  PathInvariant'
<1>0. TypeOK /\ Conversation /\ PlacedInTransit /\ PathInvariant
  BY DEF IInv
<1>1. UNCHANGED <<posMap, stash, cpc, call, oldLeaf, incoming, rest, pathBuckets, result, failed>>
  BY DEF ServerNext, clientVars
<1> SUFFICES ASSUME ~ failed
             PROVE  PathInvariant'
  BY <1>1 DEF PathInvariant
<1>2. NoMsg.cmd = "none"
  BY DEF NoMsg
<1> DEFINE OnPathOrWaits(n, id) ==
             \/ id = DummyId
             \/ OnPath(n, posMap[id])
             \/ AwaitsOverwrite(n) /\ id = call.addr
<1>3. \A n \in Nodes : \A k \in 1 .. Len(tree[n]) : OnPathOrWaits(n, tree[n][k].id)
  BY <1>0, Zenon DEF PathInvariant
<1>4. ASSUME UNCHANGED tree, resp' = resp \/ resp'.cmd # "ack",
             spc' = "writing" => spc = "writing" /\ req' = req
      PROVE  PathInvariant'
  <2>1. \A n \in Nodes : AwaitsOverwrite(n) => AwaitsOverwrite(n)'
    BY <1>1, <1>4 DEF AwaitsOverwrite, OnPath
  <2> QED  BY <1>0, <1>1, <1>4, <2>1, PathInvariantFrame
<1>5. CASE StartHandleRequests \/ Stop \/ DestroyServer
  <2>1. tree' = tree /\ resp' = resp /\ req' = req /\ (spc' = "writing" => spc = "writing")
    BY <1>5 DEF StartHandleRequests, Stop, DestroyServer
  <2> QED  BY <1>4, <2>1
<1>6. CASE HandleReadPath
  <2>1. tree' = tree /\ (resp' = resp \/ resp'.cmd = "path") /\ spc' # "writing"
    BY <1>0, <1>6, HandleReadPathReads
  <2> QED  BY <1>4, <2>1
<1>7. CASE HandleQuit \/ ServerRecvThrows
  <2>1. tree' = tree /\ resp' = resp /\ spc' # "writing"
    BY <1>7 DEF HandleQuit, ServerRecvThrows, Leave
  <2> QED  BY <1>4, <2>1
<1>8. CASE HandleWritePath
  <2>1. tree' = tree /\ resp' = resp /\ req.cmd = "T" /\ spc # "writing"
        /\ (spc' # "writing" \/ (spc' = "writing" /\ req' = req))
    BY <1>8 DEF HandleWritePath, Leave, Command
  <2>2. CASE spc' # "writing"
    BY <1>4, <2>1, <2>2
  <2>3. CASE spc' = "writing" /\ req' = req
    <3>1. \A n \in Nodes : OnPath(n, oldLeaf) =>
             \E k \in 1 .. Len(req.entries) : req.entries[k].node = n
      BY <1>0, <2>1 DEF PlacedInTransit
    <3>2. \A n \in Nodes : AwaitsOverwrite(n) => AwaitsOverwrite(n)'
      BY <1>1, <2>1, <2>3, <3>1 DEF AwaitsOverwrite, OnPath
    <3> QED  BY <1>0, <1>1, <2>1, <3>2, PathInvariantFrame
  <2> QED  BY <2>1, <2>2, <2>3
<1>9. CASE WritePathBucket
  <2>1. spc = "writing" /\ req.cmd = "T" /\ req.entries \in Seq(Entries) /\ req.entries # << >>
        /\ resp' = resp
    BY <1>0, <1>9, WritePathBucketWrites
  <2> DEFINE entry == Head(req.entries)
  <2>2. /\ entry = req.entries[1] /\ entry \in Entries /\ 1 \in 1 .. Len(req.entries)
        /\ \A k \in 1 .. Len(req.entries) :
             k # 1 => /\ k - 1 \in 1 .. Len(Tail(req.entries))
                      /\ Tail(req.entries)[k - 1] = req.entries[k]
    BY <2>1
  <2>3. entry.node \in Nodes /\ entry.bucket \in Buckets
    BY <2>2 DEF Entries
  <2>4. Placed(entry.node, entry.bucket)
    BY <1>0, <2>1, <2>2 DEF PlacedInTransit
  <2>5. tree \in [Nodes -> Buckets \cup Truncated]
    BY <1>0 DEF TypeOK
  <2>6. ASSUME NEW file \in Truncated
        PROVE  \A k \in 1 .. Len(file) : file[k].id = DummyId
    BY WrittenFacts, TornFacts
  <2>7. ASSUME NEW file \in {entry.bucket} \cup Truncated, tree' = [tree EXCEPT ![entry.node] = file],
               \A n \in Nodes : n # entry.node /\ AwaitsOverwrite(n) => AwaitsOverwrite(n)'
        PROVE  PathInvariant'
    <3>1. ASSUME NEW n \in Nodes, NEW k \in 1 .. Len(tree'[n])
          PROVE  \/ tree'[n][k].id = DummyId
                 \/ OnPath(n, posMap[tree'[n][k].id])
                 \/ AwaitsOverwrite(n)' /\ tree'[n][k].id = call.addr
      <4>1. CASE n = entry.node
        <5>1. tree'[n] = file
          <6> HIDE DEF entry
          <6> QED  BY <2>3, <2>5, <2>7, <4>1
        <5> QED  BY <2>4, <2>6, <4>1, <5>1 DEF Placed
      <4>2. CASE n # entry.node
        <5>1. tree'[n] = tree[n]
          <6> HIDE DEF entry
          <6> QED  BY <2>5, <2>7, <4>2
        <5>2. OnPathOrWaits(n, tree[n][k].id)
          BY <1>3, <5>1
        <5> QED  BY <2>7, <4>2, <5>1, <5>2, Zenon
      <4> QED  BY <4>1, <4>2
    <3> QED  BY <1>1, <3>1 DEF PathInvariant, OnPath, AwaitsOverwrite
  <2>8. CASE spc' = "writing"
    <3>1. /\ req' = [cmd |-> "T", entries |-> Tail(req.entries)]
          /\ \E file \in {entry.bucket} \cup Truncated : tree' = [tree EXCEPT ![entry.node] = file]
      BY <1>0, <1>9, <2>8, WritePathBucketWrites
    <3>2. ASSUME NEW n \in Nodes, n # entry.node, AwaitsOverwrite(n)
          PROVE  AwaitsOverwrite(n)'
      <4>1. PICK k \in 1 .. Len(req.entries) : req.entries[k].node = n
        BY <2>1, <3>2 DEF AwaitsOverwrite
      <4>2. k # 1
        BY <2>2, <3>2, <4>1
      <4>3. k - 1 \in 1 .. Len(req'.entries) /\ req'.entries[k - 1].node = n
        BY <2>2, <3>1, <4>1, <4>2
      <4> QED  BY <1>1, <2>1, <3>2, <4>3 DEF AwaitsOverwrite, OnPath
    <3> HIDE DEF entry
    <3> QED  BY <2>7, <3>1, <3>2
  <2>9. CASE spc' # "writing"
    <3>1. tree' = tree \/ \E file \in Truncated : tree' = [tree EXCEPT ![entry.node] = file]
      BY <1>0, <1>9, <2>9, WritePathBucketWrites
    <3>2. \A n \in Nodes : AwaitsOverwrite(n) => AwaitsOverwrite(n)'
      BY <1>1, <2>1, <2>9 DEF AwaitsOverwrite, OnPath
    <3>3. CASE tree' = tree
      BY <1>0, <1>1, <3>2, <3>3, PathInvariantFrame
    <3> HIDE DEF entry
    <3> QED  BY <2>7, <3>1, <3>2, <3>3
  <2> QED  BY <2>8, <2>9
<1>10. CASE AckWritePath
  <2>1. spc = "writing" /\ req.entries = << >> /\ tree' = tree
    BY <1>10 DEF AckWritePath
  <2>2. \A n \in Nodes : ~ AwaitsOverwrite(n)
    BY <2>1 DEF AwaitsOverwrite
  <2> QED  BY <1>0, <1>1, <2>1, <2>2, PathInvariantFrame
<1> QED
  BY <1>0, <1>5, <1>6, <1>7, <1>8, <1>9, <1>10, ServerCases DEF ServerNext

LEMMA ClientPath ==
    ASSUME IInv, ClientNext
    PROVE  PathInvariant'
<1>0. TypeOK /\ Conversation /\ PathInvariant
  BY DEF IInv
<1>1. UNCHANGED <<tree, spc>>
  BY DEF ClientNext, serverVars
<1>2. NoMsg.cmd = "none"
  BY DEF NoMsg
<1>3. CASE failed
  <2>1. failed'
    BY <1>3 DEF ClientNext, Access, ReadPathFromServer, ReadPath, AccessStash, EvictBlock,
                WritePath, Return, Throw, DestroyClient
  <2> QED  BY <2>1 DEF PathInvariant
<1>4. ASSUME NEW c \in Calls, Access(c), ~ failed
      PROVE  PathInvariant'
  <2>1. /\ cpc = "idle" /\ cpc' = "readPath" /\ call' = c /\ oldLeaf' = posMap[c.addr]
        /\ failed' = failed /\ resp' = resp
    BY <1>4 DEF Access
  <2>2. PICK leaf \in Leaves : posMap' = [posMap EXCEPT ![c.addr] = leaf]
    BY <1>4 DEF Access
  <2>3. resp = NoMsg /\ spc # "writing"
    BY <1>0, <1>2, <1>4, <2>1 DEF Conversation
  <2>4. \A n \in Nodes : OnPath(n, posMap[c.addr]) => AwaitsOverwrite(n)'
    BY <1>1, <1>2, <2>1, <2>3 DEF AwaitsOverwrite, OnPath
  <2>5. ASSUME NEW n \in Nodes, NEW k \in 1 .. Len(tree[n]), tree[n][k].id # DummyId
        PROVE  \/ OnPath(n, posMap'[tree[n][k].id])
               \/ AwaitsOverwrite(n)' /\ tree[n][k].id = c.addr
    <3> DEFINE id == tree[n][k].id
    <3>1. OnPath(n, posMap[id])
      BY <1>0, <1>4, <2>1, <2>5 DEF PathInvariant, AwaitsOverwrite
    <3>2. CASE id = c.addr
      BY <2>4, <3>1, <3>2
    <3>3. CASE id # c.addr
      <4>1. posMap \in [Addr -> Leaves] /\ id \in Addr
        <5>1. tree[n] \in Seq(AnyBlock)
          BY <1>0, <2>5, TreeKinds, TornFacts, BucketsAre
        <5>2. tree[n][k] \in AnyBlock
          BY <5>1
        <5> QED  BY <1>0, <2>5, <5>2, DummyType DEF TypeOK
      <4>2. posMap'[id] = posMap[id]
        BY <2>2, <3>3, <4>1
      <4> QED  BY <3>1, <4>2
    <3> QED  BY <3>2, <3>3
  <2> QED  BY <1>1, <2>1, <2>5 DEF PathInvariant, OnPath
<1>5. CASE ReadPathFromServer \/ ReadPath \/ AccessStash \/ EvictBlock \/ WritePath
  <2>1. /\ cpc \in {"readPath", "push", "evict"} /\ cpc' \in {"push", "evict", "writePath"}
        /\ UNCHANGED <<posMap, call, oldLeaf, failed>>
        /\ resp' = resp \/ resp' = NoMsg
    BY <1>5 DEF ReadPathFromServer, ReadPath, AccessStash, EvictBlock, WritePath
  <2>2. CASE ~ failed
    <3>1. spc # "writing"
      BY <2>1, <2>2, WritingMeansWritePath
    <3>2. \A n \in Nodes : AwaitsOverwrite(n) => AwaitsOverwrite(n)'
      BY <1>1, <1>2, <2>1, <3>1 DEF AwaitsOverwrite, OnPath
    <3> QED  BY <1>0, <1>1, <2>1, <3>2, PathInvariantFrame
  <2> QED  BY <1>3, <2>2
<1>6. ASSUME Return \/ DestroyClient, ~ failed
      PROVE  PathInvariant'
  <2>1. UNCHANGED <<posMap, failed>>
    BY <1>6 DEF Return, DestroyClient
  <2>2. \A n \in Nodes : ~ AwaitsOverwrite(n)
    BY <1>6 DEF Return, DestroyClient, AwaitsOverwrite
  <2> QED  BY <1>0, <1>1, <2>1, <2>2 DEF PathInvariant, OnPath
<1>7. CASE Throw
  <2>1. failed'
    BY <1>7 DEF Throw
  <2> QED  BY <2>1 DEF PathInvariant
<1> QED
  BY <1>3, <1>4, <1>5, <1>6, <1>7 DEF ClientNext

LEMMA OtherSteps ==
    ASSUME IInv, NetworkNext \/ Terminated \/ UNCHANGED vars
    PROVE  IInv'
<1>0. TypeOK /\ Conversation /\ PlacedInTransit /\ PathInvariant
  BY DEF IInv
<1>1. /\ UNCHANGED <<serverVars, clientVars, req, resp, oracle>>
      /\ conn' = conn \/ conn' = "down"
  BY DEF NetworkNext, ConnectionLost, Terminated, vars
<1>2. TypeOK'
  BY <1>0, <1>1 DEF TypeOK, serverVars, clientVars
<1>3. Conversation'
  BY <1>0, <1>1 DEF Conversation, serverVars, clientVars
<1>4. PlacedInTransit'
  BY <1>0, <1>1 DEF PlacedInTransit, Placed, serverVars, clientVars
<1>5. PathInvariant'
  BY <1>0, <1>1 DEF PathInvariant, AwaitsOverwrite, OnPath, serverVars, clientVars
<1> QED  BY <1>2, <1>3, <1>4, <1>5 DEF IInv

THEOREM IInvPreserved == IInv /\ [Next]_vars => IInv'
<1> SUFFICES ASSUME IInv, [Next]_vars PROVE IInv'
  OBVIOUS
<1>1. CASE ServerNext
  BY <1>1, ServerType, ServerConversation, ServerPlaced, ServerPath DEF IInv
<1>2. CASE ClientNext
  BY <1>2, ClientType, ClientConversation, ClientPlaced, ClientPath DEF IInv
<1>3. CASE NetworkNext \/ Terminated \/ UNCHANGED vars
  BY <1>3, OtherSteps
<1> QED  BY <1>1, <1>2, <1>3 DEF Next

\* The strengthened invariant holds in every reachable state.
THEOREM Invariance == Spec => []IInv
<1>1. Init => IInv
  BY InitIInv
<1>2. IInv /\ [Next]_vars => IInv'
  BY IInvPreserved
<1> QED  BY <1>1, <1>2, PTL DEF Spec

\* Every variable and every message keeps its type, whatever fails.
THEOREM TypeCorrect == Spec => []TypeOK
<1>1. IInv => TypeOK
  BY DEF IInv
<1> QED  BY <1>1, Invariance, PTL

\* As long as no call has thrown, every block of the tree lies on the path of
\* its position, or is the accessed block in a bucket about to be rewritten.
THEOREM BlocksOnTheirPath == Spec => []PathInvariant
<1>1. IInv => PathInvariant
  BY DEF IInv
<1> QED  BY <1>1, Invariance, PTL

\* Messages stay paired with the access in progress, and after an exception
\* the connection is gone.
THEOREM OneMessageInTransit == Spec => []Conversation
<1>1. IInv => Conversation
  BY DEF IInv
<1> QED  BY <1>1, Invariance, PTL

-----------------------------------------------------------------------------
LEMMA InitRest == Init => CallState /\ AccessedOnOldPath /\ PathReadWasThere /\ PathBeingWritten
BY DEF Init, ConstructClient, CallState, AccessedOnOldPath, PathReadWasThere, PathBeingWritten, NoMsg

LEMMA ServerKeepsQuiet ==
    ASSUME TypeOK, Conversation, ServerNext, conn # "up"
    PROVE  resp' = resp
<1>1. CASE StartHandleRequests \/ Stop \/ DestroyServer
  BY <1>1 DEF StartHandleRequests, Stop, DestroyServer
<1>2. CASE HandleReadPath \/ HandleWritePath \/ WritePathBucket
  BY <1>2, HandleReadPathReads, WritePathBucketWrites DEF HandleWritePath
<1>3. CASE AckWritePath \/ HandleQuit \/ ServerRecvThrows
  BY <1>3 DEF AckWritePath, HandleQuit, ServerRecvThrows, SendReply
<1> QED  BY <1>1, <1>2, <1>3, ServerCases DEF ServerNext

LEMMA CallStateKept ==
    ASSUME IInv, CallState, [Next]_vars
    PROVE  CallState'
<1>0. TypeOK /\ Conversation /\ (failed => conn = "down")
  BY DEF IInv, Conversation
<1>1. CASE ServerNext
  <2>1. UNCHANGED <<cpc, call, incoming, rest, result, failed>>
    BY <1>1 DEF ServerNext, clientVars
  <2>2. failed => resp' = resp
    BY <1>0, <1>1, ServerKeepsQuiet
  <2> QED  BY <2>1, <2>2 DEF CallState
<1>2. CASE NetworkNext \/ Terminated \/ UNCHANGED vars
  <2>1. UNCHANGED <<cpc, call, incoming, rest, result, failed, resp>>
    BY <1>2 DEF NetworkNext, ConnectionLost, Terminated, vars, clientVars
  <2> QED  BY <2>1 DEF CallState
<1>3. ASSUME NEW c \in Calls, Access(c)
      PROVE  CallState'
  BY <1>3 DEF Access, CallState
<1>4. CASE ReadPathFromServer
  BY <1>4 DEF ReadPathFromServer, CallState, NoMsg
<1>5. CASE ReadPath
  BY <1>5 DEF ReadPath, CallState
<1>6. CASE AccessStash
  <2>1. call \in Calls /\ cpc = "push" /\ cpc' = "evict"
    BY <1>6 DEF AccessStash, CallState
  <2>2. result' \in Data
    BY <1>0, <1>6, <2>1, DataOfType, CallShapes DEF AccessStash, TypeOK
  <2>3. incoming' = << >> /\ UNCHANGED <<call, failed, resp>>
    BY <1>6 DEF AccessStash
  <2> QED  BY <2>1, <2>2, <2>3 DEF CallState
<1>7. CASE EvictBlock
  <2>1. cpc = "evict" /\ UNCHANGED <<cpc, call, incoming, result, failed, resp>>
    BY <1>7 DEF EvictBlock
  <2> QED  BY <2>1 DEF CallState
<1>8. CASE WritePath
  BY <1>8 DEF WritePath, CallState
<1>9. CASE Return \/ Throw
  BY <1>9 DEF Return, Throw, EndOfCall, CallState
<1>10. CASE DestroyClient
  BY <1>10 DEF DestroyClient, CallState
<1> QED
  BY <1>1, <1>2, <1>3, <1>4, <1>5, <1>6, <1>7, <1>8, <1>9, <1>10 DEF Next, ClientNext

\* The tree changes only while the server writes a path.
LEMMA TreeUnchanged ==
    ASSUME TypeOK, Conversation, ServerNext, spc # "writing"
    PROVE  tree' = tree
<1>1. CASE StartHandleRequests \/ Stop \/ DestroyServer
  BY <1>1 DEF StartHandleRequests, Stop, DestroyServer
<1>2. CASE HandleReadPath \/ HandleWritePath \/ WritePathBucket
  BY <1>2, HandleReadPathReads DEF HandleWritePath, WritePathBucket
<1>3. CASE AckWritePath \/ HandleQuit \/ ServerRecvThrows
  BY <1>3 DEF AckWritePath, HandleQuit, ServerRecvThrows
<1> QED  BY <1>1, <1>2, <1>3, ServerCases DEF ServerNext

LEMMA AccessedOnOldPathKept ==
    ASSUME IInv, AccessedOnOldPath, [Next]_vars
    PROVE  AccessedOnOldPath'
<1>0. TypeOK /\ Conversation /\ PathInvariant
  BY DEF IInv
<1>1. CASE ServerNext
  <2>1. UNCHANGED <<cpc, call, oldLeaf, failed>>
    BY <1>1 DEF ServerNext, clientVars
  <2>2. ~ failed /\ cpc \in {"readPath", "push"} => tree' = tree
    BY <1>0, <1>1, TreeUnchanged, WritingMeansWritePath
  <2> QED  BY <2>1, <2>2 DEF AccessedOnOldPath, OnPath
<1>2. CASE NetworkNext \/ Terminated \/ UNCHANGED vars
  <2>1. UNCHANGED <<cpc, call, oldLeaf, failed, tree>>
    BY <1>2 DEF NetworkNext, ConnectionLost, Terminated, vars, clientVars, serverVars
  <2> QED  BY <2>1 DEF AccessedOnOldPath, OnPath
<1>3. ASSUME ClientNext PROVE tree' = tree
  BY <1>3 DEF ClientNext, serverVars
<1>4. ASSUME NEW c \in Calls, Access(c), tree' = tree
      PROVE  AccessedOnOldPath'
  <2>1. cpc = "idle" /\ call' = c /\ oldLeaf' = posMap[c.addr] /\ failed' = failed
    BY <1>4 DEF Access
  <2>2. c.addr # DummyId
    BY CallShapes, Constants DEF Addr, DummyId
  <2>3. ASSUME ~ failed, NEW n \in Nodes, NEW k \in 1 .. Len(tree[n]), tree[n][k].id = c.addr
        PROVE  OnPath(n, posMap[c.addr])
    BY <1>0, <2>1, <2>2, <2>3 DEF PathInvariant, AwaitsOverwrite
  <2> QED  BY <1>4, <2>1, <2>3 DEF AccessedOnOldPath, OnPath
<1>5. CASE (ReadPathFromServer \/ ReadPath) /\ tree' = tree
  <2>1. cpc \in {"readPath", "push"} /\ UNCHANGED <<tree, call, oldLeaf, failed>>
    BY <1>5 DEF ReadPathFromServer, ReadPath
  <2> QED  BY <2>1 DEF AccessedOnOldPath, OnPath
<1>6. CASE AccessStash \/ EvictBlock \/ WritePath \/ Return \/ Throw \/ DestroyClient
  <2>1. cpc' \notin {"readPath", "push"}
    BY <1>6 DEF AccessStash, EvictBlock, WritePath, Return, Throw, EndOfCall, DestroyClient
  <2> QED  BY <2>1 DEF AccessedOnOldPath
<1> QED
  BY <1>1, <1>2, <1>3, <1>4, <1>5, <1>6 DEF Next, ClientNext

\* Buckets on different levels of a path are different nodes.
LEMMA LevelsApart ==
    ASSUME NEW leaf \in Leaves, NEW i \in Levels, NEW j \in Levels, PathNode(leaf, i) = PathNode(leaf, j)
    PROVE  i = j
<1>1. i \in Nat /\ j \in Nat /\ PathNode(leaf, i) \in Nat /\ PathNode(leaf, j) \in Nat
  BY PathNodeStep, Constants DEF Levels
<1>2. ~ i < j /\ ~ j < i
  BY <1>1, LevelsDisjoint
<1> QED  BY <1>1, <1>2

LEMMA PathBeingWrittenKept ==
    ASSUME "torn" \notin Faults, IInv, PathBeingWritten, [Next]_vars
    PROVE  PathBeingWritten'
<1> USE Constants
<1>0. TypeOK /\ Conversation /\ PlacedInTransit
  BY DEF IInv
<1>1. NoMsg.cmd = "none" /\ Rest.cmd = "rest"
  BY DEF NoMsg, Rest
<1> DEFINE Node(i)   == PathNode(oldLeaf, i)
           Filled(i) == FillBucketWithDummies(pathBuckets[i])
           Asked(r)  == \A k \in 1 .. Len(r.entries) : \E i \in Levels :
                          r.entries[k].node = Node(i) /\ r.entries[k].bucket = Filled(i)
           Once(r)   == \A k, l \in 1 .. Len(r.entries) : r.entries[k].node = r.entries[l].node => k = l
           Pending(r, i) == r.cmd = "T" /\ \E k \in 1 .. Len(r.entries) : r.entries[k].node = Node(i)
           Settled(t, r) == \A i \in Levels : t[Node(i)] \in {Filled(i), << >>} \/ Pending(r, i)
           Good(t, r, answer, point) ==
             /\ r.cmd = "T" => Asked(r)
             /\ r.cmd = "T" => Once(r)
             /\ point = "writing" \/ answer.cmd = "ack" => Settled(t, r)
<1>2. ASSUME UNCHANGED <<oldLeaf, pathBuckets>>, Good(tree', req', resp', spc')
      PROVE  PathBeingWritten'
  BY <1>2 DEF PathBeingWritten
<1>3. ~ failed /\ cpc = "writePath" => Good(tree, req, resp, spc)
  BY DEF PathBeingWritten
<1>4. CASE ServerNext
  <2>1. UNCHANGED <<cpc, failed, oldLeaf, pathBuckets>>
    BY <1>4 DEF ServerNext, clientVars
  <2> SUFFICES ASSUME ~ failed, cpc = "writePath" PROVE PathBeingWritten'
    BY <2>1 DEF PathBeingWritten
  <2>2. Good(tree, req, resp, spc) /\ (req = NoMsg \/ (req.cmd \in {"T", "rest"} /\ resp = NoMsg))
    BY <1>0, <1>1, <1>3 DEF Conversation
  <2> HIDE DEF Good
  <2>3. ASSUME tree' = tree, resp' = resp, req' \in {req, NoMsg, Rest},
               spc' = "writing" => spc = "writing" /\ req' = req
        PROVE  PathBeingWritten'
    <3>1. resp.cmd = "ack" => Settled(tree, req')
      <4>1. resp.cmd = "ack" => Settled(tree, req) /\ \A i \in Levels : ~ Pending(req, i)
        BY <1>1, <2>2 DEF Good
      <4> HIDE DEF Pending, Filled, Node
      <4> QED  BY <4>1
    <3> HIDE DEF Asked, Once, Settled
    <3>2. Good(tree', req', resp', spc')
      BY <1>1, <2>2, <2>3, <3>1 DEF Good
    <3> QED  BY <1>2, <2>1, <3>2
  <2>4. CASE StartHandleRequests \/ Stop \/ DestroyServer
    <3>1. tree' = tree /\ resp' = resp /\ req' = req /\ (spc' = "writing" => spc = "writing")
      BY <2>4 DEF StartHandleRequests, Stop, DestroyServer
    <3> QED  BY <2>3, <3>1
  <2>5. CASE HandleReadPath \/ HandleQuit
    <3>1. req.cmd \in {"P", "Q"}
      BY <1>0, <2>5, HandleReadPathReads DEF HandleQuit, Command
    <3> QED  BY <1>1, <2>2, <3>1
  <2>6. CASE ServerRecvThrows
    <3>1. tree' = tree /\ resp' = resp /\ req' = NoMsg /\ spc' = "left"
      BY <2>6 DEF ServerRecvThrows, Consume, Leave
    <3> QED  BY <2>3, <3>1
  <2>7. CASE HandleWritePath
    <3>1. /\ tree' = tree /\ resp' = resp /\ req.cmd = "T" /\ spc # "writing"
          /\ \/ spc' = "writing" /\ req' = req
             \/ spc' = "left" /\ req' \in {NoMsg, Rest}
      BY <2>7 DEF HandleWritePath, Command, LeaveRest, Leave
    <3>2. CASE spc' = "writing" /\ req' = req
      <4>1. oldLeaf \in Leaves
        BY <1>0 DEF TypeOK
      <4>2. ASSUME NEW i \in Levels PROVE Pending(req, i)
        <5>1. Node(i) \in Nodes /\ OnPath(Node(i), oldLeaf)
          BY <4>1, PathNodeInTree DEF OnPath
        <5> QED  BY <1>0, <3>1, <5>1 DEF PlacedInTransit
      <4>3. Good(tree', req', resp', spc')
        BY <2>2, <3>1, <3>2, <4>2 DEF Good
      <4> QED  BY <1>2, <2>1, <4>3
    <3>3. CASE spc' = "left" /\ req' \in {NoMsg, Rest}
      BY <2>3, <3>1, <3>3
    <3> QED  BY <3>1, <3>2, <3>3
  <2>8. CASE WritePathBucket
    <3> DEFINE entry == Head(req.entries)
               rest2 == Tail(req.entries)
    <3>1. /\ spc = "writing" /\ req.cmd = "T" /\ req.entries \in Seq(Entries) /\ req.entries # << >>
          /\ resp' = resp /\ resp = NoMsg
          /\ \/ /\ spc' = "writing" /\ req' = [cmd |-> "T", entries |-> rest2]
                /\ \E file \in {entry.bucket, << >>} : tree' = [tree EXCEPT ![entry.node] = file]
             \/ spc' = "left" /\ req' \in {NoMsg, Rest}
      <4>1. resp = NoMsg
        BY <1>0, <2>8, WritePathBucketWrites, WritingMeansWritePath
      <4>2. {entry.bucket} \cup Truncated = {entry.bucket, << >>}
        BY WrittenFacts
      <4> QED  BY <1>0, <2>8, <4>1, <4>2, WritePathBucketWrites
    <3>2. /\ entry = req.entries[1] /\ entry \in Entries /\ 1 \in 1 .. Len(req.entries)
          /\ \A k \in 1 .. Len(req.entries) :
               k # 1 => k - 1 \in 1 .. Len(rest2) /\ rest2[k - 1] = req.entries[k]
          /\ \A k \in 1 .. Len(rest2) :
               k \in Nat /\ k + 1 \in 1 .. Len(req.entries) /\ rest2[k] = req.entries[k + 1]
      BY <3>1
    <3>3. entry.node \in Nodes
      BY <3>2 DEF Entries
    <3>4. PICK i0 \in Levels : entry.node = Node(i0) /\ entry.bucket = Filled(i0)
      BY <2>2, <3>1, <3>2 DEF Good
    <3>5. tree \in [Nodes -> Buckets] /\ oldLeaf \in Leaves
      BY <1>0, TreeKinds DEF TypeOK
    <3>6. CASE spc' = "writing"
      <4>0. /\ req' = [cmd |-> "T", entries |-> rest2]
            /\ \E file \in {entry.bucket, << >>} : tree' = [tree EXCEPT ![entry.node] = file]
        BY <3>1, <3>6
      <4> HIDE DEF entry, rest2, Node, Filled
      <4>1. Asked(req')
        <5>1. ASSUME NEW k \in 1 .. Len(rest2)
              PROVE  \E i \in Levels : rest2[k].node = Node(i) /\ rest2[k].bucket = Filled(i)
          <6>1. k + 1 \in 1 .. Len(req.entries) /\ rest2[k] = req.entries[k + 1]
            BY <3>2
          <6> QED  BY <2>2, <3>1, <6>1 DEF Good
        <5>2. req'.entries = rest2
          BY <4>0
        <5> QED  BY <5>1, <5>2
      <4>2. Once(req')
        <5>1. ASSUME NEW k \in 1 .. Len(rest2), NEW l \in 1 .. Len(rest2), rest2[k].node = rest2[l].node
              PROVE  k = l
          <6>1. k + 1 = l + 1
            <7>1. Once(req)
              BY <2>2, <3>1 DEF Good
            <7>2. /\ k + 1 \in 1 .. Len(req.entries) /\ l + 1 \in 1 .. Len(req.entries)
                  /\ rest2[k] = req.entries[k + 1] /\ rest2[l] = req.entries[l + 1]
              BY <3>2
            <7> QED  BY <5>1, <7>1, <7>2
          <6> QED  BY <3>2, <6>1
        <5>2. req'.entries = rest2
          BY <4>0
        <5> QED  BY <5>1, <5>2
      <4>3. ASSUME NEW i \in Levels
            PROVE  tree'[Node(i)] \in {Filled(i), << >>} \/ Pending(req', i)
        <5>1. CASE i = i0
          BY <3>3, <3>4, <3>5, <4>0, <5>1
        <5>2. CASE i # i0
          <6>1. Node(i) # entry.node
            BY <3>4, <3>5, <5>2, LevelsApart DEF Node
          <6>2. Node(i) \in Nodes
            BY <3>5, PathNodeInTree DEF Node
          <6>3. tree'[Node(i)] = tree[Node(i)]
            BY <3>5, <4>0, <6>1, <6>2
          <6>4. tree[Node(i)] \in {Filled(i), << >>} \/ Pending(req, i)
            BY <2>2, <3>1 DEF Good
          <6>5. ASSUME Pending(req, i) PROVE Pending(req', i)
            <7>1. PICK k \in 1 .. Len(req.entries) : req.entries[k].node = Node(i)
              BY <6>5
            <7>2. k # 1
              BY <3>2, <6>1, <7>1
            <7>3. k - 1 \in 1 .. Len(req'.entries) /\ req'.entries[k - 1] = req.entries[k]
              BY <3>2, <4>0, <7>1, <7>2
            <7>4. req'.entries[k - 1].node = Node(i)
              BY <7>1, <7>3
            <7> QED  BY <3>2, <4>0, <7>3, <7>4
          <6> QED  BY <6>3, <6>4, <6>5
        <5> QED  BY <5>1, <5>2
      <4>4. Good(tree', req', resp', spc')
        BY <4>1, <4>2, <4>3 DEF Good
      <4> QED  BY <1>2, <2>1, <4>4
    <3>7. CASE spc' # "writing"
      <4>1. Good(tree', req', resp', spc')
        BY <1>1, <3>1, <3>7 DEF Good
      <4> QED  BY <1>2, <2>1, <4>1
    <3> QED  BY <3>6, <3>7
  <2>9. CASE AckWritePath
    <3>1. spc = "writing" /\ req.entries = << >> /\ tree' = tree /\ req' = NoMsg
      BY <2>9 DEF AckWritePath, Consume
    <3>2. \A i \in Levels : ~ Pending(req, i)
      BY <3>1
    <3>3. \A i \in Levels : tree[Node(i)] \in {Filled(i), << >>}
      BY <2>2, <3>1, <3>2 DEF Good
    <3>4. Good(tree', req', resp', spc')
      BY <1>1, <3>1, <3>3 DEF Good
    <3> QED  BY <1>2, <2>1, <3>4
  <2> QED
    BY <1>0, <1>4, <2>4, <2>5, <2>6, <2>7, <2>8, <2>9, ServerCases DEF ServerNext
<1>5. CASE NetworkNext \/ Terminated \/ UNCHANGED vars
  <2>1. UNCHANGED <<cpc, failed, oldLeaf, pathBuckets, tree, req, resp, spc>>
    BY <1>5 DEF NetworkNext, ConnectionLost, Terminated, vars, clientVars, serverVars
  <2> QED  BY <2>1 DEF PathBeingWritten
<1>6. CASE WritePath /\ tree' = tree /\ spc' = spc
  <2>1. UNCHANGED <<oldLeaf, pathBuckets, failed, resp>> /\ cpc = "evict"
    BY <1>6 DEF WritePath
  <2> SUFFICES ASSUME ~ failed PROVE PathBeingWritten'
    BY <2>1 DEF PathBeingWritten
  <2>2. resp = NoMsg /\ req = NoMsg /\ spc # "writing"
    BY <1>0, <2>1, WritingMeansWritePath DEF Conversation
  <2> DEFINE entries == WritePathEntries(oldLeaf, pathBuckets)
             message == [cmd |-> "T", entries |-> entries]
  <2>3. req' = NoMsg \/ req' = message
    BY <1>6, <2>2 DEF WritePath, SendRequest
  <2>4. Len(entries) = TreeHeight + 1
    BY <1>0, EntriesType DEF TypeOK
  <2>5. ASSUME NEW k \in 1 .. TreeHeight + 1
        PROVE  k - 1 \in Levels /\ entries[k].node = Node(k - 1) /\ entries[k].bucket = Filled(k - 1)
    BY DEF WritePathEntries, Levels
  <2>6. ASSUME NEW k \in 1 .. TreeHeight + 1, NEW l \in 1 .. TreeHeight + 1, entries[k].node = entries[l].node
        PROVE  k = l
    <3>1. oldLeaf \in Leaves /\ Node(k - 1) = Node(l - 1) /\ k - 1 \in Levels /\ l - 1 \in Levels
      BY <1>0, <2>5, <2>6 DEF TypeOK
    <3>2. k - 1 = l - 1
      BY <3>1, LevelsApart
    <3> QED  BY <3>2
  <2> HIDE DEF entries, Node, Filled
  <2>8. Asked(message) /\ Once(message)
    BY <2>4, <2>5, <2>6
  <2> HIDE DEF message
  <2>7. Good(tree', req', resp', spc')
    BY <1>1, <1>6, <2>1, <2>2, <2>3, <2>8
  <2> QED  BY <1>2, <2>1, <2>7 DEF Node, Filled
<1>7. ASSUME ClientNext PROVE tree' = tree /\ spc' = spc
  BY <1>7 DEF ClientNext, serverVars
<1>8. ASSUME NEW c \in Calls, Access(c)
      PROVE  PathBeingWritten'
  BY <1>8 DEF Access, PathBeingWritten
<1>9. CASE ReadPathFromServer \/ ReadPath \/ AccessStash \/ EvictBlock \/ Return \/ Throw \/ DestroyClient
  <2>1. cpc' # "writePath"
    BY <1>9 DEF ReadPathFromServer, ReadPath, AccessStash, EvictBlock, Return, Throw, EndOfCall, DestroyClient
  <2> QED  BY <2>1 DEF PathBeingWritten
<1> QED
  BY <1>4, <1>5, <1>6, <1>7, <1>8, <1>9 DEF Next, ClientNext

LEMMA PathReadWasThereKept ==
    ASSUME IInv, PathReadWasThere, PathBeingWritten, [Next]_vars
    PROVE  PathReadWasThere'
<1> USE Constants
<1>0. TypeOK /\ Conversation
  BY DEF IInv
<1>1. NoMsg.cmd = "none" /\ Rest.cmd = "rest"
  BY DEF NoMsg, Rest
<1>2. oldLeaf \in Leaves
  BY <1>0 DEF TypeOK
<1> DEFINE Read(t) == \A i \in Levels : t[PathNode(oldLeaf, i)] # << >>
           Asked(t, r) == \A k \in 1 .. Len(r.entries) : t[r.entries[k].node] # << >>
<1>3. CASE ServerNext
  <2>1. UNCHANGED <<cpc, failed, oldLeaf, pathBuckets>>
    BY <1>3 DEF ServerNext, clientVars
  <2> SUFFICES ASSUME ~ failed PROVE PathReadWasThere'
    BY <2>1 DEF PathReadWasThere
  <2>2. /\ cpc \in {"push", "evict"} \/ resp.cmd = "path" => Read(tree)
        /\ cpc = "writePath" /\ req.cmd = "T" => Asked(tree, req)
    BY DEF PathReadWasThere
  <2>3. ASSUME tree' = tree, resp'.cmd = "path" => resp' = resp, req' \in {req, NoMsg, Rest}
        PROVE  PathReadWasThere'
    BY <1>1, <2>1, <2>2, <2>3 DEF PathReadWasThere
  <2>4. CASE StartHandleRequests \/ Stop \/ DestroyServer
    <3>1. tree' = tree /\ resp' = resp /\ req' = req
      BY <2>4 DEF StartHandleRequests, Stop, DestroyServer
    <3> QED  BY <2>3, <3>1
  <2>5. CASE HandleWritePath \/ HandleQuit \/ ServerRecvThrows
    <3>1. tree' = tree /\ resp' = resp /\ req' \in {req, NoMsg, Rest}
      BY <2>5 DEF HandleWritePath, HandleQuit, ServerRecvThrows, LeaveRest, Consume
    <3> QED  BY <2>3, <3>1
  <2>6. CASE AckWritePath
    <3>1. tree' = tree /\ req' = NoMsg /\ (resp' = resp \/ resp' = [cmd |-> "ack"])
      BY <2>6 DEF AckWritePath, Consume, SendReply
    <3> QED  BY <2>3, <3>1
  <2>7. CASE HandleReadPath
    <3>1. /\ req.cmd = "P" /\ tree' = tree /\ req' = NoMsg
          /\ resp' = resp \/ \A k \in 1 .. TreeHeight + 1 : tree[req.path[k]] # << >>
      BY <1>0, <2>7, HandleReadPathReads
    <3>2. req = [cmd |-> "P", path |-> GetPathIndices(oldLeaf)]
      BY <1>0, <1>1, <3>1 DEF Conversation, TypeOK, ClientPoints
    <3>3. CASE resp' = resp
      BY <2>3, <3>1, <3>3
    <3>4. CASE \A k \in 1 .. TreeHeight + 1 : tree[req.path[k]] # << >>
      <4>1. ASSUME NEW i \in Levels PROVE tree[PathNode(oldLeaf, i)] # << >>
        <5>1. i + 1 \in 1 .. TreeHeight + 1 /\ (i + 1) - 1 = i
          BY DEF Levels
        <5>2. req.path[i + 1] = PathNode(oldLeaf, i)
          BY <1>2, <3>2, <5>1, PathType
        <5> QED  BY <3>4, <5>1, <5>2
      <4> QED  BY <1>1, <2>1, <3>1, <4>1 DEF PathReadWasThere
    <3> QED  BY <3>1, <3>3, <3>4
  <2>8. CASE WritePathBucket
    <3> DEFINE entry == Head(req.entries)
               rest2 == Tail(req.entries)
    <3>1. /\ spc = "writing" /\ req.cmd = "T" /\ req.entries \in Seq(Entries) /\ req.entries # << >>
          /\ resp' = resp
          /\ \/ /\ spc' = "writing" /\ req' = [cmd |-> "T", entries |-> rest2]
                /\ \E file : tree' = [tree EXCEPT ![entry.node] = file]
             \/ req' \in {NoMsg, Rest}
      BY <1>0, <2>8, WritePathBucketWrites
    <3>2. cpc = "writePath" /\ resp' = NoMsg
      BY <2>1, <3>1, WritingMeansWritePath
    <3>3. CASE req' \in {NoMsg, Rest}
      BY <1>1, <2>1, <3>2, <3>3 DEF PathReadWasThere
    <3>4. CASE req' = [cmd |-> "T", entries |-> rest2] /\ \E file : tree' = [tree EXCEPT ![entry.node] = file]
      <4>1. /\ entry = req.entries[1] /\ 1 \in 1 .. Len(req.entries)
            /\ \A k \in 1 .. Len(rest2) :
                 k \in Nat /\ k + 1 \in 1 .. Len(req.entries) /\ rest2[k] = req.entries[k + 1]
                 /\ k + 1 # 1
        BY <3>1
      <4>2. \A k \in 1 .. Len(req.entries) : req.entries[k].node = entry.node => k = 1
        BY <3>1, <3>2, <4>1 DEF PathBeingWritten
      <4>3. tree \in [Nodes -> Buckets \cup Truncated]
        BY <1>0 DEF TypeOK
      <4> HIDE DEF entry, rest2
      <4>4. ASSUME NEW k \in 1 .. Len(rest2) PROVE tree'[rest2[k].node] # << >>
        <5>1. rest2[k] = req.entries[k + 1] /\ k + 1 \in 1 .. Len(req.entries)
          BY <4>1
        <5>2. rest2[k].node # entry.node /\ tree[rest2[k].node] # << >>
          BY <2>2, <3>1, <3>2, <4>1, <4>2, <5>1
        <5>3. rest2[k].node \in Nodes
          <6>1. rest2[k] \in Entries
            BY <3>1, <5>1
          <6> QED  BY <6>1 DEF Entries
        <5>4. tree'[rest2[k].node] = tree[rest2[k].node]
          BY <3>4, <4>3, <5>2, <5>3
        <5> QED  BY <5>2, <5>4
      <4>5. req'.entries = rest2
        BY <3>4
      <4> QED  BY <1>1, <2>1, <3>2, <4>4, <4>5 DEF PathReadWasThere
    <3> QED  BY <3>1, <3>3, <3>4
  <2> QED
    BY <1>0, <1>3, <2>4, <2>5, <2>6, <2>7, <2>8, ServerCases DEF ServerNext
<1>4. CASE NetworkNext \/ Terminated \/ UNCHANGED vars
  <2>1. UNCHANGED <<cpc, failed, oldLeaf, tree, req, resp>>
    BY <1>4 DEF NetworkNext, ConnectionLost, Terminated, vars, clientVars, serverVars
  <2> QED  BY <2>1 DEF PathReadWasThere
<1>5. ASSUME ClientNext PROVE tree' = tree
  BY <1>5 DEF ClientNext, serverVars
<1>6. CASE failed' \/ (failed /\ UNCHANGED failed)
  BY <1>6 DEF PathReadWasThere
<1>7. ASSUME \/ \E c \in Calls : Access(c)
             \/ Return \/ DestroyClient,
             ~ failed
      PROVE  PathReadWasThere'
  <2>1. cpc' \in {"idle", "readPath", "destroyed"} /\ resp' = NoMsg
    BY <1>0, <1>7 DEF Access, Return, EndOfCall, DestroyClient, Conversation
  <2> QED  BY <1>1, <2>1 DEF PathReadWasThere
<1>8. CASE (ReadPathFromServer \/ ReadPath \/ AccessStash \/ EvictBlock) /\ tree' = tree /\ ~ failed
  <2>1. /\ cpc' \in {"push", "evict"} /\ UNCHANGED <<oldLeaf, failed>>
        /\ cpc \in {"push", "evict"} \/ resp.cmd = "path"
    BY <1>8 DEF ReadPathFromServer, ReadPath, AccessStash, EvictBlock
  <2> QED  BY <1>8, <2>1 DEF PathReadWasThere
<1>9. CASE WritePath /\ tree' = tree /\ ~ failed
  <2>1. cpc = "evict" /\ cpc' = "writePath" /\ UNCHANGED <<oldLeaf, failed, resp>> /\ req = NoMsg /\ resp = NoMsg
    BY <1>0, <1>9 DEF WritePath, Conversation
  <2> DEFINE entries == WritePathEntries(oldLeaf, pathBuckets)
             message == [cmd |-> "T", entries |-> entries]
  <2>2. req' = NoMsg \/ req' = message
    BY <1>9, <2>1 DEF WritePath, SendRequest
  <2>3. Len(entries) = TreeHeight + 1
    BY <1>0, EntriesType DEF TypeOK
  <2>4. ASSUME NEW k \in 1 .. TreeHeight + 1 PROVE tree[entries[k].node] # << >>
    <3>1. k - 1 \in Levels /\ entries[k].node = PathNode(oldLeaf, k - 1)
      BY DEF WritePathEntries, Levels
    <3>2. Read(tree)
      BY <1>9, <2>1 DEF PathReadWasThere
    <3> HIDE DEF entries
    <3> QED  BY <3>1, <3>2
  <2>5. message.cmd = "T" /\ message.entries = entries
    OBVIOUS
  <2> HIDE DEF entries, message
  <2> QED  BY <1>1, <1>9, <2>1, <2>2, <2>3, <2>4, <2>5 DEF PathReadWasThere
<1>10. CASE Throw
  BY <1>10 DEF Throw, PathReadWasThere
<1> QED
  BY <1>3, <1>4, <1>5, <1>6, <1>7, <1>8, <1>9, <1>10
     DEF Next, ClientNext, Access, ReadPathFromServer, ReadPath, AccessStash, EvictBlock, WritePath,
         Return, DestroyClient

-----------------------------------------------------------------------------
LEMMA CopiesAt ==
    ASSUME NEW s, NEW place, NEW i, NEW a
    PROVE  /\ CopiesIn(s, place, i, a) = {<<place, i, k, s[k].data>> : k \in At(s, a)}
           /\ \A x \in CopiesIn(s, place, i, a) : x[1] = place /\ x[2] = i
           /\ At(s, a) = {} <=> CopiesIn(s, place, i, a) = {}
<1>1. CopiesIn(s, place, i, a) = {<<place, i, k, s[k].data>> : k \in At(s, a)}
  BY Zenon DEF CopiesIn, At
<1>2. \A x \in CopiesIn(s, place, i, a) : x[1] = place /\ x[2] = i
  BY <1>1
<1>3. At(s, a) = {} <=> CopiesIn(s, place, i, a) = {}
  BY <1>1
<1> QED  BY <1>1, <1>2, <1>3

LEMMA RowAt ==
    ASSUME NEW rows, NEW D, NEW place, NEW a
    PROVE  /\ \A x : x \in CopiesInRow(rows, D, place, a) <=>
                       \E i \in D : \E k \in At(rows[i], a) : x = <<place, i, k, rows[i][k].data>>
           /\ \A x \in CopiesInRow(rows, D, place, a) : x[1] = place /\ x[2] \in D
<1>1. \A x : x \in CopiesInRow(rows, D, place, a) <=>
               \E i \in D : \E k \in At(rows[i], a) : x = <<place, i, k, rows[i][k].data>>
  BY CopiesAt DEF CopiesInRow
<1> QED  BY <1>1

\* No more than one copy of an address, which has its value.
OneCopy(C, v) == C = {} \/ \E c \in C : C = {c} /\ c[4] = v

\* One copy stays one copy.
StillOne(C, D, v) == OneCopy(C, v) => OneCopy(D, v) /\ (D = {} => C = {})

\* Copies that move stay as many, if there is no more than one, and keep their data.
Moves(F, T) ==
    /\ F = {} => T = {}
    /\ \A c : F = {c} => \E d : T = {d} /\ d[4] = c[4]

LEMMA OneCopyMoves ==
    ASSUME NEW O, NEW F, NEW T, NEW v, O \cap F = {}, Moves(F, T)
    PROVE  StillOne(O \cup F, O \cup T, v)
<1>1. CASE O \cup F = {}
  <2>1. O \cup T = {}
    BY <1>1 DEF Moves
  <2> QED  BY <1>1, <2>1 DEF StillOne, OneCopy
<1>2. ASSUME NEW c \in O \cup F, O \cup F = {c}, c[4] = v
      PROVE  OneCopy(O \cup T, v) /\ O \cup T # {}
  <2>1. CASE c \in O
    <3>1. F = {} /\ O = {c}
      BY <1>2, <2>1
    <3>2. T = {}
      BY <3>1 DEF Moves
    <3> QED  BY <1>2, <3>1, <3>2 DEF OneCopy
  <2>2. CASE c \in F
    <3>1. O = {} /\ F = {c}
      BY <1>2, <2>2
    <3>2. PICK d : T = {d} /\ d[4] = c[4]
      BY <3>1 DEF Moves
    <3> QED  BY <1>2, <3>1, <3>2 DEF OneCopy
  <2> QED  BY <2>1, <2>2
<1>3. ASSUME OneCopy(O \cup F, v), O \cup F # {}
      PROVE  OneCopy(O \cup T, v) /\ O \cup T # {}
  <2>1. PICK c \in O \cup F : O \cup F = {c} /\ c[4] = v
    BY <1>3 DEF OneCopy
  <2> QED  BY <1>2, <2>1
<1> QED  BY <1>1, <1>3, Zenon DEF StillOne

LEMMA MovesTogether ==
    ASSUME NEW F, NEW T, NEW G, NEW U, Moves(F, T), Moves(G, U), F \cap G = {}
    PROVE  Moves(F \cup G, T \cup U)
<1>1. F \cup G = {} => T \cup U = {}
  BY DEF Moves
<1>2. ASSUME NEW c, F \cup G = {c}
      PROVE  \E d : T \cup U = {d} /\ d[4] = c[4]
  <2>1. CASE c \in F
    <3>1. G = {} /\ F = {c}
      BY <1>2, <2>1
    <3>2. U = {} /\ \E d : T = {d} /\ d[4] = c[4]
      BY <3>1 DEF Moves
    <3> QED  BY <3>2
  <2>2. CASE c \in G
    <3>1. F = {} /\ G = {c}
      BY <1>2, <2>2
    <3>2. T = {} /\ \E d : U = {d} /\ d[4] = c[4]
      BY <3>1 DEF Moves
    <3> QED  BY <3>2
  <2> QED  BY <1>2, <2>1, <2>2
<1> QED  BY <1>1, <1>2 DEF Moves

Places(s, p, i, K) == {<<p, i, k, s[k].data>> : k \in K}

LEMMA PlacesMove ==
    ASSUME NEW s, NEW p, NEW i, NEW K, NEW t, NEW q, NEW j, NEW L,
           K = {} => L = {},
           \A k : K = {k} => \E l : L = {l} /\ t[l] = s[k]
    PROVE  Moves(Places(s, p, i, K), Places(t, q, j, L))
<1> DEFINE F == {<<p, i, k, s[k].data>> : k \in K}
           T == {<<q, j, l, t[l].data>> : l \in L}
<1>1. ASSUME F = {} PROVE T = {}
  <2>1. K = {}
    <3> SUFFICES ASSUME NEW k \in K PROVE FALSE
      OBVIOUS
    <3>1. <<p, i, k, s[k].data>> \in F
      OBVIOUS
    <3> QED  BY <1>1, <3>1
  <2> QED  BY <2>1
<1>2. ASSUME NEW c, F = {c}
      PROVE  \E d : T = {d} /\ d[4] = c[4]
  <2>1. PICK k \in K : c = <<p, i, k, s[k].data>>
    BY <1>2
  <2>2. K = {k}
    <3>1. ASSUME NEW m \in K PROVE m = k
      <4>1. <<p, i, m, s[m].data>> \in F
        OBVIOUS
      <4>2. <<p, i, m, s[m].data>> = <<p, i, k, s[k].data>>
        BY <1>2, <2>1, <4>1
      <4> QED  BY <4>2
    <3> QED  BY <2>1, <3>1
  <2>3. PICK l : L = {l} /\ t[l] = s[k]
    BY <2>2
  <2>4. T = {<<q, j, l, t[l].data>>}
    BY <2>3
  <2>5. <<q, j, l, t[l].data>>[4] = c[4]
    BY <2>1, <2>3
  <2> QED  BY <2>4, <2>5
<1> HIDE DEF F, T
<1>3. Moves(F, T)
  BY <1>1, <1>2 DEF Moves
<1> QED  BY <1>3 DEF F, T, Places

LEMMA CarriesMoves ==
    ASSUME NEW s, NEW p, NEW i, NEW t, NEW q, NEW j, NEW a, Carries(s, t, a)
    PROVE  Moves(CopiesIn(s, p, i, a), CopiesIn(t, q, j, a))
<1>1. /\ CopiesIn(s, p, i, a) = Places(s, p, i, At(s, a))
      /\ CopiesIn(t, q, j, a) = Places(t, q, j, At(t, a))
  BY CopiesAt DEF Places
<1>2. Moves(Places(s, p, i, At(s, a)), Places(t, q, j, At(t, a)))
  BY PlacesMove DEF Carries
<1> QED  BY <1>1, <1>2

\* The copy that leaves the front of a sequence.
FirstCopy(b, p, i, a) == IF b.id = a THEN {<<p, i, 1, b.data>>} ELSE {}

LEMMA TailMoves ==
    ASSUME NEW S, NEW s \in Seq(S), s # << >>, NEW p, NEW i, NEW a
    PROVE  \E Later : /\ CopiesIn(s, p, i, a) = FirstCopy(Head(s), p, i, a) \cup Later
                      /\ FirstCopy(Head(s), p, i, a) \cap Later = {}
                      /\ Moves(Later, CopiesIn(Tail(s), p, i, a))
<1> DEFINE K == At(s, a) \ {1}
           L == At(Tail(s), a)
           Later == {<<p, i, k, s[k].data>> : k \in K}
<1>1. /\ Head(s) = s[1] /\ L = {k - 1 : k \in K} /\ 1 \in 1 .. Len(s)
      /\ \A k \in K : k \in 1 .. Len(s) /\ Tail(s)[k - 1] = s[k]
  BY AtTail DEF At
<1>2. At(s, a) = K \cup (IF s[1].id = a THEN {1} ELSE {})
  BY <1>1 DEF At
<1>3. CopiesIn(s, p, i, a) = FirstCopy(Head(s), p, i, a) \cup Later
  <2>1. CopiesIn(s, p, i, a) = {<<p, i, k, s[k].data>> : k \in At(s, a)}
    BY CopiesAt
  <2> HIDE DEF K
  <2> QED  BY <1>1, <1>2, <2>1 DEF FirstCopy
<1>4. FirstCopy(Head(s), p, i, a) \cap Later = {}
  BY DEF FirstCopy
<1>5. Moves(Places(s, p, i, K), Places(Tail(s), p, i, L))
  <2>1. K = {} => L = {}
    <3> HIDE DEF K, L
    <3> QED  BY <1>1
  <2>2. ASSUME NEW k, K = {k} PROVE L = {k - 1} /\ Tail(s)[k - 1] = s[k]
    <3> HIDE DEF K, L
    <3> QED  BY <1>1, <2>2
  <2> HIDE DEF K, L
  <2> QED  BY <2>1, <2>2, PlacesMove
<1>6. CopiesIn(Tail(s), p, i, a) = Places(Tail(s), p, i, L) /\ Later = Places(s, p, i, K)
  BY CopiesAt DEF Places
<1> HIDE DEF Later, L
<1> QED  BY <1>3, <1>4, <1>5, <1>6

LEMMA AppendMoves ==
    ASSUME NEW S, NEW s \in Seq(S), NEW b \in S, NEW p, NEW i, NEW q, NEW j, NEW a, p # q
    PROVE  Moves(CopiesIn(s, p, i, a) \cup FirstCopy(b, q, j, a), CopiesIn(Append(s, b), p, i, a))
<1> DEFINE t == Append(s, b)
           F == CopiesIn(s, p, i, a)
           New == IF b.id = a THEN {<<p, i, Len(s) + 1, b.data>>} ELSE {}
<1>1. /\ t[Len(s) + 1] = b /\ \A k \in 1 .. Len(s) : t[k] = s[k]
      /\ At(t, a) = At(s, a) \cup (IF b.id = a THEN {Len(s) + 1} ELSE {})
  BY AtAppend
<1>2. CopiesIn(t, p, i, a) = {<<p, i, k, t[k].data>> : k \in At(t, a)}
      /\ F = {<<p, i, k, s[k].data>> : k \in At(s, a)}
  BY CopiesAt
<1>3. \A k \in At(s, a) : k \in 1 .. Len(s)
  BY DEF At
<1>4. CopiesIn(t, p, i, a) = F \cup New
  <2> HIDE DEF t, F
  <2> QED  BY <1>1, <1>2, <1>3
<1>5. Moves(F, F) /\ Moves(FirstCopy(b, q, j, a), New)
  <2>1. Moves(F, F)
    BY DEF Moves
  <2>2. CASE b.id # a
    BY <2>2 DEF Moves, FirstCopy
  <2>3. CASE b.id = a
    <3> DEFINE c == <<q, j, 1, b.data>>
               d == <<p, i, Len(s) + 1, b.data>>
    <3>1. FirstCopy(b, q, j, a) = {c} /\ New = {d} /\ d[4] = c[4]
      BY <2>3 DEF FirstCopy
    <3> HIDE DEF c, d, New
    <3> QED  BY <2>1, <3>1 DEF Moves
  <2> QED  BY <2>1, <2>2, <2>3
<1>6. F \cap FirstCopy(b, q, j, a) = {}
  <2>1. \A x \in F : x[1] = p
    BY CopiesAt
  <2> HIDE DEF F
  <2> QED  BY <2>1 DEF FirstCopy
<1> HIDE DEF F, New, t
<1> QED  BY <1>4, <1>5, <1>6, MovesTogether DEF F, t

LEMMA ConcatMoves ==
    ASSUME NEW S, NEW s \in Seq(S), NEW h, NEW w \in Seq(S), NEW p, NEW i, NEW q, NEW j, NEW a, p # q,
           Carries(h, w, a)
    PROVE  Moves(CopiesIn(s, p, i, a) \cup CopiesIn(h, q, j, a), CopiesIn(s \o w, p, i, a))
<1> DEFINE t == s \o w
           F == CopiesIn(s, p, i, a)
           G == CopiesIn(h, q, j, a)
           L == {Len(s) + k : k \in At(w, a)}
           New == {<<p, i, l, t[l].data>> : l \in L}
<1>1. /\ Len(s) \in Nat /\ \A k \in 1 .. Len(s) : t[k] = s[k]
      /\ \A k \in 1 .. Len(w) : t[Len(s) + k] = w[k]
      /\ At(t, a) = At(s, a) \cup L
  BY AtConcat
<1>2. /\ CopiesIn(t, p, i, a) = {<<p, i, k, t[k].data>> : k \in At(t, a)}
      /\ F = {<<p, i, k, s[k].data>> : k \in At(s, a)}
      /\ G = {<<q, j, k, h[k].data>> : k \in At(h, a)}
  BY CopiesAt
<1>3. \A k \in At(s, a) : t[k] = s[k]
  BY <1>1 DEF At
<1>4. CopiesIn(t, p, i, a) = F \cup New
  <2> HIDE DEF t, F, L
  <2> QED  BY <1>1, <1>2, <1>3
<1>5. Moves(G, New)
  <2>1. At(h, a) = {} => L = {}
    BY DEF Carries
  <2>2. ASSUME NEW k, At(h, a) = {k} PROVE \E l : L = {l} /\ t[l] = h[k]
    <3>1. PICK m : At(w, a) = {m} /\ w[m] = h[k]
      BY <2>2 DEF Carries
    <3>2. m \in 1 .. Len(w)
      BY <3>1 DEF At
    <3>3. L = {Len(s) + m} /\ t[Len(s) + m] = h[k]
      <4> HIDE DEF t
      <4> QED  BY <1>1, <3>1, <3>2
    <3> QED  BY <3>3
  <2>3. Moves(Places(h, q, j, At(h, a)), Places(t, p, i, L))
    <3> HIDE DEF L, t
    <3> QED  BY <2>1, <2>2, PlacesMove
  <2> QED  BY <1>2, <2>3 DEF Places
<1>6. F \cap G = {}
  <2>1. (\A x \in F : x[1] = p) /\ (\A x \in G : x[1] = q)
    BY CopiesAt
  <2> HIDE DEF F, G
  <2> QED  BY <2>1
<1>7. Moves(F, F)
  BY DEF Moves
<1> HIDE DEF F, G, New, t
<1> QED  BY <1>4, <1>5, <1>6, <1>7, MovesTogether DEF F, G, t

\* Sequences matched one to one move what they carry.
LEMMA RowMoves ==
    ASSUME NEW rows, NEW D, NEW p, NEW rows2, NEW D2, NEW q, NEW a, NEW G,
           \A g \in G : g[1] \in D /\ g[2] \in D2 /\ Carries(rows[g[1]], rows2[g[2]], a),
           \A i \in D : \E g \in G : g[1] = i,
           \A j \in D2 : \E g \in G : g[2] = j,
           \A g \in G : \A h \in G : g[1] = h[1] <=> g[2] = h[2]
    PROVE  Moves(CopiesInRow(rows, D, p, a), CopiesInRow(rows2, D2, q, a))
<1>1. ASSUME CopiesInRow(rows, D, p, a) = {}
      PROVE  CopiesInRow(rows2, D2, q, a) = {}
  <2>1. ASSUME NEW i \in D PROVE At(rows[i], a) = {}
    <3> SUFFICES ASSUME NEW k \in At(rows[i], a) PROVE FALSE
      OBVIOUS
    <3>1. <<p, i, k, rows[i][k].data>> \in CopiesInRow(rows, D, p, a)
      BY RowAt
    <3> QED  BY <1>1, <3>1
  <2>2. ASSUME NEW j \in D2 PROVE At(rows2[j], a) = {}
    <3>1. PICK g \in G : g[2] = j
      OBVIOUS
    <3>2. At(rows[g[1]], a) = {}
      BY <2>1, <3>1
    <3> QED  BY <3>1, <3>2 DEF Carries
  <2> QED  BY <2>2, RowAt
<1>2. ASSUME NEW c, CopiesInRow(rows, D, p, a) = {c}
      PROVE  \E d : CopiesInRow(rows2, D2, q, a) = {d} /\ d[4] = c[4]
  <2>1. PICK i \in D : \E k \in At(rows[i], a) : c = <<p, i, k, rows[i][k].data>>
    BY <1>2, RowAt
  <2>2. PICK k \in At(rows[i], a) : c = <<p, i, k, rows[i][k].data>>
    BY <2>1
  <2>3. ASSUME NEW n \in D, NEW l \in At(rows[n], a)
        PROVE  n = i /\ l = k
    <3>1. <<p, n, l, rows[n][l].data>> \in CopiesInRow(rows, D, p, a)
      BY RowAt
    <3>2. <<p, n, l, rows[n][l].data>> = <<p, i, k, rows[i][k].data>>
      BY <1>2, <2>2, <3>1
    <3> QED  BY <3>2
  <2>4. At(rows[i], a) = {k}
    BY <2>2, <2>3
  <2>5. PICK g \in G : g[1] = i
    OBVIOUS
  <2> DEFINE j == g[2]
  <2>6. PICK l : At(rows2[j], a) = {l} /\ rows2[j][l] = rows[i][k]
    <3>1. Carries(rows[i], rows2[j], a)
      BY <2>5
    <3> HIDE DEF j
    <3> QED  BY <2>4, <3>1 DEF Carries
  <2>7. ASSUME NEW m \in D2, m # j PROVE At(rows2[m], a) = {}
    <3>1. PICK h \in G : h[2] = m
      OBVIOUS
    <3>2. h[1] \in D /\ h[1] # i
      BY <2>5, <2>7, <3>1
    <3>3. At(rows[h[1]], a) = {}
      BY <2>3, <3>2
    <3> QED  BY <3>1, <3>3 DEF Carries
  <2> DEFINE d == <<q, j, l, rows2[j][l].data>>
  <2>8. j \in D2 /\ d[4] = c[4]
    BY <2>2, <2>6
  <2>9. ASSUME NEW x PROVE x \in CopiesInRow(rows2, D2, q, a) <=> x = d
    <3>1. x \in CopiesInRow(rows2, D2, q, a) <=>
            \E m \in D2 : \E n \in At(rows2[m], a) : x = <<q, m, n, rows2[m][n].data>>
      BY RowAt
    <3>2. \A m \in D2 : \A n : n \in At(rows2[m], a) <=> m = j /\ n = l
      <4> HIDE DEF j
      <4> QED  BY <2>6, <2>7
    <3>3. ASSUME x = d PROVE x \in CopiesInRow(rows2, D2, q, a)
      <4>1. j \in D2 /\ l \in At(rows2[j], a)
        BY <2>6, <2>8
      <4> QED  BY <3>1, <3>3, <4>1
    <3>4. ASSUME NEW m \in D2, NEW n \in At(rows2[m], a), x = <<q, m, n, rows2[m][n].data>>
          PROVE  x = d
      <4>1. m = j /\ n = l
        BY <3>2
      <4> HIDE DEF j
      <4> QED  BY <3>4, <4>1
    <3> HIDE DEF j, d
    <3> QED  BY <3>1, <3>3, <3>4
  <2>10. CopiesInRow(rows2, D2, q, a) = {d}
    <3> HIDE DEF d
    <3> QED  BY <2>9
  <2> QED  BY <2>8, <2>10
<1> QED  BY <1>1, <1>2 DEF Moves

LEMMA RowSame ==
    ASSUME NEW rows, NEW rows2, NEW D, NEW p, NEW a, \A i \in D : rows[i] = rows2[i]
    PROVE  CopiesInRow(rows, D, p, a) = CopiesInRow(rows2, D, p, a)
<1>1. ASSUME NEW x PROVE x \in CopiesInRow(rows, D, p, a) <=> x \in CopiesInRow(rows2, D, p, a)
  BY RowAt
<1> QED  BY <1>1

LEMMA RowSplit ==
    ASSUME NEW rows, NEW D, NEW E, NEW p, NEW a
    PROVE  CopiesInRow(rows, D \cup E, p, a) = CopiesInRow(rows, D, p, a) \cup CopiesInRow(rows, E, p, a)
BY DEF CopiesInRow

LEMMA RowEmpty ==
    ASSUME NEW rows, NEW D, NEW p, NEW a, \A i \in D : rows[i] = << >>
    PROVE  CopiesInRow(rows, D, p, a) = {}
<1>1. \A i \in D : At(rows[i], a) = {}
  BY DEF At
<1> QED  BY <1>1, RowAt

LEMMA NoCopies ==
    ASSUME NEW p, NEW i, NEW a
    PROVE  /\ CopiesIn(<< >>, p, i, a) = {}
           /\ CopiesInRow(<< >>, 1 .. Len(<< >>), p, a) = {}
           /\ CopiesInRow(NoPath, Levels, p, a) = {}
<1>1. At(<< >>, a) = {}
  BY DEF At
<1>2. \A l \in Levels : NoPath[l] = << >>
  BY DEF NoPath
<1>3. 1 .. Len(<< >>) = {}
  OBVIOUS
<1> QED  BY <1>1, <1>2, <1>3, CopiesAt, RowEmpty

\* An address without a copy was never written, or its copy was lost.
MayHaveNone(a) == oracle[a] = Zero \/ OnLostBucket(a)

\* A step that leaves the oracle and the place of every address alone, brings no
\* lost bucket back, and moves copies at most.
LEMMA SameCopies ==
    ASSUME OneCurrentCopy, failed' = failed, oracle' = oracle,
           ~ failed => \A n \in Nodes : tree[n] = << >> => tree'[n] = << >>,
           ~ failed => \A a \in Addr : LeafOf(a)' = LeafOf(a),
           ~ failed => \A a \in Addr : StillOne(LiveCopies(a), LiveCopies(a)', oracle[a])
    PROVE  OneCurrentCopy'
<1> SUFFICES ASSUME ~ failed, NEW a \in Addr
             PROVE  OneCopy(LiveCopies(a)', oracle'[a]) /\ (LiveCopies(a)' = {} => MayHaveNone(a)')
  BY DEF OneCurrentCopy, OneCopy, MayHaveNone
<1>1. OneCopy(LiveCopies(a), oracle[a]) /\ (LiveCopies(a) = {} => MayHaveNone(a))
  BY DEF OneCurrentCopy, OneCopy, MayHaveNone
<1>2. OneCopy(LiveCopies(a)', oracle[a]) /\ (LiveCopies(a)' = {} => LiveCopies(a) = {})
  BY <1>1 DEF StillOne
<1>3. MayHaveNone(a) => MayHaveNone(a)'
  <2>1. LeafOf(a)' = LeafOf(a)
    OBVIOUS
  <2>2. OnLostBucket(a) => OnLostBucket(a)'
    BY <2>1 DEF OnLostBucket, OnPath
  <2> QED  BY <2>2 DEF MayHaveNone
<1> QED  BY <1>1, <1>2, <1>3

LEMMA ServerCopies ==
    ASSUME IInv, PathReadWasThere, PathBeingWritten, OneCurrentCopy, ServerNext
    PROVE  OneCurrentCopy'
<1>0. TypeOK /\ Conversation
  BY DEF IInv
<1>1. UNCHANGED <<posMap, call, stash, cpc, oldLeaf, incoming, rest, pathBuckets, failed, oracle>>
  BY DEF ServerNext, clientVars
<1>2. Counted' = Counted
  BY <1>1 DEF Counted, PathInHand, OnPath
<1>3. ASSUME ~ failed, NEW n \in Nodes, n \in Counted \/ tree[n] = << >>
      PROVE  tree'[n] = tree[n] \/ (n \notin Counted /\ tree'[n] = << >>)
  <2>1. CASE spc # "writing"
    BY <1>0, <2>1, TreeUnchanged
  <2>2. CASE spc = "writing"
    <3>1. cpc = "writePath" /\ req.cmd = "T"
      BY <1>3, <2>2, WritingMeansWritePath
    <3>2. n \in Counted => ~ OnPath(n, oldLeaf)
      BY <3>1 DEF Counted, PathInHand
    <3>3. CASE ~ WritePathBucket
      <4>1. tree' = tree
        <5>1. CASE StartHandleRequests \/ Stop \/ DestroyServer
          BY <5>1 DEF StartHandleRequests, Stop, DestroyServer
        <5>2. CASE HandleReadPath \/ HandleWritePath \/ AckWritePath \/ HandleQuit \/ ServerRecvThrows
          BY <1>0, <5>2, HandleReadPathReads DEF HandleWritePath, AckWritePath, HandleQuit, ServerRecvThrows
        <5> QED  BY <1>0, <3>3, <5>1, <5>2, ServerCases DEF ServerNext
      <4> QED  BY <4>1
    <3>4. CASE WritePathBucket
      <4> DEFINE entry == Head(req.entries)
      <4>1. /\ req.entries \in Seq(Entries) /\ req.entries # << >>
            /\ tree' = tree \/ \E b : tree' = [tree EXCEPT ![entry.node] = b]
        BY <1>0, <3>4, WritePathBucketWrites
      <4>2. entry = req.entries[1] /\ 1 \in 1 .. Len(req.entries)
        BY <4>1
      <4>3. OnPath(entry.node, oldLeaf) /\ tree[entry.node] # << >>
        BY <1>3, <3>1, <4>2 DEF PathBeingWritten, PathReadWasThere, OnPath
      <4>4. entry.node # n /\ tree \in [Nodes -> Buckets \cup Truncated]
        BY <1>0, <1>3, <3>2, <4>3 DEF TypeOK
      <4> HIDE DEF entry
      <4> QED  BY <1>3, <4>1, <4>4
    <3> QED  BY <3>3, <3>4
  <2> QED  BY <2>1, <2>2
<1>4. ASSUME ~ failed, NEW a PROVE StillOne(LiveCopies(a), LiveCopies(a)', oracle[a])
  <2>0. \A n \in Counted : tree[n] = tree'[n]
    BY <1>3, <1>4 DEF Counted
  <2>1. CopiesInRow(tree, Counted, "tree", a) = CopiesInRow(tree', Counted, "tree", a)
    BY <2>0, RowSame
  <2>2. CopiesInRow(tree, Counted, "tree", a) = CopiesInRow(tree', Counted', "tree", a)
    BY <1>2, <2>1
  <2>3. LiveCopies(a)' = LiveCopies(a)
    BY <1>1, <2>2 DEF LiveCopies
  <2> QED  BY <2>3 DEF StillOne
<1>5. ~ failed => \A n \in Nodes : tree[n] = << >> => tree'[n] = << >>
  BY <1>3
<1>6. \A a \in Addr : LeafOf(a)' = LeafOf(a)
  BY <1>1 DEF LeafOf
<1> QED  BY <1>1, <1>4, <1>5, <1>6, SameCopies

LEMMA QuietCopies ==
    ASSUME IInv, OneCurrentCopy,
           \/ \E c \in Calls : Access(c)
           \/ WritePath \/ DestroyClient
           \/ NetworkNext \/ Terminated \/ UNCHANGED vars,
           UNCHANGED <<tree, oracle>>
    PROVE  OneCurrentCopy'
<1>1. UNCHANGED <<stash, incoming, rest, pathBuckets, failed>>
  BY DEF Access, WritePath, DestroyClient, NetworkNext, ConnectionLost, Terminated, vars, clientVars
<1>2. \/ ~ PathInHand /\ ~ PathInHand'
      \/ PathInHand /\ PathInHand' /\ oldLeaf' = oldLeaf
  BY DEF Access, WritePath, DestroyClient, NetworkNext, ConnectionLost, Terminated, vars, clientVars, PathInHand
<1>3. Counted' = Counted
  BY <1>2 DEF Counted, OnPath
<1>4. ASSUME NEW a PROVE StillOne(LiveCopies(a), LiveCopies(a)', oracle[a])
  <2>1. LiveCopies(a)' = LiveCopies(a)
    BY <1>1, <1>3 DEF LiveCopies
  <2> QED  BY <2>1 DEF StillOne
<1>5. ASSUME NEW a \in Addr PROVE LeafOf(a)' = LeafOf(a)
  <2>1. CASE \E c \in Calls : Access(c)
    <3>1. PICK c \in Calls : Access(c)
      BY <2>1
    <3>2. cpc = "idle" /\ cpc' = "readPath" /\ call' = c /\ oldLeaf' = posMap[c.addr]
      BY <3>1 DEF Access
    <3>3. a # c.addr => posMap'[a] = posMap[a]
      BY <3>1 DEF Access, IInv, TypeOK
    <3> QED  BY <3>2, <3>3 DEF LeafOf
  <2>2. CASE WritePath \/ DestroyClient
    BY <2>2 DEF WritePath, DestroyClient, LeafOf
  <2>3. CASE NetworkNext \/ Terminated \/ UNCHANGED vars
    BY <2>3 DEF NetworkNext, Terminated, vars, clientVars, LeafOf
  <2> QED  BY <2>1, <2>2, <2>3
<1> QED  BY <1>1, <1>4, <1>5, SameCopies

LEMMA ReadPathFromServerCopies ==
    ASSUME "torn" \notin Faults, IInv, CallState, OneCurrentCopy, ReadPathFromServer, UNCHANGED <<tree, oracle>>
    PROVE  OneCurrentCopy'
<1> USE Constants
<1>0. TypeOK /\ Conversation
  BY DEF IInv
<1>1. /\ cpc = "readPath" /\ cpc' = "push" /\ resp.cmd = "path" /\ Len(resp.buckets) = TreeHeight + 1
      /\ UNCHANGED <<stash, oldLeaf, rest, pathBuckets, failed>>
      /\ incoming' = [k \in 1 .. Len(resp.buckets) |-> DeserializeBucket(resp.buckets[k])]
  BY DEF ReadPathFromServer
<1> SUFFICES ASSUME ~ failed, NEW a \in Addr PROVE StillOne(LiveCopies(a), LiveCopies(a)', oracle[a])
  <2>1. \A a \in Addr : LeafOf(a)' = LeafOf(a)
    BY DEF ReadPathFromServer, LeafOf
  <2> QED  BY <1>1, <2>1, SameCopies
<1> DEFINE On  == {n \in Nodes : OnPath(n, oldLeaf)}
           Off == {n \in Nodes : ~ OnPath(n, oldLeaf)}
           O == CopiesIn(stash, "stash", 0, a) \cup CopiesIn(rest, "rest", 0, a)
                \cup CopiesInRow(pathBuckets, Levels, "path", a) \cup CopiesInRow(tree, Off, "tree", a)
           F == CopiesInRow(tree, On, "tree", a)
           T == CopiesInRow(incoming', 1 .. TreeHeight + 1, "incoming", a)
           G == {<<PathNode(oldLeaf, k - 1), k>> : k \in 1 .. TreeHeight + 1}
<1>2. /\ Len(incoming') = TreeHeight + 1
      /\ \A k \in 1 .. TreeHeight + 1 : incoming'[k] = tree[PathNode(oldLeaf, k - 1)]
  <2>1. \A k \in 1 .. TreeHeight + 1 : resp.buckets[k] = tree[PathNode(oldLeaf, k - 1)]
    <3>1. ASSUME NEW k \in 1 .. TreeHeight + 1
          PROVE  tree[PathNode(oldLeaf, k - 1)] # Torn
      <4>1. PathNode(oldLeaf, k - 1) \in Nodes
        BY <1>0, PathType, PathNodeInTree DEF TypeOK
      <4> QED  BY <1>0, <4>1, TreeKinds, TornFacts
    <3>2. \A k \in 1 .. TreeHeight + 1 : tree[PathNode(oldLeaf, k - 1)] \in {resp.buckets[k], Torn}
      BY <1>0, <1>1 DEF Conversation
    <3> QED  BY <3>1, <3>2
  <2>2. resp.buckets \in Seq(Buckets)
    BY <1>0, <1>1, ReplyShapes DEF TypeOK
  <2>3. \A k \in 1 .. TreeHeight + 1 : resp.buckets[k] \in Buckets
    BY <1>1, <2>2
  <2>4. \A k \in 1 .. TreeHeight + 1 : DeserializeBucket(resp.buckets[k]) = resp.buckets[k]
    BY <2>3, BucketUnchanged
  <2> QED  BY <1>1, <2>1, <2>4
<1>3. oldLeaf \in Leaves
  BY <1>0 DEF TypeOK
<1>4. Counted = On \cup Off /\ Counted' = Off
  BY <1>1 DEF Counted, PathInHand, OnPath
<1>5. LiveCopies(a) = O \cup F
  <2>1. incoming = << >>
    BY <1>1 DEF CallState
  <2>2. CopiesInRow(tree, Counted, "tree", a) = F \cup CopiesInRow(tree, Off, "tree", a)
    BY <1>4, RowSplit
  <2>3. CopiesInRow(incoming, 1 .. Len(incoming), "incoming", a) = {}
    BY <2>1, NoCopies
  <2> QED  BY <2>2, <2>3 DEF LiveCopies
<1>6. LiveCopies(a)' = O \cup T
  <2> HIDE DEF On, Off
  <2> QED  BY <1>1, <1>2, <1>4 DEF LiveCopies
<1>7. O \cap F = {}
  <2>1. \A x \in O : x[1] \in {"stash", "rest", "path"} \/ (x[1] = "tree" /\ x[2] \in Off)
    BY CopiesAt, RowAt
  <2>2. \A x \in F : x[1] = "tree" /\ x[2] \in On
    BY RowAt
  <2> QED  BY <2>1, <2>2
<1>8. Moves(F, T)
  <2>1. ASSUME NEW k \in 1 .. TreeHeight + 1
        PROVE  k - 1 \in Levels /\ PathNode(oldLeaf, k - 1) \in On
    BY <1>3, PathType, PathNodeInTree DEF OnPath
  <2>2. ASSUME NEW k \in 1 .. TreeHeight + 1, NEW l \in 1 .. TreeHeight + 1,
               PathNode(oldLeaf, k - 1) = PathNode(oldLeaf, l - 1)
        PROVE  k = l
    <3>1. k - 1 = l - 1
      BY <1>3, <2>1, <2>2, LevelsApart
    <3> QED  BY <3>1
  <2>3. ASSUME NEW g \in G
        PROVE  g[1] \in On /\ g[2] \in 1 .. TreeHeight + 1 /\ Carries(tree[g[1]], incoming'[g[2]], a)
    <3>1. PICK k \in 1 .. TreeHeight + 1 : g = <<PathNode(oldLeaf, k - 1), k>>
      OBVIOUS
    <3>2. g[1] = PathNode(oldLeaf, k - 1) /\ g[2] = k
      BY <3>1
    <3>3. incoming'[g[2]] = tree[g[1]]
      BY <1>2, <3>2
    <3>4. Carries(tree[g[1]], incoming'[g[2]], a)
      BY <3>3 DEF Carries
    <3> QED  BY <2>1, <3>2, <3>4
  <2>4. \A n \in On : \E g \in G : g[1] = n
    <3> SUFFICES ASSUME NEW n \in On PROVE \E g \in G : g[1] = n
      OBVIOUS
    <3>1. PICK i \in Levels : n = PathNode(oldLeaf, i)
      BY DEF OnPath
    <3>2. i + 1 \in 1 .. TreeHeight + 1 /\ (i + 1) - 1 = i
      BY DEF Levels
    <3>3. <<PathNode(oldLeaf, (i + 1) - 1), i + 1>> \in G
      BY <3>2
    <3> QED  BY <3>1, <3>2, <3>3
  <2>5. ASSUME NEW k \in 1 .. TreeHeight + 1 PROVE \E g \in G : g[2] = k
    <3>1. <<PathNode(oldLeaf, k - 1), k>> \in G
      OBVIOUS
    <3> HIDE DEF G
    <3> QED  BY <3>1
  <2>6. \A g \in G : \A h \in G : g[1] = h[1] <=> g[2] = h[2]
    BY <2>2
  <2> HIDE DEF On, G
  <2> QED  BY <2>3, <2>4, <2>5, <2>6, RowMoves
<1> HIDE DEF O, F, T
<1>9. StillOne(O \cup F, O \cup T, oracle[a])
  BY <1>7, <1>8, OneCopyMoves, Zenon
<1> QED  BY <1>5, <1>6, <1>9, Zenon

\* An address is not the id of a dummy.
LEMMA AddrNotDummy == \A a \in Addr : a # DummyId
BY Constants DEF Addr, DummyId

LEMMA ReadPathCopies ==
    ASSUME IInv, OneCurrentCopy, ReadPath, UNCHANGED <<tree, oracle>>
    PROVE  OneCurrentCopy'
<1>0. TypeOK
  BY DEF IInv
<1>1. /\ cpc = "push" /\ incoming # << >> /\ UNCHANGED <<cpc, oldLeaf, rest, pathBuckets, failed>>
      /\ stash' = stash \o WithoutId(Head(incoming), DummyId) /\ incoming' = Tail(incoming)
  BY DEF ReadPath
<1> SUFFICES ASSUME ~ failed, NEW a \in Addr PROVE StillOne(LiveCopies(a), LiveCopies(a)', oracle[a])
  <2>1. \A a \in Addr : LeafOf(a)' = LeafOf(a)
    BY DEF ReadPath, LeafOf
  <2> QED  BY <1>1, <2>1, SameCopies
<1> DEFINE h == Head(incoming)
           N == Len(incoming)
           O == CopiesIn(rest, "rest", 0, a) \cup CopiesInRow(pathBuckets, Levels, "path", a)
                \cup CopiesInRow(tree, Counted, "tree", a)
           F1 == CopiesIn(stash, "stash", 0, a) \cup CopiesIn(h, "incoming", 1, a)
           T1 == CopiesIn(stash', "stash", 0, a)
           F2 == CopiesInRow(incoming, 2 .. N, "incoming", a)
           T2 == CopiesInRow(incoming', 1 .. Len(incoming'), "incoming", a)
<1>2. /\ stash \in Seq(Block) /\ incoming \in Seq(Buckets) /\ h = incoming[1] /\ h \in Buckets
      /\ N \in Nat \ {0} /\ Len(incoming') = N - 1
      /\ \A k \in 1 .. N - 1 : incoming'[k] = incoming[k + 1]
  BY <1>0, <1>1, AtTail DEF TypeOK
<1>3. h \in Seq(AnyBlock) /\ WithoutId(h, DummyId) \in Seq(Block)
  BY <1>2, RealBlocksType, BucketsAre
<1>4. LiveCopies(a) = O \cup (F1 \cup F2)
  <2>1. 1 .. N = {1} \cup (2 .. N)
    BY <1>2
  <2>2. CopiesInRow(incoming, 1 .. N, "incoming", a) = CopiesInRow(incoming, {1}, "incoming", a) \cup F2
    BY <2>1, RowSplit
  <2>3. CopiesInRow(incoming, {1}, "incoming", a) = CopiesIn(h, "incoming", 1, a)
    BY <1>2 DEF CopiesInRow
  <2> QED  BY <2>2, <2>3 DEF LiveCopies
<1>5. LiveCopies(a)' = O \cup (T1 \cup T2)
  <2>1. Counted' = Counted
    BY <1>1 DEF Counted, PathInHand, OnPath
  <2> QED  BY <1>1, <2>1 DEF LiveCopies
<1>6. Moves(F1, T1)
  <2>1. Carries(h, WithoutId(h, DummyId), a)
    BY <1>3, AddrNotDummy, WithoutIdKeeps
  <2> HIDE DEF h
  <2> QED  BY <1>1, <1>2, <1>3, <2>1, ConcatMoves DEF h
<1>7. Moves(F2, T2)
  <2> DEFINE G == {<<k + 1, k>> : k \in 1 .. N - 1}
  <2>1. ASSUME NEW g \in G
        PROVE  /\ g[1] \in 2 .. N /\ g[2] \in 1 .. Len(incoming') /\ g[1] = g[2] + 1
               /\ Carries(incoming[g[1]], incoming'[g[2]], a)
    <3>1. PICK k \in 1 .. N - 1 : g = <<k + 1, k>>
      OBVIOUS
    <3>2. g[1] = k + 1 /\ g[2] = k
      BY <3>1
    <3>3. incoming'[g[2]] = incoming[g[1]]
      BY <1>2, <3>2
    <3>4. g[1] \in 2 .. N /\ g[2] \in 1 .. Len(incoming') /\ g[1] = g[2] + 1
      BY <1>2, <3>2
    <3>5. Carries(incoming[g[1]], incoming'[g[2]], a)
      BY <3>3 DEF Carries
    <3> QED  BY <3>4, <3>5
  <2>2. ASSUME NEW i \in 2 .. N PROVE \E g \in G : g[1] = i
    <3>1. i - 1 \in 1 .. N - 1 /\ (i - 1) + 1 = i
      BY <1>2
    <3>2. <<(i - 1) + 1, i - 1>> \in G
      BY <3>1
    <3> HIDE DEF G
    <3> QED  BY <3>1, <3>2
  <2>3. ASSUME NEW k \in 1 .. Len(incoming') PROVE \E g \in G : g[2] = k
    <3>1. <<k + 1, k>> \in G
      BY <1>2
    <3> HIDE DEF G
    <3> QED  BY <3>1
  <2> HIDE DEF G
  <2>4. \A g \in G : \A f \in G : g[1] = f[1] <=> g[2] = f[2]
    <3> SUFFICES ASSUME NEW g \in G, NEW f \in G PROVE g[1] = f[1] <=> g[2] = f[2]
      OBVIOUS
    <3>1. /\ g[1] = g[2] + 1 /\ f[1] = f[2] + 1 /\ g[2] \in Nat /\ f[2] \in Nat
      BY <2>1
    <3> QED  BY <3>1
  <2> QED  BY <2>1, <2>2, <2>3, <2>4, RowMoves
<1>8. F1 \cap F2 = {} /\ O \cap (F1 \cup F2) = {}
  <2>1. \A x \in O : x[1] \in {"rest", "path", "tree"}
    BY CopiesAt, RowAt
  <2>2. \A x \in F1 : x[1] = "stash" \/ (x[1] = "incoming" /\ x[2] = 1)
    BY CopiesAt
  <2>3. \A x \in F2 : x[1] = "incoming" /\ x[2] \in 2 .. N
    BY RowAt
  <2>4. 1 \notin 2 .. N
    BY <1>2
  <2> HIDE DEF O, F1, F2
  <2> QED  BY <2>1, <2>2, <2>3, <2>4
<1> HIDE DEF O, F1, F2, T1, T2
<1>10. Moves(F1 \cup F2, T1 \cup T2)
  BY <1>6, <1>7, <1>8, MovesTogether
<1>11. StillOne(O \cup (F1 \cup F2), O \cup (T1 \cup T2), oracle[a])
  BY <1>8, <1>10, OneCopyMoves, Zenon
<1> QED  BY <1>4, <1>5, <1>11, Zenon

\* When the stash is read or changed, nothing but the stash has the address.
LEMMA OnlyTheStash ==
    ASSUME IInv, CallState, AccessedOnOldPath, ~ failed, cpc = "push", incoming = << >>
    PROVE  /\ LiveCopies(call.addr) = CopiesIn(stash, "stash", 0, call.addr)
           /\ \A a : LiveCopies(a) = CopiesIn(stash, "stash", 0, a) \cup CopiesInRow(tree, Counted, "tree", a)
           /\ CopiesInRow(tree, Counted, "tree", call.addr) = {}
<1>0. TypeOK /\ Conversation
  BY DEF IInv
<1>1. rest = << >> /\ pathBuckets = NoPath
  BY <1>0 DEF CallState, Conversation, TypeOK
<1>2. ASSUME NEW a
      PROVE  LiveCopies(a) = CopiesIn(stash, "stash", 0, a) \cup CopiesInRow(tree, Counted, "tree", a)
  BY <1>1, NoCopies DEF LiveCopies
<1>3. CopiesInRow(tree, Counted, "tree", call.addr) = {}
  <2>1. ASSUME NEW n \in Counted PROVE At(tree[n], call.addr) = {}
    BY DEF Counted, PathInHand, AccessedOnOldPath, At
  <2> QED  BY <2>1, RowAt
<1> QED  BY <1>2, <1>3

\* The path in the client's hands had all its buckets.
LEMMA ReadPathNotLost ==
    ASSUME PathReadWasThere, ~ failed, cpc = "push"
    PROVE  ~ OnLostBucket(call.addr)
<1>1. LeafOf(call.addr) = oldLeaf
  BY DEF LeafOf
<1> QED  BY <1>1 DEF OnLostBucket, OnPath, PathReadWasThere

LEMMA AccessStashCopies ==
    ASSUME IInv, CallState, AccessedOnOldPath, PathReadWasThere, OneCurrentCopy, AccessStash, tree' = tree,
           oracle' = IF call.op = "WRITE" THEN [oracle EXCEPT ![call.addr] = call.data] ELSE oracle
    PROVE  OneCurrentCopy'
<1>0. TypeOK
  BY DEF IInv
<1>1. /\ cpc = "push" /\ incoming = << >> /\ cpc' = "evict" /\ stash' = << >>
      /\ UNCHANGED <<posMap, call, oldLeaf, incoming, pathBuckets, failed>>
  BY DEF AccessStash
<1> SUFFICES ASSUME ~ failed, NEW a \in Addr
             PROVE  OneCopy(LiveCopies(a)', oracle'[a]) /\ (LiveCopies(a)' = {} => MayHaveNone(a)')
  BY <1>1 DEF OneCurrentCopy, OneCopy, MayHaveNone
<1>2. call.addr \in Addr /\ call.data \in Data /\ stash \in Seq(Block) /\ oracle \in [Addr -> Data]
  BY <1>0, <1>1, CallShapes DEF CallState, TypeOK
<1> DEFINE O == CopiesInRow(tree, Counted, "tree", a)
           F == CopiesIn(stash, "stash", 0, a)
           T == CopiesIn(rest', "rest", 0, a)
<1>3. LiveCopies(a) = O \cup F
  BY <1>1, OnlyTheStash
<1>4. LiveCopies(a)' = O \cup T
  <2>1. Counted' = Counted
    BY <1>1 DEF Counted, PathInHand, OnPath
  <2>2. pathBuckets' = NoPath
    BY <1>0, <1>1 DEF IInv, Conversation, TypeOK
  <2>3. /\ CopiesIn(stash', "stash", 0, a) = {}
        /\ CopiesInRow(incoming', 1 .. Len(incoming'), "incoming", a) = {}
        /\ CopiesInRow(pathBuckets', Levels, "path", a) = {}
    BY <1>1, <2>2, NoCopies
  <2> QED  BY <2>1, <2>3 DEF LiveCopies
<1>5. O \cap F = {}
  <2>1. (\A x \in O : x[1] = "tree") /\ (\A x \in F : x[1] = "stash")
    BY CopiesAt, RowAt
  <2> HIDE DEF O, F
  <2> QED  BY <2>1
<1>6. OneCopy(O \cup F, oracle[a]) /\ (O \cup F = {} => MayHaveNone(a))
  BY <1>3 DEF OneCurrentCopy, OneCopy, MayHaveNone
<1>7. ASSUME Carries(stash, rest', a), oracle'[a] = oracle[a]
      PROVE  OneCopy(LiveCopies(a)', oracle'[a]) /\ (LiveCopies(a)' = {} => MayHaveNone(a)')
  <2>1. Moves(F, T)
    BY <1>7, CarriesMoves
  <2>2. MayHaveNone(a) => MayHaveNone(a)'
    <3>1. CASE a = call.addr
      BY <1>1, <1>7, <3>1, ReadPathNotLost DEF MayHaveNone
    <3>2. CASE a # call.addr
      <4>1. LeafOf(a)' = LeafOf(a)
        BY <1>1, <3>2 DEF LeafOf
      <4>2. OnLostBucket(a) => OnLostBucket(a)'
        BY <4>1 DEF OnLostBucket, OnPath
      <4> QED  BY <1>7, <4>2 DEF MayHaveNone
    <3> QED  BY <3>1, <3>2
  <2> HIDE DEF O, F, T
  <2>3. StillOne(O \cup F, O \cup T, oracle[a])
    BY <1>5, <2>1, OneCopyMoves
  <2> QED  BY <1>4, <1>6, <1>7, <2>2, <2>3 DEF StillOne
<1>8. CASE call.op = "READ"
  <2>1. rest' = stash /\ oracle' = oracle
    BY <1>8 DEF AccessStash
  <2> QED  BY <1>7, <2>1 DEF Carries
<1>9. CASE call.op = "WRITE"
  <2> DEFINE kept == WithoutId(stash, call.addr)
             block == [id |-> call.addr, data |-> call.data]
  <2>1. rest' = Append(kept, block) /\ oracle' = [oracle EXCEPT ![call.addr] = call.data]
    BY <1>9 DEF AccessStash
  <2>2. kept \in Seq({b \in Block : b.id # call.addr}) /\ kept \in Seq(Block) /\ block \in Block
    <3>1. block \in Block
      BY <1>2 DEF Block
    <3>2. kept \in Seq({b \in Block : b.id # call.addr})
      BY <1>2, WithoutIdType
    <3>3. kept \in Seq(Block)
      BY <1>2, WithoutAddrType
    <3> QED  BY <3>1, <3>2, <3>3
  <2>3. /\ Len(rest') = Len(kept) + 1 /\ rest'[Len(kept) + 1] = block
        /\ \A k \in 1 .. Len(kept) : rest'[k] = kept[k]
        /\ At(rest', a) = At(kept, a) \cup (IF call.addr = a THEN {Len(kept) + 1} ELSE {})
    <3> HIDE DEF kept
    <3> QED  BY <2>1, <2>2, AtAppend
  <2>4. CASE a # call.addr
    <3>1. Carries(stash, kept, a)
      BY <1>2, <2>4, WithoutIdKeeps
    <3>2. At(rest', a) = At(kept, a) /\ \A k \in At(kept, a) : rest'[k] = kept[k]
      BY <2>3, <2>4 DEF At
    <3>3. Carries(stash, rest', a)
      <4> HIDE DEF kept
      <4> QED  BY <3>1, <3>2 DEF Carries
    <3>4. oracle'[a] = oracle[a]
      BY <1>2, <2>1, <2>4
    <3> QED  BY <1>7, <3>3, <3>4
  <2>5. CASE a = call.addr
    <3>1. At(kept, a) = {}
      <4>1. \A k \in 1 .. Len(kept) : kept[k].id # call.addr
        BY <2>2
      <4> QED  BY <2>5, <4>1 DEF At
    <3>2. T = {<<"rest", 0, Len(kept) + 1, call.data>>}
      BY <2>3, <2>5, <3>1, CopiesAt
    <3>3. O = {}
      BY <1>1, <2>5, OnlyTheStash
    <3>4. oracle'[a] = call.data
      BY <1>2, <2>1, <2>5
    <3> DEFINE c == <<"rest", 0, Len(kept) + 1, call.data>>
    <3>5. c[4] = call.data
      OBVIOUS
    <3> HIDE DEF O, T, c, kept, block
    <3>6. LiveCopies(a)' = {c}
      BY <1>4, <3>2, <3>3 DEF c, kept
    <3> QED  BY <3>4, <3>5, <3>6 DEF OneCopy
  <2> QED  BY <2>4, <2>5
<1> QED  BY <1>8, <1>9 DEF AccessStash

LEMMA EvictBlockCopies ==
    ASSUME IInv, OneCurrentCopy, EvictBlock, UNCHANGED <<tree, oracle>>
    PROVE  OneCurrentCopy'
<1>0. TypeOK
  BY DEF IInv
<1> DEFINE block == Head(rest)
           fits == Fits(posMap[block.id])
<1>1. /\ rest # << >> /\ rest' = Tail(rest) /\ UNCHANGED <<cpc, oldLeaf, incoming, failed>>
      /\ \/ stash' = Append(stash, block) /\ UNCHANGED pathBuckets
         \/ \E i \in fits : /\ pathBuckets' = [pathBuckets EXCEPT ![i] = Append(@, block)]
                            /\ UNCHANGED stash
  BY DEF EvictBlock
<1> SUFFICES ASSUME ~ failed, NEW a \in Addr PROVE StillOne(LiveCopies(a), LiveCopies(a)', oracle[a])
  <2>1. \A a \in Addr : LeafOf(a)' = LeafOf(a)
    BY DEF EvictBlock, LeafOf
  <2> QED  BY <1>1, <2>1, SameCopies
<1>2. /\ stash \in Seq(Block) /\ rest \in Seq(Block) /\ block \in Block
      /\ pathBuckets \in [Levels -> Seq(Block)] /\ fits \subseteq Levels
  BY <1>0, <1>1 DEF TypeOK, Fits
<1> DEFINE Incoming == CopiesInRow(incoming, 1 .. Len(incoming), "incoming", a)
           OnDisk == CopiesInRow(tree, Counted, "tree", a)
           Path(row, D) == CopiesInRow(row, D, "path", a)
           Stash == CopiesIn(stash, "stash", 0, a)
           First == FirstCopy(block, "rest", 0, a)
           Last == CopiesIn(rest', "rest", 0, a)
<1> HIDE DEF block
<1>3. PICK Later : /\ CopiesIn(rest, "rest", 0, a) = First \cup Later
                   /\ First \cap Later = {} /\ Moves(Later, Last)
  BY <1>1, <1>2, TailMoves DEF block
<1>4. LiveCopies(a) = Stash \cup (First \cup Later) \cup Incoming \cup Path(pathBuckets, Levels) \cup OnDisk
  BY <1>3 DEF LiveCopies
<1>5. LiveCopies(a)' = CopiesIn(stash', "stash", 0, a) \cup Last \cup Incoming
                       \cup Path(pathBuckets', Levels) \cup OnDisk
  <2>1. Counted' = Counted
    BY <1>1 DEF Counted, PathInHand, OnPath
  <2> QED  BY <1>1, <2>1 DEF LiveCopies
<1>7. /\ \A x \in First \cup Later : x[1] = "rest"
      /\ \A x \in Stash : x[1] = "stash"
      /\ \A x \in Incoming : x[1] = "incoming"
      /\ \A x \in OnDisk : x[1] = "tree"
      /\ \A row : \A D : \A x \in Path(row, D) : x[1] = "path" /\ x[2] \in D
  <2>1. \A x \in First \cup Later : x[1] = "rest"
    BY <1>3, CopiesAt
  <2> QED  BY <2>1, CopiesAt, RowAt
<1>8. CASE stash' = Append(stash, block) /\ UNCHANGED pathBuckets
  <2> DEFINE O == Incoming \cup Path(pathBuckets, Levels) \cup OnDisk
             T == CopiesIn(stash', "stash", 0, a)
  <2>1. Moves(Stash \cup First, T)
    BY <1>2, <1>8, AppendMoves
  <2> HIDE DEF Stash, Incoming, Path, OnDisk, First, Last
  <2>2. (Stash \cup First) \cap Later = {} /\ O \cap ((Stash \cup First) \cup Later) = {}
    BY <1>3, <1>7
  <2>3. LiveCopies(a) = O \cup ((Stash \cup First) \cup Later)
    BY <1>4
  <2>4. LiveCopies(a)' = O \cup (T \cup Last)
    BY <1>5, <1>8
  <2> HIDE DEF O, T
  <2>5. Moves((Stash \cup First) \cup Later, T \cup Last)
    BY <1>3, <2>1, <2>2, MovesTogether, Zenon
  <2>6. StillOne(O \cup ((Stash \cup First) \cup Later), O \cup (T \cup Last), oracle[a])
    BY <2>2, <2>5, OneCopyMoves, Zenon
  <2> QED  BY <2>3, <2>4, <2>6, Zenon
<1>9. ASSUME NEW i \in fits, pathBuckets' = [pathBuckets EXCEPT ![i] = Append(@, block)], UNCHANGED stash
      PROVE  StillOne(LiveCopies(a), LiveCopies(a)', oracle[a])
  <2> DEFINE Others == Levels \ {i}
             Bucket == CopiesIn(pathBuckets[i], "path", i, a)
             T == CopiesIn(Append(pathBuckets[i], block), "path", i, a)
             O == Stash \cup Incoming \cup Path(pathBuckets, Others) \cup OnDisk
  <2>1. i \in Levels /\ pathBuckets[i] \in Seq(Block) /\ Levels = Others \cup {i}
    BY <1>2
  <2>2. pathBuckets'[i] = Append(pathBuckets[i], block) /\ \A l \in Others : pathBuckets[l] = pathBuckets'[l]
    BY <1>2, <1>9, <2>1
  <2>3. Moves(Bucket \cup First, T)
    BY <1>2, <2>1, AppendMoves
  <2>4. Path(pathBuckets, Levels) = Path(pathBuckets, Others) \cup Bucket
    <3>1. Path(pathBuckets, {i}) = Bucket
      BY DEF CopiesInRow
    <3> HIDE DEF Others, Bucket
    <3> QED  BY <2>1, <3>1, RowSplit
  <2>5. Path(pathBuckets', Levels) = Path(pathBuckets, Others) \cup T
    <3>1. Path(pathBuckets', {i}) = T
      BY <2>2 DEF CopiesInRow
    <3>2. Path(pathBuckets', Others) = Path(pathBuckets, Others)
      BY <2>2, RowSame
    <3> HIDE DEF Others, T
    <3> QED  BY <2>1, <3>1, <3>2, RowSplit
  <2>6. \A x \in Bucket : x[1] = "path" /\ x[2] = i
    BY CopiesAt
  <2> HIDE DEF Stash, Incoming, Path, OnDisk, First, Last, Bucket, T
  <2>7. (Bucket \cup First) \cap Later = {}
    BY <1>3, <1>7, <2>6
  <2>8. O \cap ((Bucket \cup First) \cup Later) = {}
    BY <1>7, <2>6
  <2>9. LiveCopies(a) = O \cup ((Bucket \cup First) \cup Later)
    BY <1>4, <2>4
  <2>10. LiveCopies(a)' = O \cup (T \cup Last)
    BY <1>5, <1>9, <2>5 DEF Stash
  <2> HIDE DEF O
  <2>11. Moves((Bucket \cup First) \cup Later, T \cup Last)
    BY <1>3, <2>3, <2>7, MovesTogether, Zenon
  <2>12. StillOne(O \cup ((Bucket \cup First) \cup Later), O \cup (T \cup Last), oracle[a])
    BY <2>8, <2>11, OneCopyMoves, Zenon
  <2> QED  BY <2>9, <2>10, <2>12, Zenon
<1> QED  BY <1>1, <1>8, <1>9

LEMMA ReturnCopies ==
    ASSUME IInv, CallState, PathBeingWritten, OneCurrentCopy, Return, UNCHANGED <<tree, oracle>>
    PROVE  OneCurrentCopy'
<1> USE Constants
<1>0. TypeOK /\ Conversation /\ PlacedInTransit
  BY DEF IInv
<1>1. /\ cpc = "writePath" /\ resp.cmd = "ack" /\ cpc' = "idle" /\ pathBuckets' = NoPath
      /\ UNCHANGED <<posMap, stash, incoming, rest, failed>>
  BY DEF Return, EndOfCall
<1> SUFFICES ASSUME ~ failed, NEW a \in Addr
             PROVE  OneCopy(LiveCopies(a)', oracle[a]) /\ (LiveCopies(a)' = {} => MayHaveNone(a)')
  BY <1>1 DEF OneCurrentCopy, OneCopy, MayHaveNone
<1> DEFINE Node(i) == PathNode(oldLeaf, i)
           Lost == {i \in Levels : tree[Node(i)] = << >>}
           Kept == {i \in Levels : tree[Node(i)] # << >>}
           None == {n \in Nodes : OnPath(n, oldLeaf) /\ tree[n] = << >>}
           On   == {n \in Nodes : OnPath(n, oldLeaf) /\ tree[n] # << >>}
           Off  == {n \in Nodes : ~ OnPath(n, oldLeaf)}
           O == CopiesIn(stash, "stash", 0, a) \cup CopiesIn(rest, "rest", 0, a)
                \cup CopiesInRow(incoming, 1 .. Len(incoming), "incoming", a)
                \cup CopiesInRow(tree, Off, "tree", a)
           F == CopiesInRow(pathBuckets, Kept, "path", a)
           L == CopiesInRow(pathBuckets, Lost, "path", a)
           T == CopiesInRow(tree, On, "tree", a)
           G == {<<i, Node(i)>> : i \in Kept}
<1>2. oldLeaf \in Leaves /\ pathBuckets \in [Levels -> Seq(Block)]
      /\ \A i \in Levels : Len(pathBuckets[i]) <= BucketSize
  BY <1>0 DEF TypeOK
<1>3. \A i \in Kept : tree[Node(i)] = FillBucketWithDummies(pathBuckets[i])
  <2>1. req.cmd # "T"
    BY <1>0, <1>1 DEF Conversation, NoMsg, Rest
  <2> QED  BY <1>1, <2>1 DEF PathBeingWritten
<1>4. Counted = Off /\ Counted' = On \cup (None \cup Off)
  BY <1>1 DEF Counted, PathInHand, OnPath
<1>5. LiveCopies(a) = (O \cup F) \cup L
  <2>1. Levels = Kept \cup Lost
    OBVIOUS
  <2>2. CopiesInRow(pathBuckets, Levels, "path", a) = F \cup L
    <3> HIDE DEF Kept, Lost
    <3> QED  BY <2>1, RowSplit
  <2> HIDE DEF On, Off, F, L
  <2> QED  BY <1>4, <2>2 DEF LiveCopies
<1>6. LiveCopies(a)' = O \cup T
  <2>1. CopiesInRow(tree, On \cup (None \cup Off), "tree", a) = T \cup CopiesInRow(tree, None \cup Off, "tree", a)
    BY RowSplit
  <2>2. CopiesInRow(tree, None \cup Off, "tree", a)
          = CopiesInRow(tree, None, "tree", a) \cup CopiesInRow(tree, Off, "tree", a)
    BY RowSplit
  <2>3. CopiesInRow(tree, None, "tree", a) = {}
    BY RowEmpty
  <2>4. CopiesInRow(pathBuckets', Levels, "path", a) = {}
    BY <1>1, NoCopies
  <2> HIDE DEF On, None, Off
  <2> QED  BY <1>1, <1>4, <2>1, <2>2, <2>3, <2>4 DEF LiveCopies
<1>7. O \cap F = {} /\ (O \cup F) \cap L = {}
  <2>1. \A x \in O : x[1] \in {"stash", "rest", "incoming", "tree"}
    BY CopiesAt, RowAt
  <2>2. \A x \in F : x[1] = "path" /\ x[2] \in Kept
    BY RowAt
  <2>3. \A x \in L : x[1] = "path" /\ x[2] \in Lost
    BY RowAt
  <2>4. Kept \cap Lost = {}
    OBVIOUS
  <2> HIDE DEF O, F, L, Kept, Lost
  <2> QED  BY <2>1, <2>2, <2>3, <2>4
<1>8. ASSUME NEW i \in Kept
      PROVE  Carries(pathBuckets[i], tree[Node(i)], a)
  <2> DEFINE b == pathBuckets[i]
             full == FillBucketWithDummies(b)
  <2>1. b \in Seq(Block) /\ Len(b) <= BucketSize /\ Len(b) \in Nat
    BY <1>2
  <2>2. /\ Len(full) = BucketSize
        /\ \A k \in 1 .. BucketSize : full[k] = IF k <= Len(b) THEN b[k] ELSE Dummy
    BY <2>1, FilledBucket
  <2>3. Dummy.id # a
    BY DummyType, AddrNotDummy
  <2> HIDE DEF b, full
  <2>4. At(full, a) = At(b, a) /\ \A k \in At(b, a) : full[k] = b[k]
    BY <2>1, <2>2, <2>3 DEF At
  <2>5. Carries(b, full, a)
    BY <2>4 DEF Carries
  <2> QED  BY <1>3, <2>5 DEF b, full
<1>9. Moves(F, T)
  <2>1. ASSUME NEW g \in G
        PROVE  /\ g[1] \in Kept /\ g[2] \in On /\ g[2] = Node(g[1])
               /\ Carries(pathBuckets[g[1]], tree[g[2]], a)
    <3>1. PICK i \in Kept : g = <<i, Node(i)>>
      OBVIOUS
    <3>2. Node(i) \in On
      BY <1>2, PathNodeInTree DEF OnPath
    <3> HIDE DEF On, Kept, Node
    <3> QED  BY <1>8, <3>1, <3>2
  <2>2. ASSUME NEW i \in Kept PROVE \E g \in G : g[1] = i
    <3>1. <<i, Node(i)>> \in G
      OBVIOUS
    <3> HIDE DEF G
    <3> QED  BY <3>1
  <2>3. ASSUME NEW n \in On PROVE \E g \in G : g[2] = n
    <3>1. PICK i \in Kept : n = Node(i)
      BY DEF OnPath
    <3>2. <<i, n>> \in G
      BY <3>1
    <3> HIDE DEF G
    <3> QED  BY <3>2
  <2>4. ASSUME NEW i \in Kept, NEW j \in Kept, Node(i) = Node(j)
        PROVE  i = j
    BY <1>2, <2>4, LevelsApart
  <2> HIDE DEF On, G, Kept, Node
  <2>5. \A g \in G : \A h \in G : g[1] = h[1] <=> g[2] = h[2]
    BY <2>1, <2>4
  <2> QED  BY <2>1, <2>2, <2>3, <2>5, RowMoves
<1>10. MayHaveNone(a) => MayHaveNone(a)'
  <2>1. LeafOf(a)' = LeafOf(a)
    BY <1>1 DEF LeafOf
  <2>2. OnLostBucket(a) => OnLostBucket(a)'
    BY <2>1 DEF OnLostBucket, OnPath
  <2> QED  BY <2>2 DEF MayHaveNone
<1>11. OneCopy((O \cup F) \cup L, oracle[a]) /\ ((O \cup F) \cup L = {} => MayHaveNone(a))
  BY <1>5 DEF OneCurrentCopy, OneCopy, MayHaveNone
<1>12. L # {} => OnLostBucket(a)'
  <2> SUFFICES ASSUME NEW x \in L PROVE OnLostBucket(a)'
    OBVIOUS
  <2>1. PICK i \in Lost : \E k \in At(pathBuckets[i], a) : x = <<"path", i, k, pathBuckets[i][k].data>>
    BY RowAt
  <2>2. PICK k \in 1 .. Len(pathBuckets[i]) : pathBuckets[i][k].id = a
    BY <2>1 DEF At
  <2>3. i \in Levels /\ tree[Node(i)] = << >> /\ Node(i) \in Nodes
    BY <1>2, PathNodeInTree
  <2>4. OnPath(Node(i), posMap[a])
    BY <1>0, <2>2, <2>3, AddrNotDummy DEF PlacedInTransit, Placed
  <2>5. LeafOf(a)' = posMap[a]
    BY <1>1 DEF LeafOf
  <2> HIDE DEF Node
  <2> QED  BY <2>3, <2>4, <2>5 DEF OnLostBucket, OnPath
<1> HIDE DEF O, F, L, T
<1>13. StillOne(O \cup F, O \cup T, oracle[a])
  BY <1>7, <1>9, OneCopyMoves
<1>14. CASE L = {}
  BY <1>6, <1>10, <1>11, <1>13, <1>14 DEF StillOne
<1>15. CASE L # {}
  <2>1. O = {} /\ F = {}
    BY <1>7, <1>11, <1>15 DEF OneCopy
  <2>2. T = {}
    BY <1>9, <2>1 DEF Moves
  <2> QED  BY <1>6, <1>12, <1>15, <2>1, <2>2 DEF OneCopy, MayHaveNone
<1> QED  BY <1>14, <1>15

\* Init stores block i in the bucket of leaf i, and nothing else.
LEMMA InitialTreeHolds ==
    ASSUME NEW s \in Seq(Block), NEW n \in Nodes
    PROVE  IF n >= LeafOffset /\ n - LeafOffset < Len(s)
           THEN /\ s[(n - LeafOffset) + 1] \in Block
                /\ Len(InitialTree(s)[n]) = BucketSize
                /\ InitialTree(s)[n][1] = s[(n - LeafOffset) + 1]
                /\ \A k \in 2 .. BucketSize : InitialTree(s)[n][k] = Dummy
           ELSE /\ Len(InitialTree(s)[n]) = BucketSize
                /\ \A k \in 1 .. BucketSize : InitialTree(s)[n][k] = Dummy
<1> USE Constants
<1> DEFINE leaf == n - LeafOffset
           c == IF n >= LeafOffset /\ leaf < Len(s) THEN <<s[leaf + 1]>> ELSE << >>
<1>1. InitialTree(s)[n] = FillBucketWithDummies(c)
  BY DEF InitialTree
<1>2. CASE n >= LeafOffset /\ leaf < Len(s)
  <2>1. leaf + 1 \in 1 .. Len(s)
    BY <1>2 DEF Nodes
  <2>2. s[leaf + 1] \in Block
    BY <2>1
  <2>3. c = <<s[leaf + 1]>>
    BY <1>2
  <2> HIDE DEF c, leaf
  <2>4. c \in Seq(Block) /\ Len(c) = 1 /\ c[1] = s[leaf + 1] /\ Len(c) <= BucketSize
    BY <2>2, <2>3
  <2>5. /\ Len(InitialTree(s)[n]) = BucketSize
        /\ \A k \in 1 .. BucketSize : InitialTree(s)[n][k] = IF k <= 1 THEN s[leaf + 1] ELSE Dummy
    <3>1. /\ Len(InitialTree(s)[n]) = BucketSize
          /\ \A k \in 1 .. BucketSize : InitialTree(s)[n][k] = IF k <= Len(c) THEN c[k] ELSE Dummy
      <4>1. /\ Len(FillBucketWithDummies(c)) = BucketSize
            /\ \A k \in 1 .. BucketSize :
                 FillBucketWithDummies(c)[k] = IF k <= Len(c) THEN c[k] ELSE Dummy
        BY <2>4, FilledBucket
      <4> QED  BY <1>1, <4>1
    <3>2. ASSUME NEW k \in 1 .. BucketSize
          PROVE  InitialTree(s)[n][k] = IF k <= 1 THEN s[leaf + 1] ELSE Dummy
      <4>1. CASE k <= 1
        <5>1. k = 1 /\ k <= Len(c)
          BY <2>4, <4>1
        <5> QED  BY <2>4, <3>1, <4>1, <5>1
      <4>2. CASE ~ k <= 1
        BY <2>4, <3>1, <4>2
      <4> QED  BY <4>1, <4>2
    <3> QED  BY <3>1, <3>2
  <2>6. 1 \in 1 .. BucketSize /\ \A k \in 2 .. BucketSize : k \in 1 .. BucketSize /\ ~ k <= 1
    OBVIOUS
  <2> QED  BY <1>2, <2>2, <2>5, <2>6 DEF leaf
<1>3. CASE ~ (n >= LeafOffset /\ leaf < Len(s))
  <2>1. c = << >>
    BY <1>3
  <2> HIDE DEF c
  <2>2. c \in Seq(Block) /\ Len(c) = 0 /\ Len(c) <= BucketSize
    BY <2>1
  <2>3. /\ Len(InitialTree(s)[n]) = BucketSize
        /\ \A k \in 1 .. BucketSize : InitialTree(s)[n][k] = IF k <= 0 THEN c[k] ELSE Dummy
    BY <1>1, <2>2, FilledBucket
  <2>4. \A k \in 1 .. BucketSize : ~ k <= 0
    OBVIOUS
  <2> QED  BY <1>3, <2>3, <2>4
<1> QED  BY <1>2, <1>3

LEMMA InitCopies ==
    ASSUME "torn" \notin Faults, Init
    PROVE  OneCurrentCopy
<1> SUFFICES ASSUME NEW a \in Addr
             PROVE  OneCopy(LiveCopies(a), oracle[a]) /\ (LiveCopies(a) = {} => MayHaveNone(a))
  BY DEF OneCurrentCopy, OneCopy, MayHaveNone
<1> USE Constants
<1>1. PICK n \in 0 .. NumBlocks :
        /\ n <= NumLeaves
        /\ oracle \in [Addr -> Data]
        /\ \A b \in Addr : b >= n => oracle[b] = Zero
        /\ tree \in WrittenTrees(InitialTree([k \in 1 .. n |-> [id |-> k - 1, data |-> oracle[k - 1]]]))
        /\ \A b \in 0 .. n - 1 : posMap[b] = b
        /\ ConstructClient(posMap)
  BY DEF Init, ConstructClient
<1> DEFINE s == [k \in 1 .. n |-> [id |-> k - 1, data |-> oracle[k - 1]]]
<1>2. s \in Seq(Block) /\ Len(s) = n /\ \A k \in 1 .. n : s[k].id = k - 1 /\ s[k].data = oracle[k - 1]
  <2>1. \A k \in 1 .. n : [id |-> k - 1, data |-> oracle[k - 1]] \in Block
    BY <1>1 DEF Block, Addr
  <2> HIDE DEF Block
  <2> QED  BY <2>1
<1> HIDE DEF s
<1>3. \A m \in Nodes : tree[m] = InitialTree(s)[m] \/ tree[m] = << >>
  <2>1. tree \in WrittenTrees(InitialTree(s))
    BY <1>1 DEF s
  <2>2. InitialTree(s) \in [Nodes -> Buckets]
    BY <1>2, InitialTreeType
  <2> QED  BY <2>1, <2>2, WrittenTreesType, WrittenFacts
<1>4. LiveCopies(a) = CopiesInRow(tree, Nodes, "tree", a)
  <2>1. stash = << >> /\ rest = << >> /\ incoming = << >> /\ pathBuckets = NoPath /\ cpc = "idle"
    BY <1>1 DEF ConstructClient
  <2>2. Counted = Nodes
    BY <2>1 DEF Counted, PathInHand
  <2> QED  BY <2>1, <2>2, NoCopies DEF LiveCopies
<1> DEFINE home == LeafOffset + a
<1>5. a # DummyId /\ Dummy.id = DummyId /\ a \in Nat
  BY AddrNotDummy, DummyType DEF Addr
<1>6. ASSUME NEW m \in Nodes, NEW k \in At(tree[m], a)
      PROVE  /\ a < n /\ m = home /\ k = 1 /\ tree[m][1].data = oracle[a]
  <2>0. tree[m] = InitialTree(s)[m]
    <3>1. tree[m] # << >>
      BY DEF At
    <3> QED  BY <1>3, <3>1
  <2>1. /\ k \in 1 .. BucketSize /\ tree[m][k].id = a
        /\ m >= LeafOffset /\ m - LeafOffset < Len(s) /\ tree[m][1] = s[(m - LeafOffset) + 1]
    BY <1>2, <1>5, <2>0, InitialTreeHolds DEF At
  <2>2. k = 1
    <3>1. k \in 2 .. BucketSize => tree[m][k] = Dummy
      BY <1>2, <2>0, <2>1, InitialTreeHolds
    <3> QED  BY <1>5, <2>1, <3>1
  <2> DEFINE l == m - LeafOffset
  <2>3. l \in 0 .. n - 1 /\ l + 1 \in 1 .. n /\ (l + 1) - 1 = l /\ m = LeafOffset + l
    <3>1. m \in Nat /\ LeafOffset \in Nat /\ n \in Nat /\ m >= LeafOffset /\ m - LeafOffset < n
      BY <1>2, <2>1, Constants DEF Nodes
    <3> QED  BY <3>1
  <2>4. s[l + 1].id = l /\ s[l + 1].data = oracle[l]
    BY <1>2, <2>3
  <2> HIDE DEF l
  <2>5. tree[m][1] = s[l + 1]
    BY <2>1 DEF l
  <2> QED  BY <2>1, <2>2, <2>3, <2>4, <2>5
<1>7. CASE a >= n
  <2>1. ASSUME NEW m \in Nodes PROVE At(tree[m], a) = {}
    <3> SUFFICES ASSUME NEW k \in At(tree[m], a) PROVE FALSE
      OBVIOUS
    <3>1. a < n
      BY <1>6
    <3> QED  BY <1>5, <1>7, <3>1
  <2>2. LiveCopies(a) = {}
    BY <1>4, <2>1, RowAt
  <2> QED  BY <1>1, <1>7, <2>2 DEF OneCopy, MayHaveNone
<1>8. (home \in Nodes /\ home - LeafOffset = a /\ home >= LeafOffset) \/ a >= n
  BY <1>1, <1>5 DEF Nodes
<1>9. CASE a < n /\ tree[home] = << >>
  <2>0. home \in Nodes
    BY <1>1, <1>5, <1>8, <1>9
  <2>1. ASSUME NEW m \in Nodes PROVE At(tree[m], a) = {}
    <3> SUFFICES ASSUME NEW k \in At(tree[m], a) PROVE FALSE
      OBVIOUS
    <3>1. m = home
      BY <1>6
    <3> HIDE DEF home
    <3> QED  BY <1>9, <3>1 DEF At
  <2>2. LiveCopies(a) = {}
    BY <1>4, <2>1, RowAt
  <2>3. LeafOf(a) = a
    BY <1>1, <1>5, <1>9 DEF LeafOf, ConstructClient
  <2>4. OnPath(home, a)
    <3>1. a \in Leaves /\ PathNode(a, 0) = home /\ 0 \in Levels
      BY <1>1, <1>5, <1>9, PathNodeStep DEF Levels, Leaves
    <3> HIDE DEF home
    <3> QED  BY <3>1 DEF OnPath
  <2> QED  BY <1>9, <2>0, <2>2, <2>3, <2>4 DEF OneCopy, MayHaveNone, OnLostBucket
<1>10. CASE a < n /\ tree[home] # << >>
  <2>1. home \in Nodes /\ home - LeafOffset = a /\ home >= LeafOffset
    BY <1>1, <1>5, <1>8, <1>10
  <2>2. Len(tree[home]) = BucketSize /\ tree[home][1] = s[a + 1]
    BY <1>2, <1>3, <1>10, <2>1, InitialTreeHolds
  <2>3. s[a + 1].id = a
    BY <1>1, <1>2, <1>5, <1>10
  <2>4. 1 \in At(tree[home], a)
    BY <2>2, <2>3 DEF At
  <2> DEFINE c == <<"tree", home, 1, tree[home][1].data>>
  <2>5. c \in LiveCopies(a)
    BY <1>4, <2>1, <2>4, RowAt
  <2>6. ASSUME NEW x \in LiveCopies(a) PROVE x = c
    <3>1. PICK m \in Nodes : \E k \in At(tree[m], a) : x = <<"tree", m, k, tree[m][k].data>>
      BY <1>4, RowAt
    <3> HIDE DEF home
    <3> QED  BY <1>6, <3>1
  <2>7. c[4] = oracle[a]
    BY <1>6, <2>1, <2>4
  <2> HIDE DEF c
  <2> QED  BY <2>5, <2>6, <2>7 DEF OneCopy
<1> QED  BY <1>1, <1>5, <1>7, <1>9, <1>10

LEMMA CopiesKept ==
    ASSUME "torn" \notin Faults, RInv, [Next]_vars
    PROVE  OneCurrentCopy'
<1> USE DEF RInv
<1>1. CASE ServerNext
  BY <1>1, ServerCopies
<1>2. CASE NetworkNext \/ Terminated \/ UNCHANGED vars
  <2>1. UNCHANGED <<tree, oracle>>
    BY <1>2 DEF NetworkNext, Terminated, vars, serverVars
  <2> QED  BY <1>2, <2>1, QuietCopies
<1>3. CASE ClientNext
  <2>1. tree' = tree
    BY <1>3 DEF ClientNext, serverVars
  <2>2. CASE /\ \/ \E c \in Calls : Access(c)
                \/ WritePath \/ DestroyClient
             /\ oracle' = oracle
    BY <2>1, <2>2, QuietCopies
  <2>3. CASE (ReadPathFromServer \/ ReadPath \/ EvictBlock \/ Return) /\ oracle' = oracle
    BY <2>1, <2>3, ReadPathFromServerCopies, ReadPathCopies, EvictBlockCopies, ReturnCopies
  <2>4. CASE Throw
    BY <2>4 DEF Throw, OneCurrentCopy
  <2>5. CASE AccessStash
    <3>1. oracle' = IF call.op = "WRITE" THEN [oracle EXCEPT ![call.addr] = call.data] ELSE oracle
      BY <1>3, <2>5 DEF ClientNext, Access, ReadPathFromServer, ReadPath, AccessStash, EvictBlock, WritePath,
                        Return, Throw, EndOfCall, DestroyClient
    <3> QED  BY <2>1, <2>5, <3>1, AccessStashCopies
  <2> QED  BY <1>3, <2>2, <2>3, <2>4, <2>5 DEF ClientNext
<1> QED  BY <1>1, <1>2, <1>3 DEF Next

\* RInv is inductive.
THEOREM RInvInductive ==
    ASSUME "torn" \notin Faults
    PROVE  (Init => RInv) /\ (RInv /\ [Next]_vars => RInv')
<1>1. Init => RInv
  BY InitIInv, InitRest, InitCopies DEF RInv
<1>2. ASSUME RInv, [Next]_vars PROVE RInv'
  BY <1>2, IInvPreserved, CallStateKept, AccessedOnOldPathKept, PathReadWasThereKept,
     PathBeingWrittenKept, CopiesKept DEF RInv
<1> QED  BY <1>1, <1>2

\* The strengthened invariant holds in every reachable state, whatever fails, as
\* long as no file is cut off after its count.
THEOREM CopiesInvariance ==
    ASSUME "torn" \notin Faults
    PROVE  Spec => []RInv
BY RInvInductive, PTL DEF Spec

\* While no call has thrown, every address has one live copy, with the value
\* last written, or none: it was never written, or a bucket on the way to it
\* never reached its file and every read of that path will be refused.
THEOREM CopiesAreCurrent ==
    ASSUME "torn" \notin Faults
    PROVE  Spec => []OneCurrentCopy
<1>1. RInv => OneCurrentCopy
  BY DEF RInv
<1> QED  BY <1>1, CopiesInvariance, PTL

-----------------------------------------------------------------------------
\* What the client finds in the stash is what was last written.
LEMMA StashIsCurrent ==
    ASSUME RInv, ~ failed, cpc = "push", incoming = << >>
    PROVE  DataOf(stash, call.addr) = oracle[call.addr]
<1> DEFINE a == call.addr
           First(k) == stash[k].id = a /\ \A j \in 1 .. k - 1 : stash[j].id # a
<1>1. a \in Addr
  BY CallShapes DEF RInv, CallState
<1>2. LiveCopies(a) = CopiesIn(stash, "stash", 0, a)
  BY OnlyTheStash DEF RInv
<1>3. /\ OneCopy(CopiesIn(stash, "stash", 0, a), oracle[a])
      /\ CopiesIn(stash, "stash", 0, a) = {} => MayHaveNone(a)
  BY <1>1, <1>2 DEF RInv, OneCurrentCopy, OneCopy, MayHaveNone
<1>4. CASE At(stash, a) = {}
  <2>1. CopiesIn(stash, "stash", 0, a) = {}
    BY <1>4, CopiesAt
  <2>2. oracle[a] = Zero
    BY <1>3, <2>1, ReadPathNotLost DEF MayHaveNone, RInv
  <2>3. ~ \E k \in 1 .. Len(stash) : stash[k].id = a
    BY <1>4 DEF At
  <2> QED  BY <2>2, <2>3 DEF DataOf
<1>5. CASE At(stash, a) # {}
  <2>1. PICK k \in At(stash, a) : TRUE
    BY <1>5
  <2>2. ASSUME NEW j \in At(stash, a)
        PROVE  j = k /\ stash[j].data = oracle[a]
    <3> DEFINE c(m) == <<"stash", 0, m, stash[m].data>>
    <3>1. c(j) \in CopiesIn(stash, "stash", 0, a) /\ c(k) \in CopiesIn(stash, "stash", 0, a)
      BY <2>1, CopiesAt
    <3>2. c(j) = c(k) /\ c(j)[4] = oracle[a]
      <4> HIDE DEF c
      <4> QED  BY <1>3, <3>1 DEF OneCopy
    <3> QED  BY <3>2
  <2>3. k \in 1 .. Len(stash) /\ stash[k].id = a
    BY <2>1 DEF At
  <2>4. First(k)
    <3>1. stash \in Seq(Block)
      BY DEF RInv, IInv, TypeOK
    <3>2. ASSUME NEW j \in 1 .. k - 1, stash[j].id = a PROVE FALSE
      <4>1. j \in At(stash, a) /\ j # k
        BY <2>3, <3>1, <3>2 DEF At
      <4> QED  BY <2>2, <4>1
    <3> QED  BY <2>3, <3>2
  <2> DEFINE first == CHOOSE m \in 1 .. Len(stash) : First(m)
  <2>5. first \in 1 .. Len(stash) /\ First(first)
    <3> HIDE DEF First
    <3> QED  BY <2>3, <2>4
  <2>6. first = k
    <3> HIDE DEF first
    <3> QED  BY <2>2, <2>5 DEF At
  <2>7. DataOf(stash, a) = stash[first].data
    BY <2>3 DEF DataOf
  <2> HIDE DEF first
  <2> QED  BY <2>1, <2>2, <2>6, <2>7
<1> QED  BY <1>4, <1>5

LEMMA NoCallApart ==
    ASSUME NEW c \in Calls
    PROVE  c # NoCall
<1>1. c.op \in {"READ", "WRITE"} /\ NoCall.op = "none"
  BY CallShapes DEF NoCall
<1> QED  BY <1>1

\* Each step of the system is a step of the RAM or leaves it alone: a call is
\* invoked by Access, takes effect in AccessStash, and ends in Return or Throw.
THEOREM StepRefinesRAM == RInv /\ [Next]_vars => [Memory!RAMNext]_(Memory!ramVars)
<1> SUFFICES ASSUME RInv, [Next]_vars
             PROVE  Memory!RAMNext \/ UNCHANGED <<oracle, call, result, failed>>
  BY DEF Memory!ramVars
<1> USE Constants
<1>0. TypeOK /\ CallState
  BY DEF RInv, IInv
<1>1. CASE ServerNext
  BY <1>1 DEF ServerNext, clientVars
<1>2. CASE NetworkNext \/ Terminated \/ UNCHANGED vars
  BY <1>2 DEF NetworkNext, Terminated, vars, clientVars
<1>3. ASSUME NEW c \in Calls, Access(c), oracle' = oracle
      PROVE  Memory!RAMInvoke(c)
  <2>1. call = NoCall /\ call' = c /\ UNCHANGED <<result, failed>>
    BY <1>0, <1>3 DEF Access, CallState
  <2> QED  BY <1>3, <2>1 DEF Memory!RAMInvoke
<1>4. ASSUME AccessStash,
             oracle' = IF call.op = "WRITE" THEN [oracle EXCEPT ![call.addr] = call.data] ELSE oracle
      PROVE  Memory!RAMPerform
  <2>1. /\ cpc = "push" /\ incoming = << >> /\ UNCHANGED <<call, failed>>
        /\ \/ call.op = "READ" /\ result' = DataOf(stash, call.addr)
           \/ call.op = "WRITE" /\ result' = call.data
    BY <1>4 DEF AccessStash
  <2>2. call \in Calls /\ result = NoResult /\ ~ failed
    BY <1>0, <2>1 DEF CallState
  <2>3. call # NoCall
    BY <2>2, NoCallApart
  <2>4. DataOf(stash, call.addr) = oracle[call.addr]
    BY <2>1, <2>2, StashIsCurrent
  <2> QED  BY <1>4, <2>1, <2>2, <2>3, <2>4 DEF Memory!RAMPerform
<1>5. ASSUME Return, oracle' = oracle
      PROVE  Memory!RAMReturn
  <2>1. result \in Data /\ call' = NoCall /\ result' = NoResult /\ failed' = failed
    BY <1>0, <1>5 DEF Return, EndOfCall, CallState
  <2> QED  BY <1>5, <2>1 DEF Memory!RAMReturn
<1>6. ASSUME Throw, oracle' = oracle
      PROVE  Memory!RAMThrow
  <2>1. call \in Calls /\ call' = NoCall /\ result' = NoResult /\ failed' = TRUE
    BY <1>0, <1>6 DEF Throw, EndOfCall, CallState
  <2> QED  BY <1>6, <2>1, NoCallApart DEF Memory!RAMThrow
<1>7. ASSUME ReadPathFromServer \/ ReadPath \/ EvictBlock \/ WritePath \/ DestroyClient, oracle' = oracle
      PROVE  UNCHANGED <<oracle, call, result, failed>>
  BY <1>7 DEF ReadPathFromServer, ReadPath, EvictBlock, WritePath, DestroyClient
<1> QED
  BY <1>1, <1>2, <1>3, <1>4, <1>5, <1>6, <1>7 DEF Next, ClientNext, Memory!RAMNext

\* Seen by its caller Path ORAM is a RAM, in which a read returns the value last
\* written, whatever fails, as long as no file is cut off after its count.
THEOREM ImplementsRAM ==
    ASSUME "torn" \notin Faults
    PROVE  Spec => RefinesRAM
<1>1. Init => Memory!RAMInit
  BY DEF Init, ConstructClient, Memory!RAMInit
<1> QED
  BY <1>1, CopiesInvariance, StepRefinesRAM, PTL DEF Spec, RefinesRAM, Memory!RAMSpec
=============================================================================
