------------------------ MODULE PathORAMStoreProofs -------------------------
(***************************************************************************)
(* The Path ORAM server as a store: what it answers and acknowledges is    *)
(* what the requests it served made of the tree, for any tree, any bucket  *)
(* size, any blocks and any faults.                                        *)
(***************************************************************************)
EXTENDS PathORAMStore, FoundationsLemmas

\* A bucket padded by WritePath or by the server is full, holds what was put
\* into it first, and dummies after that.
LEMMA FillProperties ==
    ASSUME NEW b \in Seq(AnyBlock), Len(b) <= BucketSize
    PROVE  /\ FillBucketWithDummies(b) \in Seq(AnyBlock)
           /\ Len(FillBucketWithDummies(b)) = BucketSize
           /\ \A k \in 1 .. BucketSize :
                FillBucketWithDummies(b)[k] = IF k <= Len(b) THEN b[k] ELSE Dummy
<1> USE BlocksAssumption
<1> DEFINE n == BucketSize - Len(b)
           pad == [k \in 1 .. n |-> Dummy]
<1>1. n \in Nat /\ Len(b) \in Nat /\ Dummy \in AnyBlock
  BY DEF AnyBlock
<1>2. pad \in Seq(AnyBlock) /\ Len(pad) = n
  <2> HIDE DEF n
  <2> QED  BY <1>1
<1>3. \A k \in 1 .. n : pad[k] = Dummy
  OBVIOUS
<1>4. FillBucketWithDummies(b) = b \o pad
  BY DEF FillBucketWithDummies
<1> HIDE DEF pad
<1>5. b \o pad \in Seq(AnyBlock) /\ Len(b \o pad) = Len(b) + Len(pad)
  BY <1>2
<1>6. \A k \in 1 .. Len(b) + Len(pad) : (b \o pad)[k] = IF k <= Len(b) THEN b[k] ELSE pad[k - Len(b)]
  BY <1>2
<1> QED  BY <1>1, <1>2, <1>3, <1>4, <1>5, <1>6

LEMMA Constants ==
    /\ TreeHeight \in Nat /\ BucketSize \in Nat \ {0} /\ NumBlocks \in Nat \ {0}
    /\ Zero \in Data
    /\ NumLeaves \in Nat /\ LeafOffset \in Nat /\ NumTreeNodes \in Nat
    /\ NumLeaves >= 1 /\ NumTreeNodes >= 1
<1>1. /\ Pow2(TreeHeight) \in Nat /\ Pow2(TreeHeight) >= 1
      /\ Pow2(TreeHeight + 1) = 2 * Pow2(TreeHeight)
  BY TreeHeightAssumption, Pow2Step
<1> QED
  BY <1>1, TreeHeightAssumption, BlocksAssumption
     DEF NumLeaves, LeafOffset, NumTreeNodes

LEMMA NodesBelow ==
    ASSUME NEW n \in Nat
    PROVE  n \in Nodes <=> n < NumTreeNodes
BY Constants DEF Nodes

LEMMA BlockTypes == Dummy \in AnyBlock /\ Block \subseteq AnyBlock
BY DEF AnyBlock

LEMMA BucketFacts ==
    /\ << >> \in Buckets
    /\ \A b \in Buckets : b \in Seq(AnyBlock) /\ DeserializeBucket(b) = b
    /\ \A b \in Seq(AnyBlock) : DeserializeBucket(b) \in Buckets
<1> USE Constants
<1>1. << >> \in Buckets
  BY DEF Buckets
<1>2. \A b \in Buckets : b \in Seq(AnyBlock) /\ DeserializeBucket(b) = b
  BY DEF DeserializeBucket, Buckets
<1>3. ASSUME NEW b \in Seq(AnyBlock)
      PROVE  DeserializeBucket(b) \in Buckets
  <2>1. CASE Len(b) <= BucketSize
    <3>1. b \in [1 .. Len(b) -> AnyBlock] /\ Len(b) \in 0 .. BucketSize
      BY <2>1
    <3>2. DeserializeBucket(b) = b
      BY <2>1 DEF DeserializeBucket
    <3> QED  BY <3>1, <3>2 DEF Buckets
  <2>2. CASE ~ (Len(b) <= BucketSize)
    <3>1. \A k \in 1 .. BucketSize : b[k] \in AnyBlock
      BY <2>2
    <3>2. SubSeq(b, 1, BucketSize) = [k \in 1 .. BucketSize |-> b[k]]
      BY <2>2
    <3> DEFINE f == [k \in 1 .. BucketSize |-> b[k]]
    <3>3. f \in [1 .. BucketSize -> AnyBlock] /\ BucketSize \in 0 .. BucketSize
      BY <3>1
    <3> HIDE DEF f
    <3>4. DeserializeBucket(b) = SubSeq(b, 1, BucketSize)
      BY <2>2 DEF DeserializeBucket
    <3>5. DeserializeBucket(b) = f
      BY <3>2, <3>4 DEF f
    <3> QED  BY <3>3, <3>5 DEF Buckets
  <2> QED  BY <2>1, <2>2
<1> QED  BY <1>1, <1>2, <1>3

\* A write leaves the bucket, or what is left of a file whose write failed.
LEMMA WrittenFacts ==
    /\ << >> \in Truncated
    /\ \A file \in Truncated : file = << >> \/ file = Torn
    /\ \A b : b \in Written(b) /\ \A file \in Written(b) : file = b \/ file \in Truncated
    /\ "disk" \in Faults => \A b : Truncated \subseteq Written(b)
BY DEF Truncated, Written

LEMMA PathIndices ==
    ASSUME NEW leaf \in Leaves
    PROVE  GetPathIndices(leaf) \in Seq(Nat)
<1>1. \A k \in 1 .. TreeHeight + 1 : PathNode(leaf, k - 1) \in Nat
  BY PathNodeStep, Constants
<1> QED  BY <1>1, Constants DEF GetPathIndices

-----------------------------------------------------------------------------
\* Whatever a client sends is what the server relies on in a request.
LEMMA SentBucketsType == SentBuckets \subseteq Seq(AnyBlock)
<1>1. \A block \in AnyBlock : <<block>> \in Seq(AnyBlock)
  OBVIOUS
<1>2. ASSUME NEW block \in Block
      PROVE  [k \in 1 .. BucketSize + 1 |-> block] \in Seq(AnyBlock)
  <2>1. block \in AnyBlock /\ BucketSize + 1 \in Nat
    BY BlockTypes, Constants
  <2> QED  BY <2>1
<1> QED  BY <1>1, <1>2 DEF SentBuckets

LEMMA SentPathsType == SentPaths \subseteq Seq(Nat)
<1> USE Constants
<1>1. <<NoSuchNode>> \in Seq(Nat)
  BY DEF NoSuchNode
<1>2. [k \in 1 .. TreeHeight + 1 |-> IF k = 1 THEN 0 ELSE NoSuchNode] \in Seq(Nat)
  BY DEF NoSuchNode
<1> QED  BY <1>1, <1>2, PathIndices DEF SentPaths

LEMMA SentIsARequest == \A m \in SentRequests : m # Rest
BY DEF SentRequests, Rest

LEMMA SentWellFormed == \A m \in SentRequests : WellFormed(m)
<1> SUFFICES ASSUME NEW m \in SentRequests PROVE WellFormed(m)
  OBVIOUS
<1>1. Nodes \cup {NoSuchNode} \subseteq Nat
  BY Constants DEF Nodes, NoSuchNode
<1>2. CASE m \in [cmd : {"R"}, node : Nodes \cup {NoSuchNode}]
  BY <1>1, <1>2 DEF WellFormed
<1>3. CASE m \in [cmd : {"W"}, node : Nodes \cup {NoSuchNode}, bucket : SentBuckets]
  BY <1>1, <1>3, SentBucketsType DEF WellFormed
<1>4. CASE m \in [cmd : {"P"}, path : SentPaths]
  BY <1>4, SentPathsType DEF WellFormed
<1>5. ASSUME NEW path \in SentPaths, NEW bucket \in SentBuckets,
             m = [cmd     |-> "T",
                  entries |-> [k \in DOMAIN path |-> [node |-> path[k], bucket |-> bucket]]]
      PROVE  WellFormed(m)
  <2>1. path \in Seq(Nat) /\ bucket \in Seq(AnyBlock)
    BY SentPathsType, SentBucketsType
  <2>2. DOMAIN path = 1 .. Len(path) /\ Len(path) \in Nat
    BY <2>1
  <2>3. \A k \in 1 .. Len(path) : [node |-> path[k], bucket |-> bucket] \in [node : Nat, bucket : Seq(AnyBlock)]
    BY <2>1
  <2>4. m.cmd = "T" /\ m.entries = [k \in 1 .. Len(path) |-> [node |-> path[k], bucket |-> bucket]]
    BY <1>5, <2>2
  <2> DEFINE E == [node : Nat, bucket : Seq(AnyBlock)]
  <2>5. m.entries \in Seq(E) /\ Len(m.entries) = Len(path)
    <3> HIDE DEF E
    <3> QED  BY <2>2, <2>3, <2>4 DEF E
  <2>6. \A k \in 1 .. Len(m.entries) : m.entries[k].bucket = bucket
    BY <2>4, <2>5
  <2> QED  BY <2>4, <2>5, <2>6 DEF WellFormed
<1>6. CASE m \in {[cmd |-> "Q"], [cmd |-> "X"]}
  BY <1>6 DEF WellFormed
<1> QED  BY <1>2, <1>3, <1>4, <1>5, <1>6 DEF SentRequests

LEMMA NoMsgFacts ==
    /\ NoMsg.cmd = "none" /\ WellFormed(NoMsg)
    /\ Rest.cmd = "rest" /\ WellFormed(Rest)
    /\ \A t : Requested(NoMsg, t) = t
BY DEF NoMsg, Rest, WellFormed, Requested

\* What a request makes of a tree: the buckets it names, at their nodes.
LEMMA RequestedType ==
    ASSUME NEW m, WellFormed(m), NEW t \in [Nodes -> Buckets]
    PROVE  /\ Requested(m, t) \in [Nodes -> Buckets]
           /\ m.cmd \notin {"W", "T"} => Requested(m, t) = t
           /\ m.cmd = "T" =>
                /\ \A k \in 1 .. Len(m.entries) : m.entries[k].node \in Nodes =>
                     Requested(m, t)[m.entries[k].node] = DeserializeBucket(m.entries[k].bucket)
                /\ \A n \in Nodes : \/ Requested(m, t)[n] = t[n]
                                    \/ \E k \in 1 .. Len(m.entries) : m.entries[k].node = n
<1>1. CASE m.cmd = "W"
  <2>1. DeserializeBucket(m.bucket) \in Buckets
    BY <1>1, BucketFacts DEF WellFormed
  <2> QED  BY <1>1, <2>1 DEF Requested
<1>2. CASE m.cmd = "T"
  <2> DEFINE e == m.entries
             Named(n) == \E k \in DOMAIN e : e[k].node = n
             at(n) == CHOOSE k \in DOMAIN e : e[k].node = n
             E == [node : Nat, bucket : Seq(AnyBlock)]
  <2>0. e \in Seq(E) /\ \A k, l \in 1 .. Len(e) : e[k].node = e[l].node => e[k].bucket = e[l].bucket
    BY <1>2 DEF WellFormed
  <2>1. /\ DOMAIN e = 1 .. Len(e)
        /\ \A k \in 1 .. Len(e) : e[k].bucket \in Seq(AnyBlock)
        /\ \A k, l \in 1 .. Len(e) : e[k].node = e[l].node => e[k].bucket = e[l].bucket
    <3>1. \A b \in E : b.bucket \in Seq(AnyBlock)
      OBVIOUS
    <3> HIDE DEF e, E
    <3> QED  BY <2>0, <3>1
  <2>2. \A n : Named(n) => at(n) \in 1 .. Len(e) /\ e[at(n)].node = n
    BY <2>1
  <2>3. Requested(m, t) = [n \in Nodes |-> IF Named(n) THEN DeserializeBucket(e[at(n)].bucket) ELSE t[n]]
    BY <1>2 DEF Requested
  <2> HIDE DEF at
  <2>4. \A n \in Nodes : Requested(m, t)[n] \in Buckets
    <3> SUFFICES ASSUME NEW n \in Nodes PROVE Requested(m, t)[n] \in Buckets
      OBVIOUS
    <3>1. Requested(m, t)[n] = IF Named(n) THEN DeserializeBucket(e[at(n)].bucket) ELSE t[n]
      BY <2>3
    <3>2. Named(n) => DeserializeBucket(e[at(n)].bucket) \in Buckets
      <4> HIDE DEF Named, e
      <4> QED  BY <2>1, <2>2, BucketFacts
    <3> QED  BY <3>1, <3>2
  <2>5. \A k \in 1 .. Len(e) : e[k].node \in Nodes =>
          Requested(m, t)[e[k].node] = DeserializeBucket(e[k].bucket)
    <3> SUFFICES ASSUME NEW k \in 1 .. Len(e), e[k].node \in Nodes
                 PROVE  Requested(m, t)[e[k].node] = DeserializeBucket(e[k].bucket)
      OBVIOUS
    <3>1. Named(e[k].node)
      BY <2>1
    <3>2. e[at(e[k].node)].bucket = e[k].bucket
      BY <2>1, <2>2, <3>1
    <3> QED  BY <2>3, <3>1, <3>2
  <2>6. \A n \in Nodes : Requested(m, t)[n] = t[n] \/ \E k \in 1 .. Len(e) : e[k].node = n
    BY <2>1, <2>3
  <2> QED  BY <1>2, <2>3, <2>4, <2>5, <2>6
<1>3. CASE m.cmd \notin {"W", "T"}
  BY <1>3 DEF Requested
<1> QED  BY <1>1, <1>2, <1>3

\* A well-formed list of entries stays well formed without its first.
LEMMA TailWellFormed ==
    ASSUME NEW m, WellFormed(m), m.cmd = "T", m.entries # << >>
    PROVE  /\ WellFormed([cmd |-> "T", entries |-> Tail(m.entries)])
           /\ 1 \in 1 .. Len(m.entries) /\ Head(m.entries) = m.entries[1]
           /\ m.entries[1].node \in Nat /\ m.entries[1].bucket \in Seq(AnyBlock)
           /\ \A k \in 1 .. Len(Tail(m.entries)) :
                k + 1 \in 1 .. Len(m.entries) /\ Tail(m.entries)[k] = m.entries[k + 1]
           /\ \A k \in 1 .. Len(m.entries) : k # 1 =>
                k - 1 \in 1 .. Len(Tail(m.entries)) /\ Tail(m.entries)[k - 1] = m.entries[k]
<1> DEFINE e == m.entries
           E == [node : Nat, bucket : Seq(AnyBlock)]
           r == [cmd |-> "T", entries |-> Tail(e)]
<1>1. e \in Seq(E) /\ \A k, l \in 1 .. Len(e) : e[k].node = e[l].node => e[k].bucket = e[l].bucket
  BY DEF WellFormed
<1>2. \A x \in E : x.node \in Nat /\ x.bucket \in Seq(AnyBlock)
  OBVIOUS
<1>3. /\ 1 \in 1 .. Len(e) /\ Head(e) = e[1] /\ Tail(e) \in Seq(E) /\ e[1] \in E
      /\ \A k \in 1 .. Len(Tail(e)) : k + 1 \in 1 .. Len(e) /\ Tail(e)[k] = e[k + 1]
      /\ \A k \in 1 .. Len(e) : k # 1 => k - 1 \in 1 .. Len(Tail(e)) /\ Tail(e)[k - 1] = e[k]
  <2> HIDE DEF e, E
  <2>1. e # << >>
    BY DEF e
  <2> QED  BY <1>1, <2>1
<1>4. WellFormed(r)
  <2>1. r.cmd = "T" /\ r.entries = Tail(e)
    OBVIOUS
  <2>2. \A k, l \in 1 .. Len(Tail(e)) :
          Tail(e)[k].node = Tail(e)[l].node => Tail(e)[k].bucket = Tail(e)[l].bucket
    <3> HIDE DEF e
    <3> QED  BY <1>1, <1>3
  <2>3. r.cmd \notin {"R", "W", "P"} /\ r.entries \in Seq(E)
    BY <1>3, <2>1
  <2> HIDE DEF r, e
  <2> QED  BY <2>1, <2>2, <2>3 DEF WellFormed
<1> QED  BY <1>2, <1>3, <1>4

-----------------------------------------------------------------------------
LEMMA InitStoreInv == Init => StoreInv
<1> SUFFICES ASSUME Init PROVE StoreInv
  OBVIOUS
<1>1. tree \in [Nodes -> Buckets]
  BY BucketFacts DEF Init, ConstructServer
<1>2. spc = "constructed" /\ nodeCount = 0 /\ req = NoMsg /\ resp = NoMsg /\ image = tree
  BY DEF Init, ConstructServer
<1>3. UpToDate
  BY <1>1, <1>2, WrittenFacts DEF UpToDate
<1> QED  BY <1>1, <1>2, <1>3, NoMsgFacts DEF StoreInv, AckMeansWritten, ServerPoints

\* What Init leaves is what it was asked to store, but for the buckets that did
\* not reach their files.
LEMMA InitAnyKeeps ==
    ASSUME StoreInv, InitAny
    PROVE  StoreInv'
<1>1. PICK n \in 0 .. NumBlocks, data \in [Addr -> Data] :
        /\ InitServer([k \in 1 .. n |-> [id |-> k - 1, data |-> data[k - 1]]])
        /\ image' = InitialTree([k \in 1 .. n |-> [id |-> k - 1, data |-> data[k - 1]]])
  BY DEF InitAny
<1> DEFINE b == [k \in 1 .. n |-> [id |-> k - 1, data |-> data[k - 1]]]
<1>2. b \in Seq(Block)
  <2>1. \A k \in 1 .. n : [id |-> k - 1, data |-> data[k - 1]] \in Block
    BY Constants DEF Block, Addr
  <2> HIDE DEF Block
  <2> QED  BY <2>1
<1> HIDE DEF b
<1>3. ASSUME NEW i \in Nodes PROVE InitialTree(b)[i] \in Buckets
  <2> DEFINE leaf == i - LeafOffset
             c == IF i >= LeafOffset /\ leaf < Len(b) THEN <<b[leaf + 1]>> ELSE << >>
  <2>1. InitialTree(b)[i] = FillBucketWithDummies(c)
    BY DEF InitialTree
  <2>2. c \in Seq(AnyBlock) /\ Len(c) <= BucketSize
    <3>1. CASE i >= LeafOffset /\ leaf < Len(b)
      <4>1. leaf + 1 \in 1 .. Len(b)
        BY <1>2, <3>1, Constants DEF Nodes
      <4>2. b[leaf + 1] \in AnyBlock
        BY <1>2, <4>1, BlockTypes
      <4> DEFINE x == b[leaf + 1]
      <4>3. c = <<x>>
        BY <3>1
      <4> HIDE DEF c, x
      <4>4. x \in AnyBlock
        BY <4>2 DEF x
      <4> QED  BY <4>3, <4>4, Constants
    <3>2. CASE ~ (i >= LeafOffset /\ leaf < Len(b))
      BY <3>2, Constants
    <3> QED  BY <3>1, <3>2
  <2> HIDE DEF c
  <2>3. FillBucketWithDummies(c) \in Seq(AnyBlock) /\ Len(FillBucketWithDummies(c)) = BucketSize
    BY <2>2, FillProperties
  <2> QED  BY <2>1, <2>3, Constants DEF Buckets
<1>4. InitialTree(b) = [i \in Nodes |-> InitialTree(b)[i]]
  BY DEF InitialTree
<1>5. InitServer(b)
  BY <1>1 DEF b
<1> DEFINE t == InitialTree(b)
<1>6. t \in [Nodes -> Buckets]
  BY <1>3, <1>4
<1>7. \A i \in Nodes : tree'[i] \in Written(t[i])
  <2>1. PICK w \in WrittenTrees(t) :
          \/ tree' = w
          \/ /\ "disk" \in Faults
             /\ \E failing \in Nodes, left \in Truncated :
                  tree' = [i \in Nodes |-> IF i < failing THEN w[i]
                                          ELSE IF i = failing THEN left
                                          ELSE Cleared[i]]
    BY <1>5 DEF InitServer
  <2>2. \A i \in Nodes : w[i] \in Written(t[i])
    BY <2>1 DEF WrittenTrees
  <2> HIDE DEF t
  <2>3. CASE tree' = w
    BY <2>2, <2>3
  <2>4. ASSUME "disk" \in Faults, NEW failing \in Nodes, NEW left \in Truncated,
               tree' = [i \in Nodes |-> IF i < failing THEN w[i]
                                       ELSE IF i = failing THEN left
                                       ELSE Cleared[i]]
        PROVE  \A i \in Nodes : tree'[i] \in Written(t[i])
    <3>1. \A i \in Nodes : Cleared[i] = << >>
      BY DEF Cleared
    <3>2. \A i \in Nodes : Truncated \subseteq Written(t[i])
      BY <2>4, WrittenFacts
    <3> QED  BY <2>2, <2>4, <3>1, <3>2, WrittenFacts
  <2> QED  BY <2>1, <2>3, <2>4
<1>8. tree' = [i \in Nodes |-> tree'[i]]
  BY <1>5 DEF InitServer, WrittenTrees
<1> HIDE DEF t
<1>9. /\ nodeCount' = NumTreeNodes /\ image' = t /\ spc' = spc /\ spc = "constructed"
      /\ req' = req /\ resp' = resp
  BY <1>1, <1>5 DEF InitServer, b, t
<1>10. tree' \in [Nodes -> Buckets \cup Truncated]
  BY <1>6, <1>7, <1>8, WrittenFacts
<1>11. UpToDate'
  BY <1>7, <1>9 DEF UpToDate
<1> QED  BY <1>6, <1>9, <1>10, <1>11 DEF StoreInv, AckMeansWritten, WellFormed

\* An Init that cannot clear the directory leaves a part of what was there.
LEMMA InitClearFailsKeeps ==
    ASSUME StoreInv, InitClearFails
    PROVE  StoreInv'
<1>1. InitServerClearFails
  BY DEF InitClearFails
<1>2. /\ "disk" \in Faults /\ spc = "constructed" /\ spc' = spc /\ image' = image
      /\ req' = req /\ resp' = resp /\ nodeCount' \in {0, nodeCount}
  BY <1>1 DEF InitServerClearFails, InitClearFails
<1>3. tree \in [Nodes -> Buckets \cup Truncated] /\ UpToDate
  BY <1>2 DEF StoreInv
<1>4. /\ tree' \in [Nodes -> Buckets \cup Truncated]
      /\ \A n \in Nodes : tree'[n] = tree[n] \/ tree'[n] = << >>
  <2>1. ASSUME NEW gone \in SUBSET Nodes,
               tree' = [n \in Nodes |-> IF n \in gone THEN << >> ELSE tree[n]]
        PROVE  /\ tree' \in [Nodes -> Buckets \cup Truncated]
               /\ \A n \in Nodes : tree'[n] = tree[n] \/ tree'[n] = << >>
    BY <1>3, <2>1, WrittenFacts
  <2>2. CASE tree' = [n \in Nodes |-> << >>]
    BY <2>2, WrittenFacts
  <2> QED  BY <1>1, <2>1, <2>2 DEF InitServerClearFails, Cleared
<1>5. UpToDate'
  BY <1>2, <1>3, <1>4, WrittenFacts DEF UpToDate
<1> QED  BY <1>2, <1>4, <1>5 DEF StoreInv, AckMeansWritten, WellFormed

\* The client and the network change only what is on the wire.
LEMMA ClientKeeps ==
    ASSUME StoreInv, Ask \/ TakeReply \/ HangUp
    PROVE  StoreInv'
<1>1. /\ tree' = tree /\ image' = image /\ nodeCount' = nodeCount /\ spc' = spc
      /\ spc = "writing" => req # NoMsg
  BY NoMsgFacts DEF StoreInv, HalfWritten, Ask, TakeReply, HangUp, serverVars, ConnectionLost
<1>2. CASE Ask
  <2>1. req' = NoMsg \/ req' \in SentRequests
    BY <1>2 DEF Ask, SendRequest
  <2>2. WellFormed(req)'
    <3>1. WellFormed(req')
      BY <2>1, SentWellFormed, NoMsgFacts
    <3> QED  BY <3>1 DEF WellFormed
  <2>3. resp' = NoMsg /\ spc # "writing"
    BY <1>1, <1>2 DEF Ask
  <2>4. req' # Rest
    BY <2>1, SentIsARequest, NoMsgFacts
  <2> QED  BY <1>1, <2>2, <2>3, <2>4, NoMsgFacts DEF StoreInv, AckMeansWritten, UpToDate
<1>3. CASE TakeReply
  BY <1>1, <1>3, NoMsgFacts DEF TakeReply, StoreInv, AckMeansWritten, UpToDate, WellFormed, HalfWritten
<1>4. CASE HangUp
  BY <1>1, <1>4 DEF HangUp, ConnectionLost, StoreInv, AckMeansWritten, UpToDate, WellFormed, HalfWritten
<1> QED  BY <1>2, <1>3, <1>4

\* The server's thread and its owner, at the ends of the loop.
LEMMA OwnerKeeps ==
    ASSUME StoreInv, StopCalled \/ Owner
    PROVE  StoreInv'
<1>1. CASE StopCalled
  BY <1>1 DEF StopCalled, Stop, StoreInv, AckMeansWritten, UpToDate, WellFormed, HalfWritten
<1>2. CASE StartHandleRequests /\ Owner
  BY <1>2 DEF Owner, StartHandleRequests, StoreInv, AckMeansWritten, UpToDate, WellFormed, ServerPoints
<1>3. CASE DestroyServer /\ Owner
  BY <1>3 DEF Owner, DestroyServer, StoreInv, AckMeansWritten, UpToDate, WellFormed, ServerPoints
<1> QED  BY <1>1, <1>2, <1>3 DEF Owner

\* A command is taken only when no answer waits to be received, and image
\* follows the requests served.
LEMMA Serving ==
    ASSUME StoreInv, Serve
    PROVE  /\ image' \in [Nodes -> Buckets]
           /\ spc = "writing" \/ req.cmd \notin {"W", "T"} \/ ~ Initialized => image' = image
           /\ spc = "recv" /\ Initialized => image' = Requested(req, image)
           /\ req # NoMsg => resp = NoMsg
<1>1. WellFormed(req) /\ image \in [Nodes -> Buckets] /\ (resp # NoMsg => req = NoMsg)
  BY DEF StoreInv
<1>2. /\ Requested(req, image) \in [Nodes -> Buckets]
      /\ req.cmd \notin {"W", "T"} => Requested(req, image) = image
  BY <1>1, RequestedType
<1>3. image' = IF spc = "recv" /\ Initialized THEN Requested(req, image) ELSE image
  BY DEF Serve
<1> QED  BY <1>1, <1>2, <1>3

\* The handlers that leave every bucket alone.
LEMMA QuietHandlersKeep ==
    ASSUME StoreInv, Serve,
           \/ HandleReadBucket \/ HandleReadPath
           \/ HandleQuit \/ HandleUnknown \/ ServerRecvThrows
    PROVE  StoreInv'
<1>1. /\ req' = NoMsg \/ (req' = Rest /\ spc' = "left")
      /\ tree' = tree /\ nodeCount' = nodeCount /\ spc' \in {"recv", "left"}
      /\ spc \in {"recv", "writing"}
      /\ tree \in [Nodes -> Buckets \cup Truncated] /\ nodeCount \in {0, NumTreeNodes}
  BY DEF HandleReadBucket, HandleReadPath, HandleQuit, HandleUnknown, ServerRecvThrows,
     Consume, LeaveRest, Command, Leave, NextTurn, StoreInv
<1>2. WellFormed(req)' /\ (req' = Rest => spc' = "left")
  BY <1>1, NoMsgFacts DEF WellFormed
<1>3. CASE ServerRecvThrows
  <2>1. spc' = "left" /\ resp' = resp /\ req' = NoMsg
    BY <1>3 DEF ServerRecvThrows, Leave, Consume
  <2>2. AckMeansWritten'
    <3>1. CASE req = NoMsg
      <4>1. image' = image
        BY <1>1, <3>1, Serving, NoMsgFacts
      <4> QED  BY <1>1, <2>1, <4>1 DEF StoreInv, AckMeansWritten, UpToDate
    <3>2. CASE req # NoMsg
      <4>1. resp' = NoMsg
        BY <2>1, <3>2, Serving
      <4> QED  BY <4>1, NoMsgFacts DEF AckMeansWritten
    <3> QED  BY <3>1, <3>2
  <2> QED  BY <1>1, <1>2, <2>1, <2>2, Serving, NoMsgFacts DEF StoreInv, ServerPoints
<1>4. CASE ~ ServerRecvThrows
  <2>1. spc = "recv" /\ req.cmd \notin {"W", "T", "none"}
    BY <1>4 DEF HandleReadBucket, HandleReadPath, HandleQuit, HandleUnknown, Command, Commands
  <2>2. image' = image /\ UpToDate /\ resp = NoMsg
    BY <1>1, <2>1, Serving, NoMsgFacts DEF StoreInv
  <2>3. resp' # NoMsg => req' = NoMsg
    BY <1>4, <2>2 DEF HandleReadBucket, HandleReadPath, HandleQuit, HandleUnknown, Consume
  <2>4. UpToDate'
    BY <1>1, <2>2 DEF UpToDate
  <2> QED  BY <1>1, <1>2, <2>2, <2>3, <2>4, Serving DEF StoreInv, AckMeansWritten, ServerPoints
<1> QED  BY <1>3, <1>4

\* What a write leaves of the tree, whether it returns or throws.
LEMMA WriteTypes ==
    ASSUME NEW n \in Nat, NEW b \in Buckets, tree \in [Nodes -> Buckets \cup Truncated],
           WriteBucketToDisk(n, b) \/ WriteBucketThrows(n)
    PROVE  tree' \in [Nodes -> Buckets \cup Truncated]
<1>1. ASSUME NEW file \in Written(b), tree' = [tree EXCEPT ![n] = file]
      PROVE  tree' \in [Nodes -> Buckets \cup Truncated]
  <2>1. file \in Buckets \cup Truncated
    BY <1>1, WrittenFacts
  <2> QED  BY <1>1, <2>1
<1>2. ASSUME NEW file \in Truncated, tree' = [tree EXCEPT ![n] = file]
      PROVE  tree' \in [Nodes -> Buckets \cup Truncated]
  BY <1>2
<1> QED  BY <1>1, <1>2 DEF WriteBucketToDisk, WriteBucketThrows

LEMMA WriteBucketKeeps ==
    ASSUME StoreInv, Serve, HandleWriteBucket
    PROVE  StoreInv'
<1>1. /\ resp' = resp /\ nodeCount' = nodeCount
      /\ spc = "recv" /\ req.cmd = "W" /\ WellFormed(req) /\ UpToDate
      /\ tree \in [Nodes -> Buckets \cup Truncated] /\ nodeCount \in {0, NumTreeNodes}
      /\ image \in [Nodes -> Buckets] /\ req # NoMsg
  BY NoMsgFacts DEF HandleWriteBucket, Command, StoreInv
<1>2. resp' = NoMsg
  BY <1>1, Serving
<1>3. req.node \in Nat /\ req.bucket \in Seq(AnyBlock) /\ DeserializeBucket(req.bucket) \in Buckets
  BY <1>1, BucketFacts DEF WellFormed
<1>4. CASE /\ Initialized /\ req' = NoMsg /\ spc' \in {"recv", "left"}
           /\ WriteBucketToDisk(req.node, DeserializeBucket(req.bucket))
  <2> DEFINE b == DeserializeBucket(req.bucket)
  <2>1. req.node \in Nodes
    BY <1>3, <1>4, NodesBelow DEF Initialized, WriteBucketToDisk
  <2>2. PICK file \in Written(b) : tree' = [tree EXCEPT ![req.node] = file]
    BY <1>4 DEF WriteBucketToDisk
  <2>3. image' = [image EXCEPT ![req.node] = b]
    BY <1>1, <1>4, <2>1, Serving DEF Requested
  <2>4. UpToDate'
    <3> HIDE DEF b
    <3>1. \A n \in Nodes : tree'[n] \in Written(image'[n])
      BY <1>1, <2>1, <2>2, <2>3 DEF UpToDate
    <3> QED  BY <3>1 DEF UpToDate
  <2>5. tree' \in [Nodes -> Buckets \cup Truncated]
    BY <1>1, <1>3, <1>4, WriteTypes
  <2>6. WellFormed(req)'
    BY <1>4, NoMsgFacts DEF WellFormed
  <2> QED  BY <1>1, <1>2, <1>4, <2>4, <2>5, <2>6, Serving, NoMsgFacts
           DEF StoreInv, AckMeansWritten, ServerPoints
<1>5. CASE /\ spc' = "left" /\ req' \in {NoMsg, Rest}
           /\ tree' = tree \/ WriteBucketThrows(req.node)
  <2>1. tree' \in [Nodes -> Buckets \cup Truncated]
    BY <1>1, <1>3, <1>5, WriteTypes
  <2>2. WellFormed(req)'
    BY <1>5, NoMsgFacts DEF WellFormed
  <2> QED  BY <1>1, <1>2, <1>5, <2>1, <2>2, Serving, NoMsgFacts DEF StoreInv, AckMeansWritten, ServerPoints
<1> QED  BY <1>4, <1>5 DEF HandleWriteBucket, Leave, NextTurn, Consume

LEMMA WritePathStartKeeps ==
    ASSUME StoreInv, Serve, HandleWritePath
    PROVE  StoreInv'
<1>1. /\ WellFormed(req) /\ spc = "recv" /\ req.cmd = "T" /\ tree' = tree /\ UpToDate
      /\ nodeCount' = nodeCount /\ resp' = resp /\ req # NoMsg
      /\ tree \in [Nodes -> Buckets \cup Truncated] /\ image \in [Nodes -> Buckets]
      /\ nodeCount \in {0, NumTreeNodes}
  BY NoMsgFacts DEF HandleWritePath, Command, StoreInv
<1>2. resp' = NoMsg
  BY <1>1, Serving
<1>3. CASE Initialized /\ spc' = "writing" /\ req' = req
  <2>1. nodeCount = NumTreeNodes
    BY <1>3 DEF Initialized
  <2>2. image' = Requested(req, image)
    BY <1>1, <1>3, Serving
  <2>3. /\ \A k \in 1 .. Len(req.entries) : req.entries[k].node \in Nodes =>
             image'[req.entries[k].node] = DeserializeBucket(req.entries[k].bucket)
        /\ \A n \in Nodes : \/ image'[n] = image[n]
                            \/ \E k \in 1 .. Len(req.entries) : req.entries[k].node = n
    BY <1>1, <2>2, RequestedType
  <2>4. \A n \in Nodes : \/ tree[n] \in Written(image'[n])
                         \/ \E k \in 1 .. Len(req.entries) : req.entries[k].node = n
    BY <1>1, <2>3 DEF UpToDate
  <2>5. HalfWritten'
    BY <1>1, <1>3, <2>1, <2>3, <2>4 DEF HalfWritten
  <2>6. WellFormed(req)' /\ req' # Rest
    BY <1>1, <1>3, NoMsgFacts DEF WellFormed
  <2> QED  BY <1>1, <1>2, <1>3, <2>5, <2>6, Serving, NoMsgFacts DEF StoreInv, AckMeansWritten, ServerPoints
<1>4. CASE spc' = "left" /\ req' \in {NoMsg, Rest}
  <2>1. WellFormed(req)'
    BY <1>4, NoMsgFacts DEF WellFormed
  <2> QED  BY <1>1, <1>2, <1>4, <2>1, Serving, NoMsgFacts DEF StoreInv, AckMeansWritten, ServerPoints
<1> QED  BY <1>3, <1>4 DEF HandleWritePath, Leave, LeaveRest

\* One bucket of a path reaches its file or is lost, or the write throws and the
\* loop is left.
LEMMA WritePathBucketKeeps ==
    ASSUME StoreInv, Serve, WritePathBucket
    PROVE  StoreInv'
<1> DEFINE e == req.entries
           b == DeserializeBucket(e[1].bucket)
<1>1. /\ WellFormed(req) /\ spc = "writing" /\ e # << >> /\ HalfWritten
      /\ nodeCount' = nodeCount /\ resp' = resp /\ nodeCount = NumTreeNodes /\ req.cmd = "T"
      /\ tree \in [Nodes -> Buckets \cup Truncated] /\ image \in [Nodes -> Buckets]
  BY DEF WritePathBucket, StoreInv, HalfWritten
<1>2. resp' = NoMsg /\ image' = image
  BY <1>1, Serving, NoMsgFacts
<1>3. /\ WellFormed([cmd |-> "T", entries |-> Tail(e)])
      /\ 1 \in 1 .. Len(e) /\ Head(e) = e[1] /\ e[1].node \in Nat /\ e[1].bucket \in Seq(AnyBlock)
      /\ \A k \in 1 .. Len(Tail(e)) : k + 1 \in 1 .. Len(e) /\ Tail(e)[k] = e[k + 1]
      /\ \A k \in 1 .. Len(e) : k # 1 => k - 1 \in 1 .. Len(Tail(e)) /\ Tail(e)[k - 1] = e[k]
  BY <1>1, TailWellFormed
<1>4. /\ \A k \in 1 .. Len(e) : e[k].node \in Nodes => image[e[k].node] = DeserializeBucket(e[k].bucket)
      /\ \A n \in Nodes : tree[n] \in Written(image[n]) \/ \E k \in 1 .. Len(e) : e[k].node = n
  BY <1>1 DEF HalfWritten
<1>5. b \in Buckets
  BY <1>3, BucketFacts
<1>6. CASE /\ WriteBucketToDisk(e[1].node, b)
           /\ req' = [cmd |-> "T", entries |-> Tail(e)]
           /\ spc' = spc
  <2>1. e[1].node \in Nodes
    BY <1>1, <1>3, <1>6, NodesBelow DEF WriteBucketToDisk
  <2>2. tree' \in [Nodes -> Buckets \cup Truncated]
    BY <1>1, <1>3, <1>5, <1>6, WriteTypes
  <2>3. WellFormed(req)'
    <3>1. WellFormed(req')
      BY <1>3, <1>6
    <3> QED  BY <3>1 DEF WellFormed
  <2>4. req'.cmd = "T" /\ req'.entries = Tail(e)
    BY <1>6
  <2>5. PICK file \in Written(b) : tree' = [tree EXCEPT ![e[1].node] = file]
    BY <1>6 DEF WriteBucketToDisk
  <2>6. image[e[1].node] = b
    BY <1>3, <1>4, <2>1
  <2> HIDE DEF e, b
  <2>7. \A k \in 1 .. Len(Tail(e)) : Tail(e)[k].node \in Nodes =>
          image[Tail(e)[k].node] = DeserializeBucket(Tail(e)[k].bucket)
    BY <1>3, <1>4
  <2>8. ASSUME NEW n \in Nodes
        PROVE  tree'[n] \in Written(image[n]) \/ \E k \in 1 .. Len(Tail(e)) : Tail(e)[k].node = n
    <3>1. CASE n = e[1].node
      <4>1. tree'[n] = file
        BY <1>1, <2>5, <3>1
      <4> QED  BY <2>5, <2>6, <3>1, <4>1
    <3>2. CASE n # e[1].node
      <4>1. tree'[n] = tree[n]
        BY <1>1, <2>5, <3>2
      <4>2. CASE tree[n] \in Written(image[n])
        BY <4>1, <4>2
      <4>3. ASSUME NEW k \in 1 .. Len(e), e[k].node = n
            PROVE  \E l \in 1 .. Len(Tail(e)) : Tail(e)[l].node = n
        BY <1>3, <3>2, <4>3
      <4> QED  BY <1>4, <4>2, <4>3
    <3> QED  BY <3>1, <3>2
  <2>9. HalfWritten'
    BY <1>1, <1>2, <2>4, <2>7, <2>8 DEF HalfWritten
  <2> QED  BY <1>1, <1>2, <1>6, <2>2, <2>3, <2>4, <2>9, NoMsgFacts DEF StoreInv, AckMeansWritten, ServerPoints
<1>7. CASE spc' = "left" /\ req' \in {NoMsg, Rest} /\ WriteBucketThrows(e[1].node)
  <2>1. tree' \in [Nodes -> Buckets \cup Truncated]
    BY <1>1, <1>3, <1>5, <1>7, WriteTypes
  <2>2. WellFormed(req)'
    BY <1>7, NoMsgFacts DEF WellFormed
  <2> QED  BY <1>1, <1>2, <1>7, <2>1, <2>2, NoMsgFacts DEF StoreInv, AckMeansWritten, ServerPoints
<1> QED  BY <1>3, <1>6, <1>7 DEF WritePathBucket, Leave, LeaveRest

\* The acknowledgement goes out when no entry is left, and then no bucket is
\* older than the request.
LEMMA AckWritePathKeeps ==
    ASSUME StoreInv, Serve, AckWritePath
    PROVE  StoreInv'
<1>1. /\ spc = "writing" /\ req.entries = << >> /\ HalfWritten /\ req.cmd = "T"
      /\ nodeCount' = nodeCount /\ tree' = tree /\ req' = NoMsg /\ spc' \in {"recv", "left"}
      /\ tree \in [Nodes -> Buckets \cup Truncated] /\ image \in [Nodes -> Buckets]
      /\ nodeCount \in {0, NumTreeNodes}
  BY DEF AckWritePath, StoreInv, HalfWritten, Consume, Leave, NextTurn
<1>2. image' = image
  BY <1>1, Serving
<1>3. UpToDate'
  BY <1>1, <1>2 DEF HalfWritten, UpToDate
<1>4. WellFormed(req)'
  BY <1>1, NoMsgFacts DEF WellFormed
<1> QED  BY <1>1, <1>2, <1>3, <1>4, NoMsgFacts DEF StoreInv, AckMeansWritten, ServerPoints

\* The invariant behind what the server promises: outside HandleWritePath no
\* bucket file is older than the requests served, and inside it only those are
\* that are still in the request; a server that knows of a write that failed,
\* or has left a request unread, has left its loop.
THEOREM StoreInvInductive == Spec => []StoreInv
<1>1. Init => StoreInv
  BY InitStoreInv
<1>2. StoreInv /\ [Next]_vars => StoreInv'
  <2> SUFFICES ASSUME StoreInv, [Next]_vars PROVE StoreInv'
    OBVIOUS
  <2>1. CASE InitAny
    BY <2>1, InitAnyKeeps
  <2>0. CASE InitClearFails
    BY <2>0, InitClearFailsKeeps
  <2>2. CASE Ask \/ TakeReply \/ HangUp
    BY <2>2, ClientKeeps
  <2>3. CASE Serve
    BY <2>3, QuietHandlersKeep, WriteBucketKeeps, WritePathStartKeeps,
       WritePathBucketKeeps, AckWritePathKeeps DEF Serve, ServerStep
  <2>4. CASE StopCalled \/ Owner
    BY <2>4, OwnerKeeps
  <2>5. CASE UNCHANGED vars
    BY <2>5 DEF vars, serverVars, StoreInv, AckMeansWritten, UpToDate, WellFormed, HalfWritten
  <2> QED  BY <2>0, <2>1, <2>2, <2>3, <2>4, <2>5 DEF Next, Terminated
<1> QED  BY <1>1, <1>2, PTL DEF Spec

\* WritePathToServer returns only when no bucket file of the path has its old
\* contents: each has the new ones, or was lost by a flush nobody looked at.
THEOREM AcknowledgedIsWritten == Spec => []AckMeansWritten
<1>1. StoreInv => AckMeansWritten
  BY DEF StoreInv
<1> QED  BY <1>1, StoreInvInductive, PTL

\* On a disk that does not fail the acknowledgement means what the design says:
\* the whole path is in the bucket files, and nothing else has changed.
THEOREM AcknowledgedIsStored == ASSUME "disk" \notin Faults PROVE Spec => []AckMeansStored
<1>1. StoreInv => AckMeansStored
  <2> SUFFICES ASSUME StoreInv, resp.cmd = "ack" PROVE tree = image
    BY DEF AckMeansStored
  <2>1. \A n \in Nodes : tree[n] = image[n]
    BY DEF StoreInv, AckMeansWritten, UpToDate, Written
  <2> QED  BY <2>1 DEF StoreInv
<1> QED  BY <1>1, StoreInvInductive, PTL

\* The loop never takes the bytes of a request it refused for a command, whatever
\* the client sends.
THEOREM NoCommandFromTheMiddle == Spec => []CommandsAreCommands
<1>1. StoreInv => CommandsAreCommands
  BY DEF StoreInv, CommandsAreCommands
<1> QED  BY <1>1, StoreInvInductive, PTL

-----------------------------------------------------------------------------
\* A bucket that can be read is read as the requests made it, if its file is
\* whole.
LEMMA ReadIsWhole ==
    ASSUME StoreInv, spc = "recv", NEW n \in Nat, Stored(n), NEW bucket \in BucketsRead(n)
    PROVE  Whole(n, bucket)
<1>1. UpToDate /\ image \in [Nodes -> Buckets] /\ nodeCount \in {0, NumTreeNodes}
  BY DEF StoreInv
<1>2. n \in Nodes /\ tree[n] # << >>
  BY <1>1, NodesBelow, Constants DEF Stored
<1>3. tree[n] = image[n] \/ tree[n] = Torn
  BY <1>1, <1>2, WrittenFacts DEF UpToDate
<1>4. CASE tree[n] # Torn
  <2>1. bucket = DeserializeBucket(image[n])
    BY <1>3, <1>4 DEF BucketsRead
  <2> QED  BY <1>1, <1>2, <2>1, BucketFacts DEF Whole
<1> QED  BY <1>4 DEF Whole

\* The two answers that show buckets show them whole.
LEMMA AnswersAreWhole ==
    ASSUME StoreInv, Serve, resp' # resp
    PROVE  /\ resp'.cmd = "bucket" => Whole(req.node, resp'.bucket)
           /\ resp'.cmd = "path" =>
                \A k \in 1 .. TreeHeight + 1 : Whole(req.path[k], resp'.buckets[k])
<1>1. CASE HandleReadBucket
  <2>1. spc = "recv" /\ req.cmd = "R" /\ Stored(req.node)
    BY <1>1 DEF HandleReadBucket, Command
  <2>2. PICK bucket \in BucketsRead(req.node) : resp' = [cmd |-> "bucket", bucket |-> bucket]
    BY <1>1 DEF HandleReadBucket, SendReply
  <2>3. req.node \in Nat
    BY <2>1 DEF StoreInv, WellFormed
  <2> QED  BY <2>1, <2>2, <2>3, ReadIsWhole
<1>2. CASE HandleReadPath
  <2>1. /\ spc = "recv" /\ req.cmd = "P" /\ Len(req.path) = TreeHeight + 1
        /\ \A k \in DOMAIN req.path : Stored(req.path[k])
    BY <1>2 DEF HandleReadPath, Command
  <2>2. PICK buckets : /\ \A k \in DOMAIN req.path : buckets[k] \in BucketsRead(req.path[k])
                       /\ resp' = [cmd |-> "path", buckets |-> buckets]
    BY <1>2 DEF HandleReadPath, SendReply
  <2>3. req.path \in Seq(Nat)
    BY <2>1 DEF StoreInv, WellFormed
  <2>4. \A k \in 1 .. TreeHeight + 1 : k \in DOMAIN req.path /\ req.path[k] \in Nat
    BY <2>1, <2>3
  <2>5. \A k \in 1 .. TreeHeight + 1 : Whole(req.path[k], buckets[k])
    BY <2>1, <2>2, <2>4, ReadIsWhole
  <2> QED  BY <2>2, <2>5
<1>3. CASE AckWritePath
  BY <1>3 DEF AckWritePath, SendReply
<1> QED
  BY <1>1, <1>2, <1>3 DEF Serve, ServerStep, HandleWriteBucket, HandleWritePath,
     WritePathBucket, HandleQuit, HandleUnknown, ServerRecvThrows

\* No read is answered with a part of a write or with what a failed Init or a
\* later write should have replaced: what HandleReadBucket and HandleReadPath
\* send is what the requests served before made of the buckets, unless the file
\* was cut off after its count, of which the code promises nothing.
THEOREM ReadsAreWhole == Spec => ReadsSeeWholeWrites
<1>1. StoreInv /\ [Next]_vars =>
        [/\ resp' # resp /\ resp'.cmd = "bucket" => Whole(req.node, resp'.bucket)
         /\ resp' # resp /\ resp'.cmd = "path" =>
              \A k \in 1 .. TreeHeight + 1 : Whole(req.path[k], resp'.buckets[k])]_vars
  <2> SUFFICES ASSUME StoreInv, Next, resp' # resp
               PROVE  /\ resp'.cmd = "bucket" => Whole(req.node, resp'.bucket)
                      /\ resp'.cmd = "path" =>
                           \A k \in 1 .. TreeHeight + 1 : Whole(req.path[k], resp'.buckets[k])
    OBVIOUS
  <2>1. Serve \/ TakeReply
    BY DEF Next, InitAny, InitServer, InitClearFails, InitServerClearFails, Ask, HangUp,
       ConnectionLost, StopCalled, Stop, Owner, StartHandleRequests, DestroyServer, Terminated, vars
  <2>2. CASE Serve
    BY <2>2, AnswersAreWhole
  <2>3. CASE TakeReply
    BY <2>3, NoMsgFacts DEF TakeReply
  <2> QED  BY <2>1, <2>2, <2>3
<1> QED  BY <1>1, StoreInvInductive, PTL DEF Spec, ReadsSeeWholeWrites
=============================================================================
