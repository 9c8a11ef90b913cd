-------------------------- MODULE OnionRingProofs ---------------------------
(***************************************************************************)
(* Theorems about OnionRing.                                               *)
(***************************************************************************)
EXTENDS OnionRing, FoundationsLemmas, FiniteSetTheorems

LEMMA Constants ==
    /\ TreeHeight \in Nat /\ NumBlocks \in Nat \ {0} /\ BucketSlots \in Nat \ {0}
    /\ ByteModulus \in Nat \ {0} /\ SizeTModulus \in Nat \ {0} /\ A \in Nat
    /\ NumLeaves \in Nat \ {0} /\ NumTreeNodes \in Nat \ {0} /\ NumTreeNodes = 2 * NumLeaves - 1
    /\ 0 \in Nodes /\ 0 \in Leaves /\ Zero \in Data /\ 1 \in Slots
    /\ NoResult \notin Data /\ NoBlock \notin Addr
<1>1. /\ Pow2(TreeHeight) \in Nat /\ Pow2(TreeHeight) >= 1
      /\ Pow2(TreeHeight + 1) = 2 * Pow2(TreeHeight)
  BY TreeHeightAssumption, Pow2Step
<1> QED
  BY <1>1, TreeHeightAssumption, OnionBucketsAssumption, OnionClientAssumption
     DEF NumLeaves, NumTreeNodes, Leaves, Nodes, Zero, Data, Slots, Addr, NoBlock

LEMMA PathsFacts ==
    ASSUME NEW leaf \in Leaves
    PROVE  /\ Paths[leaf] \in Seq(Nodes) /\ Len(Paths[leaf]) = TreeHeight + 1
           /\ DOMAIN Paths[leaf] = 1 .. TreeHeight + 1 /\ Paths[leaf] # << >>
           /\ \A k \in 1 .. TreeHeight + 1 :
                 Paths[leaf][k] \in Nodes /\ Paths[leaf][k] = PathNode(leaf, TreeHeight + 1 - k)
           /\ \A j, k \in 1 .. TreeHeight + 1 : Paths[leaf][j] = Paths[leaf][k] => j = k
           /\ Paths[leaf][1] = 0
<1>1. Paths[leaf] = PathFromRoot(leaf)
  BY DEF Paths
<1>2. PathFromRoot(leaf) \in Seq(Nodes) /\ Len(PathFromRoot(leaf)) = TreeHeight + 1
  BY PathFromRootNodes
<1>3. DOMAIN Paths[leaf] = 1 .. TreeHeight + 1 /\ Paths[leaf] # << >>
  BY <1>1, <1>2, Constants
<1>4. Paths[leaf][1] = 0
  <2>1. 1 \in 1 .. TreeHeight + 1 /\ TreeHeight + 1 - 1 = TreeHeight /\ TreeHeight \in Levels
    BY Constants DEF Levels
  <2> QED  BY <1>1, <2>1, PathFromRootNodes, PathReachesRoot
<1> QED  BY <1>1, <1>2, <1>3, <1>4, PathFromRootNodes

LEMMA EvictionLeafType ==
    ASSUME evictions \in Nat
    PROVE  EvictionLeaf \in Leaves
<1>1. evictions % NumLeaves \in Nat
  BY Constants
<1> QED  BY <1>1, Constants, ReverseBitsBound DEF EvictionLeaf, Leaves, NumLeaves

LEMMA PlusType ==
    ASSUME NEW x \in Data, NEW y \in Data
    PROVE  Plus(x, y) \in Data
<1>1. x + y \in Nat /\ ByteModulus \in Nat \ {0}
  BY Constants DEF Data
<1>2. (x + y) % ByteModulus \in 0 .. ByteModulus - 1
  BY <1>1
<1> QED  BY <1>2 DEF Plus, Data

-----------------------------------------------------------------------------
\* The loop of HandleAccess, level by level.
SumPrefixes(f, path, selections) ==
    /\ f \in [0 .. Len(path) -> Data]
    /\ f[0] = Zero
    /\ \A k \in 1 .. Len(path) : f[k] = Plus(f[k - 1], tree[path[k]][selections[k]])
    /\ PathSum(path, selections) = f[Len(path)]

LEMMA PathSumSteps ==
    ASSUME NEW path \in Seq(Nodes), NEW selections \in [1 .. Len(path) -> Slots], tree \in [Nodes -> Contents]
    PROVE  \E f : SumPrefixes(f, path, selections)
<1> DEFINE N == Len(path)
           Term(k) == tree[path[k]][selections[k]]
           g == [p \in Nat \X Data |-> IF p[1] + 1 \in 1 .. N THEN Plus(p[2], Term(p[1] + 1)) ELSE p[2]]
           Body(h) == [k \in 0 .. N |-> IF k = 0 THEN Zero ELSE Plus(h[k - 1], tree[path[k]][selections[k]])]
           sum == CHOOSE h : h = Body(h)
<1>0. N \in Nat
  OBVIOUS
<1>1. \A k \in 1 .. N : Term(k) \in Data
  BY DEF Contents
<1>2. g \in [Nat \X Data -> Data]
  <2>1. ASSUME NEW p \in Nat \X Data, p[1] + 1 \in 1 .. N
        PROVE  Plus(p[2], Term(p[1] + 1)) \in Data
    <3>1. p[2] \in Data /\ Term(p[1] + 1) \in Data
      BY <1>1, <2>1
    <3> HIDE DEF Term
    <3> QED  BY <3>1, PlusType
  <2> HIDE DEF Term, N
  <2> QED  BY <2>1
<1>3. PICK h \in [Nat -> Data] : h[0] = Zero /\ \A k \in Nat : h[k + 1] = g[<<k, h[k]>>]
  <2>1. \E h : Recursion(h, Data, Zero, g)
    <3> HIDE DEF g
    <3> QED  BY <1>2, RecursionExists, Constants, Zenon
  <2> HIDE DEF g
  <2> QED  BY <2>1 DEF Recursion
<1> DEFINE f == [k \in 0 .. N |-> h[k]]
<1>4. ASSUME NEW k \in 1 .. N
      PROVE  f[k] = Plus(f[k - 1], tree[path[k]][selections[k]])
  <2>1. k - 1 \in Nat /\ k - 1 \in 0 .. N /\ (k - 1) + 1 = k /\ k \in 0 .. N
    BY <1>0
  <2>2. g[<<k - 1, h[k - 1]>>] = Plus(h[k - 1], Term(k))
    <3> HIDE DEF Term, N
    <3> QED  BY <2>1
  <2> HIDE DEF g, N
  <2>3. h[k] = Plus(h[k - 1], Term(k))
    BY <1>3, <2>1, <2>2
  <2> QED  BY <2>1, <2>3
<1>5. f = Body(f)
  <2>1. ASSUME NEW k \in 0 .. N
        PROVE  f[k] = IF k = 0 THEN Zero ELSE Plus(f[k - 1], tree[path[k]][selections[k]])
    <3>1. CASE k = 0
      BY <1>3, <3>1
    <3>2. CASE k # 0
      <4>1. k \in 1 .. N
        BY <1>0, <3>2
      <4> HIDE DEF f
      <4> QED  BY <1>4, <3>2, <4>1
    <3> QED  BY <3>1, <3>2
  <2>2. f = [k \in 0 .. N |-> f[k]]
    OBVIOUS
  <2> HIDE DEF f, N
  <2> QED  BY <2>1, <2>2
<1>6. sum = Body(sum)
  <2> HIDE DEF f
  <2> QED  BY <1>5, Zenon
<1>7. PathSum(path, selections) = sum[N]
  BY Zenon DEF PathSum
<1> HIDE DEF f, sum, g
<1>8. sum[0] = Zero /\ \A k \in 1 .. N : sum[k] = Plus(sum[k - 1], Term(k))
  <2>1. \A k \in 0 .. N : Body(sum)[k] = IF k = 0 THEN Zero ELSE Plus(sum[k - 1], Term(k))
    OBVIOUS
  <2> HIDE DEF Body, Term, N
  <2>2. 0 \in 0 .. N /\ \A k \in 1 .. N : k \in 0 .. N /\ k # 0
    BY <1>0
  <2> QED  BY <1>6, <2>1, <2>2
<1>9. \A k \in 0 .. N : sum[k] \in Data
  <2> SUFFICES ASSUME {k \in 0 .. N : sum[k] \notin Data} # {} PROVE FALSE
    OBVIOUS
  <2>1. PICK k \in {j \in 0 .. N : sum[j] \notin Data} :
               \A j \in {j \in 0 .. N : sum[j] \notin Data} : k <= j
    BY <1>0, LeastNatural, {j \in 0 .. N : sum[j] \notin Data} \subseteq Nat
  <2> HIDE DEF Term, N
  <2>2. k \in 1 .. N /\ k - 1 \in 0 .. N
    BY <1>0, <1>8, <2>1, Constants
  <2>3. sum[k - 1] \in Data
    BY <2>1, <2>2
  <2> QED  BY <1>1, <1>8, <2>1, <2>2, <2>3, PlusType
<1>10. sum = [k \in 0 .. N |-> sum[k]]
  BY <1>6
<1> HIDE DEF Body
<1>11. SumPrefixes(sum, path, selections)
  BY <1>7, <1>8, <1>9, <1>10 DEF SumPrefixes
<1> QED  BY <1>11

LEMMA PathSumType ==
    ASSUME NEW path \in Seq(Nodes), NEW selections \in [1 .. Len(path) -> Slots], tree \in [Nodes -> Contents]
    PROVE  PathSum(path, selections) \in Data
<1>1. PICK f : SumPrefixes(f, path, selections)
  BY PathSumSteps
<1>2. Len(path) \in 0 .. Len(path)
  OBVIOUS
<1> QED  BY <1>1, <1>2 DEF SumPrefixes

\* The slot FindSlot finds.
LEMMA FindSlotFacts ==
    ASSUME NEW ids \in [Nodes -> Ids], NEW n \in Nodes, NEW id
    PROVE  \/ /\ FindSlot(ids, n, id) \in Slots
              /\ ids[n][FindSlot(ids, n, id)] = id
           \/ /\ FindSlot(ids, n, id) = NoSlot
              /\ \A s \in Slots : ids[n][s] # id
<1> DEFINE I == {i \in 1 .. Len(ids[n]) : ids[n][i] = id}
<1>1. ids[n] \in Seq(Addr \cup {NoBlock}) /\ Len(ids[n]) = BucketSlots
  BY Constants DEF Ids, Slots
<1>2. FindSlot(ids, n, id) = IF I # {} THEN Min(I) ELSE 0
  BY Zenon DEF FindSlot, SelectInSeq
<1>3. I \subseteq Slots /\ \A i \in I : ids[n][i] = id
  BY <1>1 DEF Slots
<1>4. CASE I # {}
  <2>1. \E m \in I : \A k \in I : m <= k
    <3>1. I \subseteq Nat
      OBVIOUS
    <3> HIDE DEF I
    <3> QED  BY <1>4, <3>1, LeastNatural
  <2>2. Min(I) \in I
    <3> HIDE DEF I
    <3> QED  BY <2>1 DEF Min
  <2> HIDE DEF I
  <2> QED  BY <1>2, <1>3, <1>4, <2>2
<1>5. CASE I = {}
  <2>1. \A s \in Slots : ids[n][s] # id
    BY <1>1, <1>5 DEF Slots
  <2> HIDE DEF I
  <2> QED  BY <1>2, <1>5, <2>1 DEF NoSlot
<1> QED  BY <1>4, <1>5

LEMMA BlockOrDummyFacts ==
    ASSUME NEW ids \in [Nodes -> Ids], NEW n \in Nodes, NEW id
    PROVE  LET slot == BlockOrDummySlot(ids, n, id)
           IN  /\ slot \in Slots \cup {NoSlot}
               /\ slot # NoSlot => slot \in Slots /\ ids[n][slot] \in {id, NoBlock}
               /\ slot = NoSlot => \A s \in Slots : ids[n][s] \notin {id, NoBlock}
               /\ (\E s \in Slots : ids[n][s] = id) => slot \in Slots /\ ids[n][slot] = id
<1>1. NoSlot \notin Slots
  BY DEF NoSlot, Slots
<1> QED  BY <1>1, FindSlotFacts DEF BlockOrDummySlot

\* The client waits for a message.
Waiting == cpc \in {"sum", "clear", "root", "fetch", "write"}

\* The request the client's step is waiting to have answered, and the answer.
Asking ==
    \/ cpc = "sum" /\ req.cmd = "A"
    \/ cpc = "clear" /\ req.cmd = "C"
    \/ cpc \in {"root", "write"} /\ req.cmd = "U"
    \/ cpc = "fetch" /\ req.cmd = "R"

Answered ==
    \/ cpc = "sum" /\ resp.cmd = "sum"
    \/ cpc \in {"clear", "root", "write"} /\ resp.cmd = "K"
    \/ cpc = "fetch" /\ resp.cmd = "bucket"

\* One message at a time, and the right one: what the client and the server have
\* in common of a conversation that a lost connection may break off.
Conversation ==
    /\ req = NoMsg \/ resp = NoMsg
    /\ resp # NoMsg => Answered
    /\ conn = "up" => (req # NoMsg => Asking)
    /\ conn = "up" /\ Waiting => req # NoMsg \/ resp # NoMsg
    /\ ~ failed /\ ~ Waiting /\ cpc # "destroyed" => req = NoMsg
    /\ spc = "clear" => req.cmd = "C"
    /\ req.cmd = "C" => Len(req.selections) <= TreeHeight + 1
    /\ cpc = "destroyed" => conn = "down"

\* Which of the client's variables are in use where.
CallShape ==
    /\ call = NoCall <=> cpc \in {"idle", "destroyed"}
    /\ result # NoResult <=> cpc \in {"place", "retry", "root", "fetch", "write", "return"}
    /\ cpc \in {"sum", "clear"} => picks \in [1 .. TreeHeight + 1 -> Slots]
    /\ cpc \in {"idle", "select", "return", "destroyed"} => picks = << >>
    /\ cpc \in {"place", "retry", "root"} => picks # << >>
    /\ cpc \notin {"fetch", "write"} => todo = << >>
    /\ cpc # "fetch" => fetched = << >>
    /\ cpc # "write" => contents = << >>
    /\ cpc = "fetch" => Len(fetched) < Len(Involved)
    /\ cpc = "write" => Len(contents) = Len(WriteOrder) /\ cursor[1] \in 1 .. Len(contents)

\* The buckets of Evict's loop: the rest of a path, down to its leaf.
LoopShape ==
    cpc \in {"fetch", "write"} =>
        /\ Len(todo) \in 1 .. TreeHeight + 1
        /\ \E leaf \in Leaves : \A i \in 1 .. Len(todo) : todo[i] = PathNode(leaf, Len(todo) - i)

Shape == TypeOK /\ Conversation /\ CallShape /\ LoopShape

\* No call has thrown, or can only throw.
Sound == ~ failed /\ cpc # "destroyed" /\ (Waiting => req # NoMsg \/ resp # NoMsg)

Value(id) == IF id = NoBlock THEN Zero ELSE oracle[id]

\* The path a block is on, and the block that is in no bucket.
LeafOf(id) == IF cpc \in {"select", "sum", "clear"} /\ call.addr = id THEN oldLeaf ELSE posMap[id]
InHand(id) == picks # << >> /\ cpc \notin {"sum", "clear"} /\ call.addr = id

\* A map of ids to be believed.
MapHolds(ids) ==
    /\ \A n, m \in Nodes, s, t \in Slots : ids[n][s] = ids[m][t] /\ ids[n][s] # NoBlock => n = m /\ s = t
    /\ \A n \in Nodes, s \in Slots : ids[n][s] # NoBlock => OnPath(n, LeafOf(ids[n][s]))
    /\ \A a \in Addr : (\A n \in Nodes, s \in Slots : ids[n][s] # a) => oracle[a] = Zero \/ InHand(a)
    /\ \A a \in Addr : InHand(a) => \A n \in Nodes, s \in Slots : ids[n][s] # a

PathPick(n, s) == \E k \in 1 .. TreeHeight + 1 : Paths[oldLeaf][k] = n /\ picks[k] = s

\* The selections find the block, if it has a slot, and nothing else.
PicksHold ==
    cpc \in {"sum", "clear"} =>
        /\ \A n \in Nodes, s \in Slots : PathPick(n, s) => idMap[n][s] \in {NoBlock, call.addr}
        /\ \A n \in Nodes, s \in Slots : idMap[n][s] = call.addr => PathPick(n, s)

\* The slots the client is having written.
UnderWay(n, s) ==
    \/ cpc = "clear" /\ PathPick(n, s)
    \/ cpc = "root" /\ n = 0 /\ s = RootSlot
    \/ cpc = "write" /\ \E k \in 1 .. Len(WriteOrder) : WriteOrder[k] = n

Mirror == \A n \in Nodes, s \in Slots : ~ UnderWay(n, s) => tree[n][s] = Value(idMap[n][s])

SumState ==
    cpc = "sum" =>
        \/ req = [cmd |-> "A", leaf |-> oldLeaf, selections |-> picks]
        \/ resp = [cmd |-> "sum", sum |-> oracle[call.addr]]

\* The first of the path's slots are cleared, the others in the request still.
ClearedUpTo(d) == \A k \in 1 .. d : tree[Paths[oldLeaf][k]][picks[k]] = Zero

ClearState ==
    cpc = "clear" =>
        /\ pathSum = oracle[call.addr]
        /\ \/ resp # NoMsg /\ ClearedUpTo(TreeHeight + 1)
           \/ /\ req # NoMsg
              /\ req.cmd = "C"
              /\ req.leaf = oldLeaf
              /\ \A i \in 1 .. Len(req.selections) :
                    req.selections[i] = picks[TreeHeight + 1 - Len(req.selections) + i]
              /\ ClearedUpTo(TreeHeight + 1 - Len(req.selections))

RootState ==
    cpc = "root" =>
        /\ RootSlot \in Slots
        /\ idMap[0][RootSlot] = NoBlock
        /\ \/ req = [cmd |-> "U", node |-> 0, slot |-> RootSlot, data |-> result]
           \/ resp # NoMsg /\ tree[0][RootSlot] = result

FetchState ==
    cpc = "fetch" =>
        /\ \A k \in 1 .. Len(fetched) : fetched[k] = tree[Involved[k]]
        /\ \/ req = [cmd |-> "R", node |-> Involved[Len(fetched) + 1]]
           \/ resp = [cmd |-> "bucket", slots |-> tree[Involved[Len(fetched) + 1]]]

\* Written already, the slot at the cursor apart.
BeforeCursor(k, s) == k < cursor[1] \/ (k = cursor[1] /\ s < cursor[2])

WrittenAt(k, s) == tree[WriteOrder[k]][s] = contents[k][s].data

WriteState ==
    cpc = "write" =>
        /\ MapHolds(InstallIds)
        /\ \A k \in 1 .. Len(contents), s \in Slots : contents[k][s].data = Value(contents[k][s].id)
        /\ \A k \in 1 .. Len(contents), s \in Slots : BeforeCursor(k, s) => WrittenAt(k, s)
        /\ \/ req = WriteOf(contents, cursor[1], cursor[2])
           \/ resp # NoMsg /\ WrittenAt(cursor[1], cursor[2])

Truth ==
    /\ MapHolds(idMap)
    /\ \A a \in Addr : InHand(a) => result = oracle[a]
    /\ PicksHold
    /\ Mirror
    /\ SumState /\ ClearState /\ RootState /\ FetchState /\ WriteState

IInv == Shape /\ (Sound => Truth)

-----------------------------------------------------------------------------
LEMMA NoMsgFacts == NoMsg.cmd = "none" /\ Ack.cmd = "K" /\ NoMsg \in Requests \cup {NoMsg}
BY DEF NoMsg, Ack

LEMMA RequestShapes ==
    ASSUME NEW m \in Requests \cup {NoMsg}
    PROVE  /\ m.cmd \in {"none", "A", "C", "R", "U", "Q"}
           /\ m.cmd = "none" <=> m = NoMsg
           /\ m.cmd \in {"A", "C"} => m.leaf \in Leaves
           /\ m.cmd = "A" => m.selections \in [1 .. TreeHeight + 1 -> Slots]
           /\ m.cmd = "C" => /\ m.selections \in Seq(Slots)
                             /\ m = [cmd |-> "C", leaf |-> m.leaf, selections |-> m.selections]
           /\ m.cmd \in {"R", "U"} => m.node \in Nodes
           /\ m.cmd = "U" => m.slot \in Slots /\ m.data \in Data
<1> DEFINE Picked == [1 .. TreeHeight + 1 -> Slots]
           Listed == Seq(Slots)
<1>1. \/ m = NoMsg
      \/ m \in [cmd : {"A"}, leaf : Leaves, selections : Picked]
      \/ m \in [cmd : {"C"}, leaf : Leaves, selections : Listed]
      \/ m \in [cmd : {"R"}, node : Nodes]
      \/ m \in [cmd : {"U"}, node : Nodes, slot : Slots, data : Data]
      \/ m \in [cmd : {"Q"}]
  BY DEF Requests
<1> HIDE DEF Picked, Listed
<1>2. CASE m = NoMsg
  BY <1>2, NoMsgFacts
<1>3. CASE m \in [cmd : {"A"}, leaf : Leaves, selections : Picked]
  BY <1>3, NoMsgFacts DEF Picked
<1>4. CASE m \in [cmd : {"C"}, leaf : Leaves, selections : Listed]
  BY <1>4, NoMsgFacts DEF Listed
<1>5. CASE m \in [cmd : {"R"}, node : Nodes]
  BY <1>5, NoMsgFacts
<1>6. CASE m \in [cmd : {"U"}, node : Nodes, slot : Slots, data : Data]
  BY <1>6, NoMsgFacts
<1>7. CASE m \in [cmd : {"Q"}]
  BY <1>7, NoMsgFacts
<1> QED  BY <1>1, <1>2, <1>3, <1>4, <1>5, <1>6, <1>7

LEMMA RequestMakers ==
    /\ \A leaf \in Leaves : \A s \in [1 .. TreeHeight + 1 -> Slots] :
          [cmd |-> "A", leaf |-> leaf, selections |-> s] \in Requests
    /\ \A leaf \in Leaves : \A s \in Seq(Slots) :
          [cmd |-> "C", leaf |-> leaf, selections |-> s] \in Requests
    /\ \A n \in Nodes : [cmd |-> "R", node |-> n] \in Requests
    /\ \A n \in Nodes, s \in Slots, d \in Data :
          [cmd |-> "U", node |-> n, slot |-> s, data |-> d] \in Requests
    /\ [cmd |-> "Q"] \in Requests
<1> DEFINE Picked == [1 .. TreeHeight + 1 -> Slots]
           Listed == Seq(Slots)
<1>1. /\ [cmd : {"A"}, leaf : Leaves, selections : Picked] \subseteq Requests
      /\ [cmd : {"C"}, leaf : Leaves, selections : Listed] \subseteq Requests
      /\ [cmd : {"R"}, node : Nodes] \subseteq Requests
      /\ [cmd : {"U"}, node : Nodes, slot : Slots, data : Data] \subseteq Requests
      /\ [cmd : {"Q"}] \subseteq Requests
  BY DEF Requests
<1> HIDE DEF Picked, Listed
<1>2. \A leaf \in Leaves : \A s \in Picked : [cmd |-> "A", leaf |-> leaf, selections |-> s] \in Requests
  BY <1>1
<1>3. \A leaf \in Leaves : \A s \in Listed : [cmd |-> "C", leaf |-> leaf, selections |-> s] \in Requests
  BY <1>1
<1>4. \A n \in Nodes : [cmd |-> "R", node |-> n] \in Requests
  BY <1>1
<1>5. \A n \in Nodes, s \in Slots, d \in Data :
          [cmd |-> "U", node |-> n, slot |-> s, data |-> d] \in Requests
  BY <1>1
<1>6. [cmd |-> "Q"] \in Requests
  BY <1>1
<1> QED  BY <1>2, <1>3, <1>4, <1>5, <1>6 DEF Picked, Listed

LEMMA ReplyShapes ==
    ASSUME NEW m \in Replies \cup {NoMsg}
    PROVE  /\ m.cmd \in {"none", "sum", "bucket", "K"}
           /\ m.cmd = "none" <=> m = NoMsg
           /\ m.cmd = "sum" => m.sum \in Data
           /\ m.cmd = "bucket" => m.slots \in Contents
           /\ m.cmd = "K" => m = Ack
<1>1. m = NoMsg \/ m = Ack \/ m \in [cmd : {"sum"}, sum : Data] \/ m \in [cmd : {"bucket"}, slots : Contents]
  BY DEF Replies
<1>2. CASE m = NoMsg \/ m = Ack
  BY <1>2, NoMsgFacts
<1>3. CASE m \in [cmd : {"sum"}, sum : Data]
  BY <1>3, NoMsgFacts
<1>4. CASE m \in [cmd : {"bucket"}, slots : Contents]
  BY <1>4, NoMsgFacts
<1> QED  BY <1>1, <1>2, <1>3, <1>4

LEMMA ReplyMakers ==
    /\ Ack \in Replies
    /\ \A d \in Data : [cmd |-> "sum", sum |-> d] \in Replies
    /\ \A c \in Contents : [cmd |-> "bucket", slots |-> c] \in Replies
BY DEF Replies

LEMMA CallFacts ==
    ASSUME NEW c \in Calls
    PROVE  /\ c # NoCall /\ c.addr \in Addr /\ c.data \in Data /\ c.op \in {"READ", "WRITE"}
<1>1. Zero \in Data
  BY Constants
<1>2. NoCall.op = "none"
  BY DEF NoCall
<1> QED  BY <1>1, <1>2 DEF Calls

-----------------------------------------------------------------------------
LEMMA CountDown == \A h, n \in Nat : n >= 1 /\ n <= h + 1 => (h + 1) - n + 1 \in 1 .. h + 1
OBVIOUS

LEMMA OneOrMore == \A n \in Nat : n >= 1 => (n > 1 <=> n # 1)
OBVIOUS

\* The buckets a turn of Evict's loop is about are of the tree.
LEMMA LoopFacts ==
    ASSUME TypeOK, LoopShape, cpc \in {"fetch", "write"}
    PROVE  /\ Source \in Nodes
           /\ Len(todo) > 1 => {2 * Source + 1, 2 * Source + 2} \subseteq Nodes
           /\ Involved \in Seq(Nodes) /\ WriteOrder \in Seq(Nodes)
           /\ Len(Involved) = Len(WriteOrder) /\ Len(WriteOrder) \in {1, 3}
           /\ \A j, k \in 1 .. Len(WriteOrder) : WriteOrder[j] = WriteOrder[k] => j = k
           /\ \A k \in 1 .. Len(WriteOrder) : WriteOrder[k] \in Nodes
           /\ \A k \in 1 .. Len(Involved) : Involved[k] \in Nodes
           /\ Involved[1] = Source
           /\ Len(WriteOrder) = 1 <=> Len(todo) = 1
<1>9. Len(todo) \in Nat /\ Len(todo) >= 1
  BY Constants DEF LoopShape
<1>1. todo \in Seq(Nodes) /\ Len(todo) \in 1 .. TreeHeight + 1 /\ Source = todo[1] /\ Source \in Nodes
  BY Constants DEF TypeOK, LoopShape, Source
<1>2. CASE Len(todo) = 1
  <2>1. Involved = <<Source>> /\ WriteOrder = <<Source>>
    BY <1>2 DEF Involved, WriteOrder
  <2> QED  BY <1>1, <1>2, <2>1
<1>3. CASE Len(todo) > 1
  <2>1. PICK leaf \in Leaves : \A i \in 1 .. Len(todo) : todo[i] = PathNode(leaf, Len(todo) - i)
    BY DEF LoopShape
  <2> DEFINE i == Len(todo) - 1
  <2>2. i \in Levels /\ i >= 1 /\ TreeHeight - i \in Nat /\ Source = PathNode(leaf, i)
    <3>1. 1 \in 1 .. Len(todo)
      BY <1>1
    <3> QED  BY <1>1, <1>3, <2>1, <3>1, Constants DEF Levels
  <2> DEFINE P == Pow2(TreeHeight - i)
             rest == ShiftRight(leaf, i)
  <2>3. rest < P /\ Source = P - 1 + rest
    BY <2>2, PathNodeClosedForm
  <2>4. P \in Nat /\ rest \in Nat
    <3>1. leaf \in Nat /\ i \in Nat
      BY <2>2 DEF Leaves, Levels
    <3> QED  BY <2>2, <3>1, Constants, Pow2Step, ShiftRightStep
  <2>5. 2 * P <= NumLeaves
    <3>1. Pow2((TreeHeight - i) + 1) = 2 * P
      BY <2>2, Pow2Step
    <3>2. (TreeHeight - i) + 1 \in Nat /\ i - 1 \in Nat /\ ((TreeHeight - i) + 1) + (i - 1) = TreeHeight
      BY <2>2, Constants DEF Levels
    <3>3. Pow2(((TreeHeight - i) + 1) + (i - 1)) >= Pow2((TreeHeight - i) + 1)
      BY <3>2, Pow2Monotone
    <3> QED  BY <3>1, <3>2, <3>3 DEF NumLeaves
  <2> HIDE DEF i, P, rest
  <2>6. 2 * Source + 1 \in Nodes /\ 2 * Source + 2 \in Nodes
    BY <1>1, <2>3, <2>4, <2>5, Constants DEF Nodes
  <2>7. /\ Involved = <<Source, 2 * Source + 1, 2 * Source + 2>>
        /\ WriteOrder = <<2 * Source + 1, 2 * Source + 2, Source>>
    <3>1. Len(todo) # 1
      BY <1>9, <1>3, OneOrMore
    <3> QED  BY <3>1 DEF Involved, WriteOrder
  <2>8. Source \in Nat
    BY <1>1 DEF Nodes
  <2>9. /\ Len(Involved) = 3 /\ Len(WriteOrder) = 3
        /\ Involved \in Seq(Nodes) /\ WriteOrder \in Seq(Nodes)
    BY <1>1, <2>6, <2>7
  <2>10. ASSUME NEW j \in 1 .. 3, NEW k \in 1 .. 3, WriteOrder[j] = WriteOrder[k] PROVE j = k
    <3>1. /\ WriteOrder[1] = 2 * Source + 1 /\ WriteOrder[2] = 2 * Source + 2
          /\ WriteOrder[3] = Source
      BY <2>7
    <3>2. j \in {1, 2, 3} /\ k \in {1, 2, 3}
      OBVIOUS
    <3> QED  BY <2>8, <2>10, <3>1, <3>2
  <2>11. Involved[1] = Source
    BY <2>7
  <2>12. \A k \in 1 .. 3 : WriteOrder[k] \in Nodes /\ Involved[k] \in Nodes
    <3> HIDE DEF Nodes
    <3> QED  BY <2>9
  <2>13. Len(todo) # 1
    BY <1>9, <1>3, OneOrMore
  <2> QED  BY <1>1, <2>6, <2>9, <2>10, <2>11, <2>12, <2>13
<1>4. Len(todo) = 1 \/ Len(todo) > 1
  BY <1>9, OneOrMore
<1> QED  BY <1>2, <1>3, <1>4

-----------------------------------------------------------------------------
ServerTypes ==
    /\ tree \in [Nodes -> Contents]
    /\ running \in BOOLEAN
    /\ spc \in ServerPoints
    /\ bucket = 0
    /\ conn \in {"up", "down"}
    /\ req \in Requests \cup {NoMsg}
    /\ resp \in Replies \cup {NoMsg}

ClientTypes ==
    /\ posMap \in [Addr -> Leaves]
    /\ idMap \in [Nodes -> Ids]
    /\ accessCount \in 0 .. SizeTModulus - 1
    /\ evictions \in 0 .. SizeTModulus - 1
    /\ cpc \in ClientPoints
    /\ call \in Calls \cup {NoCall}
    /\ oldLeaf \in Leaves
    /\ picks \in Seq(Slots)
    /\ pathSum \in Data
    /\ result \in Data \cup {NoResult}
    /\ todo \in Seq(Nodes)
    /\ fetched \in Seq(Contents)
    /\ contents \in Seq([Slots -> Entries])
    /\ cursor \in (1 .. 3) \X Slots
    /\ failed \in BOOLEAN
    /\ oracle \in [Addr -> Data]

LEMMA TypeParts ==
    /\ TypeOK <=> ServerTypes /\ ClientTypes
    /\ TypeOK' <=> ServerTypes' /\ ClientTypes'
BY DEF TypeOK, ServerTypes, ClientTypes

LEMMA InitShape == Init => Shape
<1> SUFFICES ASSUME Init PROVE Shape
  OBVIOUS
<1> USE Constants, NoMsgFacts
<1>1. /\ tree = [n \in Nodes |-> ClearedBucket] /\ running = FALSE /\ spc = "constructed" /\ bucket = 0
      /\ conn = "up" /\ req = NoMsg /\ resp = NoMsg /\ oracle = [a \in Addr |-> Zero]
  BY DEF Init, ConstructServer
<1>2. /\ posMap \in [Addr -> Leaves] /\ idMap = [n \in Nodes |-> AllDummies]
      /\ accessCount = 0 /\ evictions = 0 /\ cpc = "idle" /\ call = NoCall /\ oldLeaf = 0
      /\ picks = << >> /\ pathSum = Zero /\ result = NoResult /\ todo = << >> /\ fetched = << >>
      /\ contents = << >> /\ cursor = <<1, 1>> /\ failed = FALSE
  BY DEF Init, ConstructClient, Start
<1>3. ServerTypes
  <2>1. tree \in [Nodes -> Contents]
    BY <1>1 DEF Contents, ClearedBucket
  <2> QED  BY <1>1, <2>1 DEF ServerTypes, ServerPoints
<1>4. ClientTypes
  <2>1. idMap \in [Nodes -> Ids]
    BY <1>2 DEF Ids, AllDummies
  <2>2. cursor \in (1 .. 3) \X Slots /\ oracle \in [Addr -> Data] /\ 0 \in 0 .. SizeTModulus - 1
    BY <1>1, <1>2
  <2>3. /\ picks \in Seq(Slots) /\ todo \in Seq(Nodes) /\ fetched \in Seq(Contents)
        /\ contents \in Seq([Slots -> Entries])
    BY <1>2
  <2> QED  BY <1>2, <2>1, <2>2, <2>3 DEF ClientTypes, ClientPoints
<1>5. Conversation
  BY <1>1, <1>2 DEF Conversation, Waiting
<1>6. CallShape /\ LoopShape
  BY <1>2 DEF CallShape, LoopShape
<1> QED  BY <1>3, <1>4, <1>5, <1>6, TypeParts DEF Shape

LEMMA QuietFacts ==
    ASSUME Shape, ~ Waiting
    PROVE  resp = NoMsg /\ (req = NoMsg \/ conn = "down")
BY DEF Shape, TypeOK, Conversation, Asking, Answered, Waiting

LEMMA RepliedFacts ==
    ASSUME Shape, resp # NoMsg
    PROVE  req = NoMsg /\ Answered /\ spc # "clear"
BY NoMsgFacts DEF Shape, Conversation

\* Steps of the server's thread, of the one that stops it and of the network that
\* leave the tree and the messages alone.
LEMMA PassKeeps ==
    ASSUME Shape, UNCHANGED <<clientVars, oracle, tree, bucket, req, resp>>,
           running' \in BOOLEAN, spc' \in ServerPoints, conn' \in {conn, "down"},
           spc' = "clear" => req.cmd = "C"
    PROVE  Shape'
<1>1. ServerTypes /\ ClientTypes
  BY TypeParts DEF Shape
<1>2. ServerTypes' /\ ClientTypes'
  BY <1>1 DEF ServerTypes, ClientTypes, clientVars
<1>3. Conversation'
  BY DEF Shape, Conversation, Asking, Answered, Waiting, clientVars
<1>4. CallShape' /\ LoopShape'
  BY DEF Shape, CallShape, LoopShape, Involved, Source, WriteOrder, clientVars
<1> QED  BY <1>2, <1>3, <1>4, TypeParts DEF Shape

\* A request is consumed, and answered unless the connection is down.
LEMMA AnswerKeeps ==
    ASSUME Shape, UNCHANGED <<clientVars, oracle, bucket, conn>>,
           tree' \in [Nodes -> Contents], running' \in BOOLEAN, spc' \in {"recv", "left"},
           req' = NoMsg,
           \/ conn = "down" /\ resp' = resp
           \/ conn = "up" /\ req # NoMsg /\ resp' \in Replies /\ (Asking => Answered')
    PROVE  Shape'
<1> USE NoMsgFacts
<1>1. ServerTypes /\ ClientTypes
  BY TypeParts DEF Shape
<1>2. ServerTypes'
  BY <1>1 DEF ServerTypes, ServerPoints
<1>3. ClientTypes'
  BY <1>1 DEF ClientTypes, clientVars
<1>4. Conversation'
  <2>1. CASE conn = "down" /\ resp' = resp
    BY <2>1 DEF Shape, Conversation, Answered, Waiting, clientVars
  <2>2. CASE conn = "up" /\ req # NoMsg /\ resp' \in Replies /\ (Asking => Answered')
    <3>1. Asking /\ Answered' /\ cpc' # "destroyed"
      BY <2>2 DEF Shape, Conversation, Asking, clientVars
    <3>2. resp' # NoMsg
      BY <2>2, <3>1 DEF Answered
    <3> QED  BY <2>2, <3>1, <3>2 DEF Conversation
  <2> QED  BY <2>1, <2>2
<1>5. CallShape' /\ LoopShape'
  BY DEF Shape, CallShape, LoopShape, Involved, Source, WriteOrder, clientVars
<1> QED  BY <1>2, <1>3, <1>4, <1>5, TypeParts DEF Shape

\* What Answer does.
LEMMA AnswerFacts ==
    ASSUME NEW m, Answer(m), running \in BOOLEAN, conn \in {"up", "down"}
    PROVE  /\ req' = NoMsg /\ running' \in BOOLEAN /\ spc' \in {"recv", "left"}
           /\ (conn = "down" /\ resp' = resp) \/ (conn = "up" /\ resp' = m)
<1>1. CASE SendReply(m) /\ NextTurn
  BY <1>1 DEF Answer, Consume, SendReply, NextTurn, Leave, MayThrow
<1>2. CASE MayThrow /\ Leave /\ UNCHANGED resp
  BY <1>2 DEF Answer, Consume, MayThrow, Leave
<1> QED  BY <1>1, <1>2 DEF Answer, Consume

LEMMA ServerShape ==
    ASSUME Shape, ServerThread
    PROVE  Shape'
<1> USE Constants, NoMsgFacts
<1>1. ServerTypes /\ ClientTypes
  BY TypeParts DEF Shape
<1>2. UNCHANGED <<clientVars, oracle>>
  BY DEF ServerThread
<1>3. tree \in [Nodes -> Contents] /\ running \in BOOLEAN /\ conn \in {"up", "down"} /\ spc \in ServerPoints
  BY <1>1 DEF ServerTypes
<1>4. CASE StartHandleRequests \/ HandleClearPath \/ DestroyServer
  BY <1>2, <1>3, <1>4, PassKeeps
     DEF StartHandleRequests, HandleClearPath, DestroyServer, Command, ServerPoints
<1>5. CASE HandleAccess
  <2>1. spc = "recv" /\ req.cmd = "A" /\ UNCHANGED <<tree, bucket, conn>>
    BY <1>5 DEF HandleAccess, Command
  <2>2. req.leaf \in Leaves /\ req.selections \in [1 .. TreeHeight + 1 -> Slots]
    BY <1>1, <2>1, RequestShapes DEF ServerTypes
  <2> DEFINE path == PathOf(req.leaf)
             m == [cmd |-> "sum", sum |-> PathSum(path, req.selections)]
  <2>3. Answer(m)
    <3>1. \A k \in DOMAIN req.selections : req.selections[k] \in Slots
      BY <2>2
    <3> QED  BY <1>5, <3>1 DEF HandleAccess
  <2>4. m \in Replies /\ m.cmd = "sum"
    <3>1. req.leaf % NumLeaves \in Leaves
      BY <2>2 DEF Leaves
    <3>2. path \in Seq(Nodes) /\ Len(path) = TreeHeight + 1
      BY <3>1, PathsFacts DEF PathOf
    <3> HIDE DEF path
    <3>3. PathSum(path, req.selections) \in Data
      BY <1>3, <2>2, <3>2, PathSumType
    <3> QED  BY <3>3, ReplyMakers
  <2> HIDE DEF m
  <2>5. Asking => cpc = "sum"
    BY <2>1 DEF Asking
  <2>6. cpc' = cpc
    BY <1>2 DEF clientVars
  <2>7. resp' = m => (Asking => Answered')
    BY <2>4, <2>5, <2>6 DEF Answered
  <2>8. /\ req' = NoMsg /\ running' \in BOOLEAN /\ spc' \in {"recv", "left"}
        /\ (conn = "down" /\ resp' = resp) \/ (conn = "up" /\ resp' = m)
    BY <1>3, <2>3, AnswerFacts
  <2> QED  BY <1>2, <1>3, <2>1, <2>4, <2>7, <2>8, AnswerKeeps
<1>6. CASE ClearSlot
  <2>1. spc = "clear" /\ req.selections # << >> /\ req.cmd = "C"
    BY <1>6 DEF ClearSlot, Shape, Conversation
  <2>2. /\ req.leaf \in Leaves /\ req.selections \in Seq(Slots)
        /\ Len(req.selections) <= TreeHeight + 1
        /\ req = [cmd |-> "C", leaf |-> req.leaf, selections |-> req.selections]
    BY <1>1, <2>1, RequestShapes DEF ServerTypes, Shape, Conversation
  <2> DEFINE path == PathOf(req.leaf)
             node == path[Len(path) - Len(req.selections) + 1]
             slot == Head(req.selections)
  <2>3. slot \in Slots /\ Tail(req.selections) \in Seq(Slots)
        /\ Len(req.selections) \in Nat /\ Len(req.selections) >= 1
        /\ Len(Tail(req.selections)) = Len(req.selections) - 1
    BY <2>1, <2>2
  <2>4. node \in Nodes
    <3>1. req.leaf % NumLeaves \in Leaves
      BY SMTT(40), <2>2 DEF Leaves
    <3>2. \A k \in 1 .. TreeHeight + 1 : path[k] \in Nodes /\ Len(path) = TreeHeight + 1
      BY <3>1, PathsFacts DEF PathOf
    <3> HIDE DEF path
    <3>3. Len(path) = TreeHeight + 1
      BY <3>2
    <3>4. Len(path) - Len(req.selections) + 1 \in 1 .. TreeHeight + 1
      BY <2>2, <2>3, <3>3, CountDown
    <3> QED  BY <3>2, <3>4
  <2>5. /\ tree' = [tree EXCEPT ![node][slot] = Zero]
        /\ req' = [req EXCEPT !.selections = Tail(@)]
        /\ UNCHANGED <<spc, running, resp, bucket, conn>>
    BY <1>6, <2>3 DEF ClearSlot
  <2>6. req' = [cmd |-> "C", leaf |-> req.leaf, selections |-> Tail(req.selections)]
    <3> DEFINE s == req.selections
               l == req.leaf
    <3>1. req = [cmd |-> "C", leaf |-> l, selections |-> s] /\ req' = [req EXCEPT !.selections = Tail(s)]
      BY <2>2, <2>5
    <3> HIDE DEF s, l
    <3>2. req' = [cmd |-> "C", leaf |-> l, selections |-> Tail(s)]
      BY <3>1
    <3> QED  BY <3>2 DEF s, l
  <2> HIDE DEF node, slot
  <2>7. req' \in Requests /\ req'.cmd = "C" /\ req'.selections = Tail(req.selections)
    BY <2>2, <2>3, <2>6, RequestMakers
  <2>8. ServerTypes'
    <3>1. tree' \in [Nodes -> Contents]
      BY <1>3, <2>3, <2>4, <2>5 DEF Contents
    <3> QED  BY <1>1, <2>5, <2>7, <3>1 DEF ServerTypes
  <2>9. ClientTypes'
    BY <1>1, <1>2 DEF ClientTypes, clientVars
  <2>10. Conversation'
    <3>1. req # NoMsg /\ req' # NoMsg /\ resp = NoMsg /\ resp' = NoMsg
      BY <2>1, <2>5, <2>7 DEF Shape, Conversation
    <3>2. Asking => Asking'
      BY <1>2, <2>1, <2>7 DEF Asking, clientVars
    <3>3. Waiting' <=> Waiting
      BY <1>2 DEF Waiting, clientVars
    <3>4. Len(req'.selections) <= TreeHeight + 1
      BY <2>2, <2>3, <2>7
    <3> QED  BY <1>2, <2>1, <2>5, <2>7, <3>1, <3>2, <3>3, <3>4 DEF Shape, Conversation, clientVars
  <2>11. CallShape' /\ LoopShape'
    BY <1>2 DEF Shape, CallShape, LoopShape, Involved, Source, WriteOrder, clientVars
  <2> QED  BY <2>8, <2>9, <2>10, <2>11, TypeParts DEF Shape
<1>7. CASE AckClearPath
  <2>1. req.cmd = "C" /\ UNCHANGED <<tree, bucket, conn>> /\ Answer(Ack)
    BY <1>7 DEF AckClearPath, Shape, Conversation
  <2>2. Asking => cpc = "clear"
    BY <2>1 DEF Asking
  <2>3. resp' = Ack => (Asking => Answered')
    BY <1>2, <2>2 DEF Answered, clientVars
  <2>4. Ack \in Replies
    BY ReplyMakers
  <2>5. /\ req' = NoMsg /\ running' \in BOOLEAN /\ spc' \in {"recv", "left"}
        /\ (conn = "down" /\ resp' = resp) \/ (conn = "up" /\ resp' = Ack)
    BY <1>3, <2>1, AnswerFacts
  <2> QED  BY <1>2, <1>3, <2>1, <2>3, <2>4, <2>5, AnswerKeeps
<1>8. CASE HandleReadBucket
  <2>1. req.cmd = "R" /\ UNCHANGED <<tree, bucket, conn>>
    BY <1>8 DEF HandleReadBucket, Command
  <2>2. req.node \in Nodes
    BY <1>1, <2>1, RequestShapes DEF ServerTypes
  <2> DEFINE m == [cmd |-> "bucket", slots |-> tree[req.node]]
  <2>3. Answer(m)
    BY <1>8, <2>2 DEF HandleReadBucket
  <2>4. m \in Replies /\ m.cmd = "bucket"
    BY <1>3, <2>2, ReplyMakers
  <2> HIDE DEF m
  <2>5. Asking => cpc = "fetch"
    BY <2>1 DEF Asking
  <2>6. resp' = m => (Asking => Answered')
    BY <1>2, <2>4, <2>5 DEF Answered, clientVars
  <2>7. /\ req' = NoMsg /\ running' \in BOOLEAN /\ spc' \in {"recv", "left"}
        /\ (conn = "down" /\ resp' = resp) \/ (conn = "up" /\ resp' = m)
    BY <1>3, <2>3, AnswerFacts
  <2> QED  BY <1>2, <1>3, <2>1, <2>4, <2>6, <2>7, AnswerKeeps
<1>9. CASE HandleWriteSlot
  <2>1. req.cmd = "U" /\ UNCHANGED <<bucket, conn>>
    BY <1>9 DEF HandleWriteSlot, Command
  <2>2. req.node \in Nodes /\ req.slot \in Slots /\ req.data \in Data
    BY <1>1, <2>1, RequestShapes DEF ServerTypes
  <2>3. tree' = [tree EXCEPT ![req.node][req.slot] = req.data] /\ Answer(Ack)
    BY <1>9, <2>2 DEF HandleWriteSlot
  <2>4. tree' \in [Nodes -> Contents]
    BY <1>3, <2>2, <2>3 DEF Contents
  <2>5. Asking => cpc \in {"root", "write"}
    BY <2>1 DEF Asking
  <2>6. resp' = Ack => (Asking => Answered')
    BY <1>2, <2>5 DEF Answered, clientVars
  <2>7. Ack \in Replies
    BY ReplyMakers
  <2>8. /\ req' = NoMsg /\ running' \in BOOLEAN /\ spc' \in {"recv", "left"}
        /\ (conn = "down" /\ resp' = resp) \/ (conn = "up" /\ resp' = Ack)
    BY <1>3, <2>3, AnswerFacts
  <2> QED  BY <1>2, <2>1, <2>4, <2>6, <2>7, <2>8, AnswerKeeps
<1>10. CASE HandleQuit
  <2>1. /\ req' = NoMsg /\ running' = FALSE /\ spc' = "left" /\ resp' = resp
        /\ req.cmd \notin {"A", "C", "R", "U", "none"}
        /\ UNCHANGED <<tree, bucket, conn>>
    BY <1>10 DEF HandleQuit, Refuse, Consume, Leave, Commands
  <2>2. conn = "down"
    BY <1>3, <2>1 DEF Shape, Conversation, Asking
  <2> QED  BY <1>2, <1>3, <2>1, <2>2, AnswerKeeps
<1>11. CASE ServerRecvThrows
  <2>1. /\ req' = NoMsg /\ running' = FALSE /\ spc' = "left" /\ resp' = resp
        /\ conn = "down" /\ UNCHANGED <<tree, bucket, conn>>
    BY <1>11 DEF ServerRecvThrows, MayThrow, Refuse, Consume, Leave
  <2> QED  BY <1>2, <1>3, <2>1, AnswerKeeps
<1> QED  BY <1>4, <1>5, <1>6, <1>7, <1>8, <1>9, <1>10, <1>11 DEF ServerThread

-----------------------------------------------------------------------------
LEMMA InvolvedSize ==
    /\ Len(Involved) \in {1, 3} /\ Len(WriteOrder) = Len(Involved)
    /\ Len(Involved)' \in {1, 3} /\ Len(WriteOrder)' = Len(Involved)'
BY DEF Involved, WriteOrder

\* The client sends a request and waits.
Sends(m) ==
    /\ m \in Requests
    /\ \/ cpc' = "sum" /\ m.cmd = "A"
       \/ cpc' = "clear" /\ m.cmd = "C" /\ Len(m.selections) <= TreeHeight + 1
       \/ cpc' \in {"root", "write"} /\ m.cmd = "U"
       \/ cpc' = "fetch" /\ m.cmd = "R"

LEMMA SendKeeps ==
    ASSUME Shape, UNCHANGED <<serverVars, conn>>, resp' = NoMsg, failed' = failed,
           req = NoMsg \/ conn = "down", NEW m, SendRequest(m), Sends(m)
    PROVE  Conversation' /\ ServerTypes'
<1> USE NoMsgFacts
<1>0. ServerTypes
  BY TypeParts DEF Shape
<1>1. CASE conn = "up"
  <2>1. req' = m /\ m # NoMsg /\ spc # "clear" /\ conn' = "up" /\ spc' = spc
    BY <1>1 DEF SendRequest, Sends, Shape, Conversation, serverVars
  <2>2. Asking' /\ Waiting' /\ cpc' # "destroyed" /\ (m.cmd = "C" => Len(m.selections) <= TreeHeight + 1)
    BY <2>1 DEF Sends, Asking, Waiting
  <2>3. Conversation'
    BY <2>1, <2>2 DEF Conversation
  <2> QED  BY <1>0, <2>1, <2>3 DEF ServerTypes, Sends, serverVars
<1>2. CASE conn # "up"
  <2>1. req' = req /\ conn' = conn /\ spc' = spc
    BY <1>2 DEF SendRequest, serverVars
  <2>2. Waiting' /\ cpc' # "destroyed"
    BY DEF Sends, Waiting
  <2>3. Conversation'
    BY <1>2, <2>1, <2>2 DEF Shape, Conversation
  <2> QED  BY <1>0, <2>1, <2>3 DEF ServerTypes, serverVars
<1> QED  BY <1>1, <1>2

\* The client goes on without one, or fails.
LEMMA RestKeeps ==
    ASSUME Shape, UNCHANGED <<serverVars, conn, req>>, resp' = NoMsg,
           req = NoMsg \/ (conn = "down" /\ failed'),
           cpc' \in {"idle", "select", "place", "retry", "return"}
    PROVE  Conversation' /\ ServerTypes'
<1> USE NoMsgFacts
<1>0. ServerTypes
  BY TypeParts DEF Shape
<1>1. ~ Waiting' /\ cpc' # "destroyed"
  BY DEF Waiting
<1>2. Conversation'
  BY <1>1 DEF Shape, Conversation, serverVars
<1> QED  BY <1>0, <1>2 DEF ServerTypes, serverVars

LEMMA ThrowShape ==
    ASSUME Shape, Throws, resp' = NoMsg, req = NoMsg \/ conn = "down",
           UNCHANGED <<serverVars, oracle, posMap, idMap, accessCount, evictions, conn, req>>
    PROVE  Shape'
<1> USE Constants
<1>1. /\ cpc' = "idle" /\ call' = NoCall /\ oldLeaf' = 0 /\ picks' = << >> /\ pathSum' = Zero
      /\ result' = NoResult /\ todo' = << >> /\ fetched' = << >> /\ contents' = << >>
      /\ cursor' = <<1, 1>> /\ failed' = TRUE
  BY DEF Throws, EndOfCall, Start
<1>2. Conversation' /\ ServerTypes'
  BY <1>1, RestKeeps
<1>3. ClientTypes'
  <2>1. ClientTypes
    BY TypeParts DEF Shape
  <2> QED  BY <1>1, <2>1 DEF ClientTypes, ClientPoints
<1>4. CallShape' /\ LoopShape'
  BY <1>1 DEF CallShape, LoopShape
<1> QED  BY <1>2, <1>3, <1>4, TypeParts DEF Shape

LEMMA SelectionsType ==
    ASSUME Shape
    PROVE  /\ Selections \in [1 .. TreeHeight + 1 -> Slots \cup {NoSlot}]
           /\ (\A k \in DOMAIN Selections : Selections[k] # NoSlot)
                => Selections \in [1 .. TreeHeight + 1 -> Slots] /\ Selections \in Seq(Slots)
<1>1. idMap \in [Nodes -> Ids] /\ oldLeaf \in Leaves
  BY DEF Shape, TypeOK
<1>2. \A k \in 1 .. TreeHeight + 1 : Paths[oldLeaf][k] \in Nodes
  BY <1>1, PathsFacts
<1>3. \A k \in 1 .. TreeHeight + 1 : BlockOrDummySlot(idMap, Paths[oldLeaf][k], call.addr) \in Slots \cup {NoSlot}
  BY <1>1, <1>2, BlockOrDummyFacts
<1>4. Selections \in [1 .. TreeHeight + 1 -> Slots \cup {NoSlot}]
  BY <1>3 DEF Selections
<1> HIDE DEF Selections
<1> QED  BY <1>4, Constants

LEMMA AccessShape ==
    ASSUME Shape, UNCHANGED <<serverVars, oracle>>, NEW c \in Calls, Access(c)
    PROVE  Shape'
<1>1. ClientTypes /\ ServerTypes
  BY TypeParts DEF Shape
<1>2. c.addr \in Addr /\ c # NoCall
  BY CallFacts
<1>3. /\ cpc = "idle" /\ cpc' = "select" /\ call' = c /\ oldLeaf' = posMap[c.addr]
      /\ UNCHANGED <<idMap, accessCount, evictions, picks, pathSum, result, todo, fetched, contents,
                     cursor, failed, conn, req, resp>>
      /\ \E leaf \in Leaves : posMap' = [posMap EXCEPT ![c.addr] = leaf]
  BY DEF Access
<1>4. ClientTypes'
  <2>1. posMap' \in [Addr -> Leaves] /\ oldLeaf' \in Leaves
    BY <1>1, <1>2, <1>3 DEF ClientTypes
  <2> QED  BY <1>1, <1>3, <2>1 DEF ClientTypes, ClientPoints
<1>5. resp = NoMsg /\ (req = NoMsg \/ conn = "down") /\ (~ failed => req = NoMsg)
  BY <1>3, QuietFacts DEF Waiting, Shape, Conversation
<1>6. Conversation' /\ ServerTypes'
  <2>1. failed' \in BOOLEAN /\ (failed' \/ ~ failed)
    BY <1>1, <1>3 DEF ClientTypes
  <2> QED  BY <1>3, <1>5, <2>1, RestKeeps
<1>7. CallShape' /\ LoopShape'
  BY <1>2, <1>3 DEF Shape, CallShape, LoopShape
<1> QED  BY <1>4, <1>6, <1>7, TypeParts DEF Shape

LEMMA SelectShape ==
    ASSUME Shape, UNCHANGED <<serverVars, oracle>>, SelectSlots
    PROVE  Shape'
<1>1. ClientTypes /\ ServerTypes
  BY TypeParts DEF Shape
<1>2. cpc = "select" /\ UNCHANGED <<posMap, idMap, accessCount, evictions, conn, resp>>
  BY DEF SelectSlots
<1>3. resp = NoMsg /\ (req = NoMsg \/ conn = "down")
  BY <1>2, QuietFacts DEF Waiting
<1>4. CASE \A k \in DOMAIN Selections : Selections[k] # NoSlot
  <2> DEFINE m == [cmd |-> "A", leaf |-> oldLeaf, selections |-> Selections]
  <2>1. /\ picks' = Selections /\ SendRequest(m) /\ cpc' = "sum"
        /\ UNCHANGED <<call, oldLeaf, pathSum, result, todo, fetched, contents, cursor, failed>>
    BY <1>4 DEF SelectSlots
  <2>2. Selections \in [1 .. TreeHeight + 1 -> Slots] /\ Selections \in Seq(Slots)
    BY <1>4, SelectionsType
  <2>3. m \in Requests /\ m.cmd = "A"
    BY <1>1, <2>2, RequestMakers DEF ClientTypes
  <2> HIDE DEF m
  <2>4. Conversation' /\ ServerTypes'
    BY <1>2, <1>3, <2>1, <2>3, SendKeeps DEF Sends
  <2>5. ClientTypes'
    BY <1>1, <1>2, <2>1, <2>2 DEF ClientTypes, ClientPoints
  <2>6. CallShape' /\ LoopShape'
    BY <1>2, <2>1, <2>2 DEF Shape, CallShape, LoopShape
  <2> QED  BY <2>4, <2>5, <2>6, TypeParts DEF Shape
<1>5. CASE ~ \A k \in DOMAIN Selections : Selections[k] # NoSlot
  <2>1. Throws /\ UNCHANGED req
    BY <1>5 DEF SelectSlots
  <2> QED  BY <1>2, <1>3, <2>1, ThrowShape
<1> QED  BY <1>4, <1>5

LEMMA TakeSumShape ==
    ASSUME Shape, UNCHANGED <<serverVars, oracle>>, TakeSum
    PROVE  Shape'
<1>1. ClientTypes /\ ServerTypes
  BY TypeParts DEF Shape
<1> DEFINE m == [cmd |-> "C", leaf |-> oldLeaf, selections |-> picks]
<1>2. /\ cpc = "sum" /\ resp.cmd = "sum" /\ resp' = NoMsg /\ pathSum' = resp.sum /\ SendRequest(m)
      /\ cpc' = "clear"
      /\ UNCHANGED <<posMap, idMap, accessCount, evictions, call, oldLeaf, picks, result, todo,
                     fetched, contents, cursor, failed, conn>>
  BY DEF TakeSum
<1>3. req = NoMsg /\ pathSum' \in Data
  BY <1>1, <1>2, RepliedFacts, ReplyShapes, NoMsgFacts DEF ServerTypes
<1>4. m \in Requests /\ m.cmd = "C" /\ Len(m.selections) <= TreeHeight + 1
  <2>1. m \in Requests /\ m.cmd = "C" /\ m.selections = picks
    BY <1>1, RequestMakers DEF ClientTypes
  <2>2. picks \in [1 .. TreeHeight + 1 -> Slots] /\ picks \in Seq(Slots)
    BY <1>1, <1>2 DEF Shape, CallShape, ClientTypes
  <2>3. Len(picks) = TreeHeight + 1
    BY <2>2, Constants
  <2> HIDE DEF m
  <2> QED  BY <2>1, <2>3, Constants
<1> HIDE DEF m
<1>5. Conversation' /\ ServerTypes'
  BY <1>2, <1>3, <1>4, SendKeeps DEF Sends
<1>6. ClientTypes'
  BY <1>1, <1>2, <1>3 DEF ClientTypes, ClientPoints
<1>7. CallShape' /\ LoopShape'
  BY <1>2 DEF Shape, CallShape, LoopShape
<1> QED  BY <1>5, <1>6, <1>7, TypeParts DEF Shape

LEMMA PathClearedShape ==
    ASSUME Shape, UNCHANGED serverVars, PathCleared,
           oracle' = IF call.op = "WRITE" THEN [oracle EXCEPT ![call.addr] = call.data] ELSE oracle
    PROVE  Shape'
<1>1. ClientTypes /\ ServerTypes
  BY TypeParts DEF Shape
<1>2. /\ cpc = "clear" /\ resp.cmd = "K" /\ resp' = NoMsg /\ idMap' = IdsWithoutPicks
      /\ result' = IF call.op = "WRITE" THEN call.data ELSE pathSum
      /\ oldLeaf' = 0 /\ pathSum' = Zero /\ cpc' = "place"
      /\ UNCHANGED <<posMap, accessCount, evictions, call, picks, todo, fetched, contents, cursor,
                     failed, conn, req>>
  BY DEF PathCleared, ExpectAck
<1>3. req = NoMsg
  BY <1>2, RepliedFacts, NoMsgFacts
<1>4. call \in Calls /\ call # NoCall /\ call.addr \in Addr /\ call.data \in Data
  BY <1>1, <1>2, CallFacts DEF Shape, CallShape, ClientTypes
<1>5. result' \in Data /\ result' # NoResult /\ oracle' \in [Addr -> Data]
  BY <1>1, <1>2, <1>4, Constants DEF ClientTypes
<1>6. idMap' \in [Nodes -> Ids]
  <2>1. \A n \in Nodes, s \in Slots : idMap[n][s] \in Addr \cup {NoBlock}
    BY <1>1 DEF ClientTypes, Ids
  <2> QED  BY <1>2, <2>1 DEF IdsWithoutPicks, Ids
<1>7. Conversation' /\ ServerTypes'
  BY <1>2, <1>3, RestKeeps
<1>8. ClientTypes'
  BY <1>1, <1>2, <1>5, <1>6, Constants DEF ClientTypes, ClientPoints
<1>9. CallShape' /\ LoopShape'
  <2>1. picks # << >>
    <3>1. picks \in [1 .. TreeHeight + 1 -> Slots] /\ 1 \in 1 .. TreeHeight + 1
      BY <1>2, Constants DEF Shape, CallShape
    <3>2. DOMAIN picks # {}
      BY <3>1
    <3> QED  BY <3>2
  <2> QED  BY <1>2, <1>4, <1>5, <2>1 DEF Shape, CallShape, LoopShape
<1> QED  BY <1>7, <1>8, <1>9, TypeParts DEF Shape

\* Evict begins a turn of its loop at the root.
LEMMA EvictFacts ==
    ASSUME ClientTypes, Evict
    PROVE  /\ evictions' \in 0 .. SizeTModulus - 1
           /\ todo' \in Seq(Nodes) /\ fetched' = << >> /\ cpc' = "fetch"
           /\ SendRequest([cmd |-> "R", node |-> 0])
           /\ todo' = Paths[EvictionLeaf] /\ EvictionLeaf \in Leaves
           /\ Len(todo') = TreeHeight + 1 /\ todo'[1] = 0
           /\ \A i \in 1 .. TreeHeight + 1 : todo'[i] = PathNode(EvictionLeaf, TreeHeight + 1 - i)
           /\ LoopShape'
<1>1. evictions \in Nat /\ evictions + 1 \in Nat
  BY Constants DEF ClientTypes
<1>2. EvictionLeaf \in Leaves
  BY <1>1, EvictionLeafType
<1>3. /\ evictions' = (evictions + 1) % SizeTModulus /\ todo' = Paths[EvictionLeaf]
      /\ fetched' = << >> /\ SendRequest([cmd |-> "R", node |-> 0]) /\ cpc' = "fetch"
  BY DEF Evict
<1>4. evictions' \in 0 .. SizeTModulus - 1
  BY <1>1, <1>3, Constants
<1> DEFINE leaf == EvictionLeaf
<1> HIDE DEF leaf
<1>5. /\ todo' \in Seq(Nodes) /\ Len(todo') = TreeHeight + 1 /\ todo'[1] = 0
      /\ \A i \in 1 .. TreeHeight + 1 : todo'[i] = PathNode(leaf, TreeHeight + 1 - i)
  BY <1>2, <1>3, PathsFacts DEF leaf
<1>6. LoopShape'
  <2>1. /\ Len(todo') \in 1 .. TreeHeight + 1
        /\ \A i \in 1 .. Len(todo') : todo'[i] = PathNode(leaf, Len(todo') - i)
    BY <1>5, Constants
  <2>2. leaf \in Leaves
    BY <1>2 DEF leaf
  <2>3. \E l \in Leaves : \A i \in 1 .. Len(todo') : todo'[i] = PathNode(l, Len(todo') - i)
    BY <2>1, <2>2
  <2> QED  BY <2>1, <2>3 DEF LoopShape
<1> QED  BY <1>2, <1>3, <1>4, <1>5, <1>6 DEF leaf

LEMMA RootSlotFacts ==
    ASSUME ClientTypes
    PROVE  /\ RootSlot \in Slots \cup {NoSlot}
           /\ RootSlot # NoSlot => RootSlot \in Slots /\ idMap[0][RootSlot] \in {call.addr, NoBlock}
           /\ RootSlot = NoSlot => \A s \in Slots : idMap[0][s] \notin {call.addr, NoBlock}
<1>1. idMap \in [Nodes -> Ids] /\ 0 \in Nodes
  BY Constants DEF ClientTypes
<1> QED  BY <1>1, BlockOrDummyFacts DEF RootSlot

LEMMA PlaceShape ==
    ASSUME Shape, UNCHANGED <<serverVars, oracle>>, Place
    PROVE  Shape'
<1>1. ClientTypes /\ ServerTypes
  BY TypeParts DEF Shape
<1>2. cpc \in {"place", "retry"} /\ UNCHANGED <<posMap, idMap, accessCount, conn, resp>>
  BY DEF Place
<1>3. resp = NoMsg /\ (req = NoMsg \/ conn = "down")
  BY <1>2, QuietFacts DEF Waiting
<1>4. result \in Data /\ result # NoResult /\ picks # << >> /\ call # NoCall /\ contents = << >>
      /\ todo = << >> /\ fetched = << >>
  BY <1>1, <1>2 DEF Shape, CallShape, ClientTypes
<1>5. CASE RootSlot # NoSlot
  <2> DEFINE m == [cmd |-> "U", node |-> 0, slot |-> RootSlot, data |-> result]
  <2>1. /\ SendRequest(m) /\ cpc' = "root"
        /\ UNCHANGED <<call, oldLeaf, picks, pathSum, result, todo, fetched, contents, cursor, failed,
                       evictions>>
    BY <1>5 DEF Place
  <2>2. m \in Requests /\ m.cmd = "U"
    BY <1>1, <1>4, <1>5, RootSlotFacts, RequestMakers, Constants
  <2> HIDE DEF m
  <2>3. Conversation' /\ ServerTypes'
    BY <1>2, <1>3, <2>1, <2>2, SendKeeps DEF Sends
  <2>4. ClientTypes'
    BY <1>1, <1>2, <2>1 DEF ClientTypes, ClientPoints
  <2>5. CallShape' /\ LoopShape'
    BY <1>2, <1>4, <2>1 DEF CallShape, LoopShape
  <2> QED  BY <2>3, <2>4, <2>5, TypeParts DEF Shape
<1>6. CASE RootSlot = NoSlot /\ cpc = "place"
  <2>1. Evict /\ UNCHANGED <<call, oldLeaf, picks, pathSum, result, contents, cursor, failed>>
    BY <1>6 DEF Place
  <2> DEFINE m == [cmd |-> "R", node |-> 0]
  <2>2. /\ evictions' \in 0 .. SizeTModulus - 1 /\ todo' \in Seq(Nodes) /\ fetched' = << >>
        /\ cpc' = "fetch" /\ SendRequest(m) /\ Len(todo') = TreeHeight + 1 /\ LoopShape'
    BY <1>1, <2>1, EvictFacts
  <2>3. m \in Requests /\ m.cmd = "R"
    BY RequestMakers, Constants
  <2> HIDE DEF m
  <2>4. Conversation' /\ ServerTypes'
    BY <1>2, <1>3, <2>1, <2>2, <2>3, SendKeeps DEF Sends
  <2>5. ClientTypes'
    BY <1>1, <1>2, <2>1, <2>2 DEF ClientTypes, ClientPoints
  <2>6. Len(fetched') < Len(Involved)'
    BY <2>2, InvolvedSize
  <2>7. CallShape'
    BY <1>4, <2>1, <2>2, <2>6 DEF CallShape
  <2> QED  BY <2>2, <2>4, <2>5, <2>7, TypeParts DEF Shape
<1>7. CASE RootSlot = NoSlot /\ cpc # "place"
  <2>1. Throws /\ UNCHANGED <<req, evictions>>
    BY <1>7 DEF Place
  <2> QED  BY <1>2, <1>3, <2>1, ThrowShape
<1> QED  BY <1>5, <1>6, <1>7

LEMMA RootWrittenShape ==
    ASSUME Shape, UNCHANGED <<serverVars, oracle>>, RootWritten
    PROVE  Shape'
<1>1. ClientTypes /\ ServerTypes
  BY TypeParts DEF Shape
<1>2. /\ cpc = "root" /\ resp.cmd = "K" /\ resp' = NoMsg
      /\ idMap' = [idMap EXCEPT ![0][RootSlot] = call.addr]
      /\ accessCount' = (accessCount + 1) % SizeTModulus /\ picks' = << >>
      /\ UNCHANGED <<posMap, call, oldLeaf, pathSum, result, contents, cursor, failed, conn>>
  BY DEF RootWritten, ExpectAck
<1>3. req = NoMsg
  BY <1>2, RepliedFacts, NoMsgFacts
<1>4. result # NoResult /\ call # NoCall /\ call.addr \in Addr /\ contents = << >> /\ todo = << >>
      /\ fetched = << >>
  BY <1>1, <1>2, CallFacts DEF Shape, CallShape, ClientTypes
<1>5. accessCount' \in 0 .. SizeTModulus - 1
  BY <1>1, <1>2, Constants DEF ClientTypes
<1>6. idMap' \in [Nodes -> Ids]
  <2>1. \A ids \in Ids : [ids EXCEPT ![RootSlot] = call.addr] \in Ids
    BY <1>4 DEF Ids
  <2>2. idMap' = [idMap EXCEPT ![0] = [idMap[0] EXCEPT ![RootSlot] = call.addr]]
    BY <1>2
  <2> QED  BY <1>1, <2>1, <2>2 DEF ClientTypes
<1>7. CASE EvictionDue
  <2>1. Evict
    BY <1>7 DEF RootWritten
  <2> DEFINE m == [cmd |-> "R", node |-> 0]
  <2>2. /\ evictions' \in 0 .. SizeTModulus - 1 /\ todo' \in Seq(Nodes) /\ fetched' = << >>
        /\ cpc' = "fetch" /\ SendRequest(m) /\ Len(todo') = TreeHeight + 1 /\ LoopShape'
    BY <1>1, <2>1, EvictFacts
  <2>3. m \in Requests /\ m.cmd = "R"
    BY RequestMakers, Constants
  <2> HIDE DEF m
  <2>4. Conversation' /\ ServerTypes'
    BY <1>2, <1>3, <2>2, <2>3, SendKeeps DEF Sends
  <2>5. ClientTypes'
    BY <1>1, <1>2, <1>5, <1>6, <2>2 DEF ClientTypes, ClientPoints
  <2>6. Len(fetched') < Len(Involved)'
    BY <2>2, InvolvedSize
  <2>7. CallShape'
    BY <1>2, <1>4, <2>2, <2>6 DEF CallShape
  <2> QED  BY <2>2, <2>4, <2>5, <2>7, TypeParts DEF Shape
<1>8. CASE ~ EvictionDue
  <2>1. cpc' = "return" /\ UNCHANGED <<evictions, todo, fetched, req>>
    BY <1>8 DEF RootWritten
  <2>2. Conversation' /\ ServerTypes'
    BY <1>2, <1>3, <2>1, RestKeeps
  <2>3. ClientTypes'
    BY <1>1, <1>2, <1>5, <1>6, <2>1 DEF ClientTypes, ClientPoints
  <2>4. CallShape' /\ LoopShape'
    BY <1>2, <1>4, <2>1 DEF CallShape, LoopShape
  <2> QED  BY <2>2, <2>3, <2>4, TypeParts DEF Shape
<1> QED  BY <1>7, <1>8

-----------------------------------------------------------------------------
\* The buckets of a turn of Evict's loop, when the last of them has come.
LEMMA ReceivedFacts ==
    ASSUME Shape, cpc = "fetch", resp.cmd = "bucket"
    PROVE  /\ Received \in Seq(Contents)
           /\ Len(Received) = Len(fetched) + 1 /\ Len(Received) \in 1 .. Len(Involved)
           /\ Received[Len(Received)] = resp.slots
           /\ \A k \in 1 .. Len(fetched) : Received[k] = fetched[k]
<1>1. fetched \in Seq(Contents) /\ Len(fetched) < Len(Involved) /\ resp.slots \in Contents
  BY ReplyShapes, NoMsgFacts DEF Shape, TypeOK, CallShape
<1>2. Len(Involved) \in Nat
  BY InvolvedSize
<1> DEFINE last == resp.slots
           N == Len(Involved)
<1> HIDE DEF last, N
<1>3. Append(fetched, last) \in Seq(Contents) /\ Len(Append(fetched, last)) = Len(fetched) + 1
      /\ Append(fetched, last)[Len(fetched) + 1] = last
      /\ \A k \in 1 .. Len(fetched) : Append(fetched, last)[k] = fetched[k]
  BY <1>1 DEF last
<1>4. Len(fetched) + 1 \in 1 .. N
  BY <1>1, <1>2 DEF N
<1> QED  BY <1>3, <1>4 DEF last, N, Received

LEMMA MovedType ==
    ASSUME Shape, cpc = "fetch", Received \in Seq(Contents), Len(Received) = Len(Involved),
           NEW input, input \subseteq (1 .. Len(Involved)) \X Slots, NEW from \in Shuffled(input)
    PROVE  /\ Moved(from) \in [Slots -> Entries]
           /\ \A s \in Slots : from[s] \in input \cup {Padding}
           /\ \A s \in Slots : from[s] = Padding => Moved(from)[s] = [id |-> NoBlock, data |-> Zero]
           /\ \A s \in Slots : from[s] # Padding =>
                 /\ Moved(from)[s].id = idMap[Involved[from[s][1]]][from[s][2]]
                 /\ Moved(from)[s].data = Received[from[s][1]][from[s][2]]
           /\ Padding \notin input
<1>1. from \in [Slots -> input \cup {Padding}]
  BY DEF Shuffled
<1>2. \A k \in 1 .. Len(Involved) : Involved[k] \in Nodes
  BY LoopFacts DEF Shape
<1>3. idMap \in [Nodes -> Ids]
  BY DEF Shape, TypeOK
<1> DEFINE N == Len(Involved)
           Entry(s) == IF from[s] = Padding THEN [id |-> NoBlock, data |-> Zero]
                       ELSE [id |-> idMap[Involved[from[s][1]]][from[s][2]],
                             data |-> Received[from[s][1]][from[s][2]]]
<1>4. Moved(from) = [s \in Slots |-> Entry(s)]
  BY DEF Moved
<1>5. \A s \in Slots : Entry(s) \in Entries
  <2> SUFFICES ASSUME NEW s \in Slots PROVE Entry(s) \in Entries
    OBVIOUS
  <2>1. CASE from[s] = Padding
    BY <2>1, Constants DEF Entries
  <2>2. CASE from[s] # Padding
    <3> DEFINE k == from[s][1]
               t == from[s][2]
    <3>1. k \in 1 .. N /\ t \in Slots
      BY <1>1, <2>2
    <3> HIDE DEF k, t
    <3>2. idMap[Involved[k]][t] \in Addr \cup {NoBlock}
      BY <1>2, <1>3, <3>1 DEF Ids
    <3>3. Received[k][t] \in Data
      BY <3>1 DEF Contents
    <3>4. Entry(s) = [id |-> idMap[Involved[k]][t], data |-> Received[k][t]]
      BY <2>2 DEF k, t
    <3> HIDE DEF Entry
    <3> QED  BY <3>2, <3>3, <3>4 DEF Entries
  <2> QED  BY <2>1, <2>2
<1>6. Padding \notin input
  <2>1. Padding[1] = 0
    BY DEF Padding
  <2> QED  BY <2>1
<1>7. \A s \in Slots : Moved(from)[s] = Entry(s)
  BY <1>4
<1> HIDE DEF N, Entry
<1>8. Moved(from) \in [Slots -> Entries]
  BY <1>4, <1>5
<1> QED  BY <1>1, <1>6, <1>7, <1>8 DEF Entry

\* The new contents come from these slots.
InputOf(k) == IF Len(todo) = 1 THEN {1} \X Slots
              ELSE IF k = 1 THEN LeftInput ELSE IF k = 2 THEN RightInput ELSE {}

LEMMA Inputs ==
    ASSUME Shape, cpc = "fetch", NEW k \in 1 .. Len(WriteOrder)
    PROVE  InputOf(k) \subseteq (1 .. Len(Involved)) \X Slots
<1>1. CASE Len(todo) = 1
  <2>1. 1 \in 1 .. Len(Involved)
    BY InvolvedSize
  <2> QED  BY <1>1, <2>1 DEF InputOf
<1>2. CASE Len(todo) # 1
  <2>1. Len(Involved) = 3
    BY <1>2, LoopFacts DEF Shape
  <2>2. \A j \in 1 .. 3 : Occupied(j) \subseteq (1 .. 3) \X Slots
    BY DEF Occupied
  <2>3. 1 \in 1 .. 3 /\ 2 \in 1 .. 3 /\ 3 \in 1 .. 3
    OBVIOUS
  <2>4. LeftInput \subseteq (1 .. 3) \X Slots /\ RightInput \subseteq (1 .. 3) \X Slots
    BY <2>2, <2>3 DEF LeftInput, RightInput
  <2> QED  BY <1>2, <2>1, <2>4 DEF InputOf
<1> QED  BY <1>1, <1>2

LEMMA NewContentsForm ==
    ASSUME Shape, cpc = "fetch", Received \in Seq(Contents), Len(Received) = Len(Involved),
           NEW new \in NewContents
    PROVE  /\ new \in Seq([Slots -> Entries]) /\ Len(new) = Len(WriteOrder)
           /\ \A k \in 1 .. Len(WriteOrder) :
                 \E from \in Shuffled(InputOf(k)) : new[k] = Moved(from)
<1>1. ASSUME NEW k \in 1 .. Len(WriteOrder), NEW from \in Shuffled(InputOf(k))
      PROVE  Moved(from) \in [Slots -> Entries]
  BY <1>1, Inputs, MovedType
<1>2. CASE Len(todo) = 1
  <2>1. PICK from \in Shuffled({1} \X Slots) : new = <<Moved(from)>>
    <3> DEFINE S == {<<Moved(from)>> : from \in Shuffled({1} \X Slots)}
               T == {<<Moved(left), Moved(right), Moved([s \in Slots |-> Padding])>> :
                       left \in Shuffled(LeftInput), right \in Shuffled(RightInput)}
    <3>1. NewContents = IF Len(todo) = 1 THEN S ELSE T
      BY DEF NewContents
    <3> HIDE DEF T, S
    <3>2. NewContents = S
      BY <1>2, <3>1
    <3> USE DEF S
    <3> QED  BY <3>2, Zenon
  <2>2. Len(WriteOrder) = 1 /\ 1 \in 1 .. Len(WriteOrder)
    <3>1. Len(WriteOrder) = 1
      BY <1>2, LoopFacts DEF Shape
    <3> QED  BY <3>1
  <2>3. from \in Shuffled(InputOf(1))
    BY <1>2, <2>1 DEF InputOf
  <2>4. Moved(from) \in [Slots -> Entries]
    BY <1>1, <2>2, <2>3
  <2>5. Len(new) = 1 /\ new[1] = Moved(from) /\ new \in Seq([Slots -> Entries])
    BY <2>1, <2>4
  <2>6. \A k \in 1 .. 1 : k = 1
    OBVIOUS
  <2> QED  BY <2>2, <2>3, <2>5, <2>6
<1>3. CASE Len(todo) # 1
  <2> DEFINE none == [s \in Slots |-> Padding]
  <2>1. PICK left \in Shuffled(LeftInput), right \in Shuffled(RightInput) :
               new = <<Moved(left), Moved(right), Moved(none)>>
    BY <1>3 DEF NewContents
  <2>2. Len(WriteOrder) = 3
    BY <1>3, LoopFacts DEF Shape
  <2>3. left \in Shuffled(InputOf(1)) /\ right \in Shuffled(InputOf(2)) /\ none \in Shuffled(InputOf(3))
    <3>1. none \in Shuffled({})
      BY DEF Shuffled
    <3> QED  BY <1>3, <2>1, <3>1 DEF InputOf
  <2> HIDE DEF none
  <2>4. /\ Moved(left) \in [Slots -> Entries] /\ Moved(right) \in [Slots -> Entries]
        /\ Moved(none) \in [Slots -> Entries]
    <3>1. 1 \in 1 .. Len(WriteOrder) /\ 2 \in 1 .. Len(WriteOrder) /\ 3 \in 1 .. Len(WriteOrder)
      BY <2>2
    <3> QED  BY <1>1, <2>3, <3>1
  <2>5. /\ Len(new) = 3 /\ new[1] = Moved(left) /\ new[2] = Moved(right) /\ new[3] = Moved(none)
        /\ new \in Seq([Slots -> Entries])
    BY <2>1, <2>4
  <2>6. \A k \in 1 .. 3 : k \in {1, 2, 3}
    OBVIOUS
  <2> QED  BY <2>2, <2>3, <2>5, <2>6
<1> QED  BY <1>2, <1>3

LEMMA WriteOfFacts ==
    ASSUME Shape, cpc \in {"fetch", "write"}, NEW new \in Seq([Slots -> Entries]), Len(new) = Len(WriteOrder),
           NEW k \in 1 .. Len(WriteOrder), NEW s \in Slots
    PROVE  WriteOf(new, k, s) \in Requests /\ WriteOf(new, k, s).cmd = "U"
<1>1. WriteOrder[k] \in Nodes
  BY LoopFacts DEF Shape
<1>2. new[k][s] \in Entries
  BY InvolvedSize
<1>3. new[k][s].data \in Data
  BY <1>2 DEF Entries
<1> QED  BY <1>1, <1>3, RequestMakers DEF WriteOf

LEMMA TakeBucketShape ==
    ASSUME Shape, UNCHANGED <<serverVars, oracle>>, TakeBucket
    PROVE  Shape'
<1>1. ClientTypes /\ ServerTypes
  BY TypeParts DEF Shape
<1>2. /\ cpc = "fetch" /\ resp.cmd = "bucket" /\ resp' = NoMsg
      /\ UNCHANGED <<posMap, idMap, accessCount, evictions, conn>>
  BY DEF TakeBucket
<1>3. req = NoMsg
  BY <1>2, RepliedFacts, NoMsgFacts
<1>4. /\ Received \in Seq(Contents) /\ Len(Received) = Len(fetched) + 1
      /\ Len(Received) \in 1 .. Len(Involved)
  BY <1>2, ReceivedFacts
<1>5. call # NoCall /\ result # NoResult /\ contents = << >>
  BY <1>2 DEF Shape, CallShape
<1>6. CASE Len(Received) < Len(Involved)
  <2> DEFINE m == [cmd |-> "R", node |-> Involved[Len(Received) + 1]]
  <2>1. /\ fetched' = Received /\ SendRequest(m)
        /\ UNCHANGED <<cpc, call, oldLeaf, picks, pathSum, result, todo, contents, cursor, failed>>
    BY <1>6 DEF TakeBucket
  <2>2. m \in Requests /\ m.cmd = "R"
    <3>1. Len(Received) + 1 \in 1 .. Len(Involved)
      BY <1>4, <1>6, InvolvedSize
    <3>2. Involved[Len(Received) + 1] \in Nodes
      BY <1>2, <3>1, LoopFacts DEF Shape
    <3> QED  BY <3>2, RequestMakers
  <2> HIDE DEF m
  <2>3. Conversation' /\ ServerTypes'
    BY <1>2, <1>3, <2>1, <2>2, SendKeeps DEF Sends
  <2>4. ClientTypes'
    BY <1>1, <1>2, <1>4, <2>1 DEF ClientTypes
  <2>5. Len(Involved)' = Len(Involved)
    BY <2>1 DEF Involved, Source
  <2>6. CallShape'
    BY <1>2, <1>6, <2>1, <2>5 DEF Shape, CallShape
  <2>7. LoopShape'
    BY <1>2, <2>1 DEF Shape, LoopShape
  <2> QED  BY <2>3, <2>4, <2>6, <2>7, TypeParts DEF Shape
<1>7. CASE ~ (Len(Received) < Len(Involved)) /\ Overflows
  <2>1. Throws /\ UNCHANGED req
    BY <1>7 DEF TakeBucket
  <2> QED  BY <1>2, <1>3, <2>1, ThrowShape
<1>8. CASE ~ (Len(Received) < Len(Involved)) /\ ~ Overflows
  <2>1. /\ \E new \in NewContents : contents' = new /\ SendRequest(WriteOf(new, 1, 1))
        /\ cursor' = Start /\ fetched' = << >> /\ cpc' = "write"
        /\ UNCHANGED <<call, oldLeaf, picks, pathSum, result, todo, failed>>
    BY <1>8 DEF TakeBucket
  <2>2. PICK new \in NewContents : contents' = new /\ SendRequest(WriteOf(new, 1, 1))
    BY <2>1
  <2>3. Len(Received) = Len(Involved)
    BY <1>4, <1>8, InvolvedSize
  <2>4. new \in Seq([Slots -> Entries]) /\ Len(new) = Len(WriteOrder)
    BY <1>2, <1>4, <2>3, NewContentsForm
  <2>5. 1 \in 1 .. Len(WriteOrder) /\ 1 \in 1 .. 3
    BY InvolvedSize
  <2> DEFINE m == WriteOf(new, 1, 1)
  <2>6. m \in Requests /\ m.cmd = "U"
    BY <1>2, <2>4, <2>5, WriteOfFacts, Constants
  <2> HIDE DEF m
  <2>7. Conversation' /\ ServerTypes'
    BY <1>2, <1>3, <2>1, <2>2, <2>6, SendKeeps DEF Sends, m
  <2>8. cursor' \in (1 .. 3) \X Slots /\ cursor'[1] = 1
    BY <2>1, <2>5, Constants DEF Start
  <2>9. ClientTypes'
    BY <1>1, <1>2, <2>1, <2>2, <2>4, <2>8 DEF ClientTypes, ClientPoints
  <2>10. Len(WriteOrder)' = Len(WriteOrder)
    BY <2>1 DEF WriteOrder, Source
  <2>11. CallShape'
    <3>1. Len(contents') = Len(WriteOrder)' /\ cursor'[1] \in 1 .. Len(contents')
      BY <2>2, <2>4, <2>5, <2>8, <2>10
    <3> QED  BY <1>2, <1>5, <2>1, <3>1 DEF Shape, CallShape
  <2>12. LoopShape'
    BY <1>2, <2>1 DEF Shape, LoopShape
  <2> QED  BY <2>7, <2>9, <2>11, <2>12, TypeParts DEF Shape
<1> QED  BY <1>6, <1>7, <1>8

-----------------------------------------------------------------------------
\* The ids of some buckets are replaced.
LEMMA Installed ==
    ASSUME NEW new, NEW order, NEW ids, NEW f, NEW N \in Nat, DOMAIN new = 1 .. N,
           \A j, k \in 1 .. N : order[j] = order[k] => j = k,
           \A k \in 1 .. N : order[k] \in Nodes,
           f = [n \in Nodes |->
                  IF \E k \in DOMAIN new : order[k] = n
                  THEN [s \in Slots |-> new[CHOOSE k \in DOMAIN new : order[k] = n][s].id]
                  ELSE ids[n]]
    PROVE  /\ \A k \in 1 .. N : f[order[k]] = [s \in Slots |-> new[k][s].id]
           /\ \A n \in Nodes : (\A k \in 1 .. N : order[k] # n) => f[n] = ids[n]
<1>1. ASSUME NEW k \in 1 .. N
      PROVE  f[order[k]] = [s \in Slots |-> new[k][s].id]
  <2> DEFINE c == CHOOSE j \in DOMAIN new : order[j] = order[k]
  <2>1. c \in DOMAIN new /\ order[c] = order[k]
    BY <1>1, Zenon
  <2>2. c = k
    BY <1>1, <2>1
  <2>3. f[order[k]] = [s \in Slots |-> new[c][s].id]
    BY <1>1
  <2> QED  BY <2>2, <2>3
<1> QED  BY <1>1

LEMMA InstallFacts ==
    ASSUME Shape, cpc = "write"
    PROVE  /\ \A k \in 1 .. Len(contents), s \in Slots : InstallIds[WriteOrder[k]][s] = contents[k][s].id
           /\ \A n \in Nodes : (\A k \in 1 .. Len(contents) : WriteOrder[k] # n) => InstallIds[n] = idMap[n]
           /\ InstallIds \in [Nodes -> Ids]
           /\ Len(contents) \in {1, 3} /\ Len(contents) = Len(WriteOrder)
<1> DEFINE N == Len(contents)
<1>1. /\ contents \in Seq([Slots -> Entries]) /\ N = Len(WriteOrder) /\ N \in {1, 3}
      /\ idMap \in [Nodes -> Ids]
  BY InvolvedSize DEF Shape, TypeOK, CallShape
<1>2. DOMAIN contents = 1 .. N /\ N \in Nat
  BY <1>1
<1>3. /\ \A j, k \in 1 .. N : WriteOrder[j] = WriteOrder[k] => j = k
      /\ \A k \in 1 .. N : WriteOrder[k] \in Nodes
  BY <1>1, LoopFacts DEF Shape
<1>4. \A k \in 1 .. N : \A s \in Slots : contents[k][s].id \in Addr \cup {NoBlock}
  <2>1. \A k \in 1 .. N : \A s \in Slots : contents[k][s] \in Entries
    BY <1>1
  <2> QED  BY <2>1 DEF Entries
<1>5. InstallIds = [n \in Nodes |->
                  IF \E k \in DOMAIN contents : WriteOrder[k] = n
                  THEN [s \in Slots |-> contents[CHOOSE k \in DOMAIN contents : WriteOrder[k] = n][s].id]
                  ELSE idMap[n]]
  BY DEF InstallIds
<1> HIDE DEF N
<1>6. /\ \A k \in 1 .. N : InstallIds[WriteOrder[k]] = [s \in Slots |-> contents[k][s].id]
      /\ \A n \in Nodes : (\A k \in 1 .. N : WriteOrder[k] # n) => InstallIds[n] = idMap[n]
  BY <1>2, <1>3, <1>5, Installed
<1>7. \A n \in Nodes : InstallIds[n] \in Ids
  <2> SUFFICES ASSUME NEW n \in Nodes PROVE InstallIds[n] \in Ids
    OBVIOUS
  <2>1. CASE \E k \in 1 .. N : WriteOrder[k] = n
    <3>1. PICK k \in 1 .. N : WriteOrder[k] = n
      BY <2>1
    <3>2. InstallIds[n] = [s \in Slots |-> contents[k][s].id]
      BY <1>6, <3>1
    <3>3. \A s \in Slots : contents[k][s].id \in Addr \cup {NoBlock}
      BY <1>4, <3>1
    <3> QED  BY <3>2, <3>3 DEF Ids
  <2>2. CASE \A k \in 1 .. N : WriteOrder[k] # n
    BY <1>1, <1>6, <2>2
  <2> QED  BY <2>1, <2>2
<1>8. InstallIds \in [Nodes -> Ids]
  <2>1. InstallIds = [n \in Nodes |-> InstallIds[n]]
    BY <1>5
  <2> QED  BY <1>7, <2>1
<1> QED  BY ZenonT(40), <1>1, <1>6, <1>8 DEF N

LEMMA NextSlotFacts ==
    ASSUME Shape, cpc = "write"
    PROVE  /\ cursor = <<cursor[1], cursor[2]>> /\ cursor[1] \in 1 .. Len(contents) /\ cursor[2] \in Slots
           /\ cursor # <<Len(contents), BucketSlots>> =>
                 /\ NextSlot \in (1 .. 3) \X Slots
                 /\ NextSlot[1] \in 1 .. Len(contents) /\ NextSlot[2] \in Slots
                 /\ \/ cursor[2] < BucketSlots /\ NextSlot[1] = cursor[1] /\ NextSlot[2] = cursor[2] + 1
                    \/ cursor[2] = BucketSlots /\ NextSlot[1] = cursor[1] + 1 /\ NextSlot[2] = 1
<1> DEFINE N == Len(contents)
           c == cursor[1]
           s == cursor[2]
<1>1. /\ cursor = <<c, s>> /\ c \in 1 .. N /\ s \in 1 .. BucketSlots /\ N \in {1, 3}
      /\ BucketSlots \in Nat /\ BucketSlots >= 1
  BY InstallFacts, Constants DEF Shape, TypeOK, CallShape, Slots
<1>2. NextSlot = IF s < BucketSlots THEN <<c, s + 1>> ELSE <<c + 1, 1>>
  BY DEF NextSlot
<1> HIDE DEF N, c, s
<1>3. ASSUME cursor # <<N, BucketSlots>>
      PROVE  /\ NextSlot \in (1 .. 3) \X Slots
             /\ NextSlot[1] \in 1 .. N /\ NextSlot[2] \in Slots
             /\ \/ s < BucketSlots /\ NextSlot[1] = c /\ NextSlot[2] = s + 1
                \/ s = BucketSlots /\ NextSlot[1] = c + 1 /\ NextSlot[2] = 1
  <2>1. CASE s < BucketSlots
    <3>1. NextSlot = <<c, s + 1>> /\ s + 1 \in 1 .. BucketSlots /\ c \in 1 .. 3
      BY <1>1, <1>2, <2>1
    <3> QED  BY <1>1, <2>1, <3>1 DEF Slots
  <2>2. CASE ~ (s < BucketSlots)
    <3>1. s = BucketSlots /\ c # N
      BY <1>1, <1>3, <2>2
    <3>2. c + 1 \in 1 .. N /\ c + 1 \in 1 .. 3 /\ 1 \in 1 .. BucketSlots
      BY <1>1, <3>1
    <3>3. NextSlot = <<c + 1, 1>>
      BY <1>2, <2>2
    <3> QED  BY <3>1, <3>2, <3>3 DEF Slots
  <2> QED  BY <2>1, <2>2
<1>4. cursor = <<c, s>> /\ c \in 1 .. N /\ s \in Slots
  BY <1>1 DEF Slots
<1> QED  BY <1>3, <1>4 DEF N, c, s

\* Evict's loop goes on with the rest of its path.
LEMMA LoopTail ==
    ASSUME LoopShape, cpc \in {"fetch", "write"}, todo \in Seq(Nodes), todo' = Tail(todo), todo' # << >>
    PROVE  /\ LoopShape' /\ todo' \in Seq(Nodes) /\ Head(todo') \in Nodes
           /\ Len(todo') = Len(todo) - 1 /\ \A i \in 1 .. Len(todo') : todo'[i] = todo[i + 1]
<1>1. PICK leaf \in Leaves : \A i \in 1 .. Len(todo) : todo[i] = PathNode(leaf, Len(todo) - i)
  BY DEF LoopShape
<1>2. todo # << >> /\ Len(todo) \in Nat /\ Len(todo) <= TreeHeight + 1
  BY Constants DEF LoopShape
<1> DEFINE N == Len(todo)
           rest == Tail(todo)
<1>3. /\ rest \in Seq(Nodes) /\ Len(rest) = N - 1 /\ \A i \in 1 .. N - 1 : rest[i] = todo[i + 1]
  BY <1>2
<1>4. rest # << >>
  OBVIOUS
<1> HIDE DEF rest
<1>5. Len(rest) \in Nat /\ Len(rest) # 0 /\ Head(rest) \in Nodes
  BY <1>3, <1>4
<1> HIDE DEF N
<1>6. N - 1 \in 1 .. TreeHeight + 1
  BY <1>2, <1>3, <1>5, Constants DEF N
<1>7. ASSUME NEW i \in 1 .. N - 1
      PROVE  rest[i] = PathNode(leaf, (N - 1) - i)
  <2>1. i + 1 \in 1 .. N /\ N - (i + 1) = (N - 1) - i
    BY <1>2, <1>7 DEF N
  <2> QED  BY <1>1, <1>3, <2>1 DEF N
<1>8. LoopShape'
  BY <1>3, <1>6, <1>7 DEF LoopShape, rest
<1> QED  BY <1>3, <1>5, <1>8 DEF rest, N

LEMMA SlotWrittenShape ==
    ASSUME Shape, UNCHANGED <<serverVars, oracle>>, SlotWritten
    PROVE  Shape'
<1>1. ClientTypes /\ ServerTypes
  BY TypeParts DEF Shape
<1>2. /\ cpc = "write" /\ resp.cmd = "K" /\ resp' = NoMsg
      /\ UNCHANGED <<posMap, accessCount, evictions, call, oldLeaf, picks, pathSum, result, fetched,
                     failed, conn>>
  BY DEF SlotWritten, ExpectAck
<1>3. req = NoMsg
  BY <1>2, RepliedFacts, NoMsgFacts
<1>4. /\ call # NoCall /\ result # NoResult /\ fetched = << >>
      /\ contents \in Seq([Slots -> Entries]) /\ Len(contents) = Len(WriteOrder)
  BY <1>1, <1>2 DEF Shape, CallShape, ClientTypes
<1>5. CASE cursor # <<Len(contents), BucketSlots>>
  <2> DEFINE m == WriteOf(contents, NextSlot[1], NextSlot[2])
  <2>1. cursor' = NextSlot /\ SendRequest(m) /\ UNCHANGED <<idMap, cpc, todo, contents>>
    BY <1>5 DEF SlotWritten
  <2>2. NextSlot \in (1 .. 3) \X Slots /\ NextSlot[1] \in 1 .. Len(contents) /\ NextSlot[2] \in Slots
    BY <1>2, <1>5, NextSlotFacts
  <2>3. m \in Requests /\ m.cmd = "U"
    BY <1>2, <1>4, <2>2, WriteOfFacts
  <2> HIDE DEF m
  <2>4. Conversation' /\ ServerTypes'
    BY <1>2, <1>3, <2>1, <2>3, SendKeeps DEF Sends
  <2>5. ClientTypes'
    BY <1>1, <1>2, <2>1, <2>2 DEF ClientTypes
  <2>6. CallShape' /\ LoopShape'
    BY <1>2, <2>1, <2>2 DEF Shape, CallShape, LoopShape, WriteOrder, Source
  <2> QED  BY <2>4, <2>5, <2>6, TypeParts DEF Shape
<1>6. CASE cursor = <<Len(contents), BucketSlots>>
  <2>1. /\ idMap' = InstallIds /\ contents' = << >> /\ cursor' = Start /\ todo' = Tail(todo)
        /\ IF todo' # << >>
           THEN cpc' = "fetch" /\ SendRequest([cmd |-> "R", node |-> Head(todo')])
           ELSE cpc' = (IF picks = << >> THEN "return" ELSE "retry") /\ UNCHANGED req
    BY <1>6 DEF SlotWritten
  <2>2. /\ idMap' \in [Nodes -> Ids] /\ cursor' \in (1 .. 3) \X Slots
        /\ contents' \in Seq([Slots -> Entries])
    BY <1>2, <2>1, InstallFacts, Constants DEF Start
  <2>3. CASE todo' # << >>
    <3> DEFINE m == [cmd |-> "R", node |-> Head(todo')]
    <3>1. cpc' = "fetch" /\ SendRequest(m)
      BY <2>1, <2>3
    <3>2. LoopShape' /\ todo' \in Seq(Nodes) /\ Head(todo') \in Nodes
      BY <1>1, <1>2, <2>1, <2>3, LoopTail DEF Shape, ClientTypes
    <3>3. m \in Requests /\ m.cmd = "R"
      BY <3>2, RequestMakers
    <3> HIDE DEF m
    <3>4. Conversation' /\ ServerTypes'
      BY <1>2, <1>3, <3>1, <3>3, SendKeeps DEF Sends
    <3>5. ClientTypes'
      BY <1>1, <1>2, <2>2, <3>1, <3>2 DEF ClientTypes, ClientPoints
    <3>6. Len(fetched') < Len(Involved)'
      BY <1>2, <1>4, InvolvedSize
    <3>7. CallShape'
      BY <1>2, <1>4, <2>1, <3>1, <3>6 DEF CallShape
    <3> QED  BY <3>2, <3>4, <3>5, <3>7, TypeParts DEF Shape
  <2>4. CASE todo' = << >>
    <3>1. cpc' = (IF picks = << >> THEN "return" ELSE "retry") /\ UNCHANGED req
      BY <2>1, <2>4
    <3>2. Conversation' /\ ServerTypes'
      BY <1>2, <1>3, <3>1, RestKeeps
    <3>3. todo' \in Seq(Nodes)
      BY <2>4
    <3>4. ClientTypes'
      BY <1>1, <1>2, <2>2, <3>1, <3>3 DEF ClientTypes, ClientPoints
    <3>5. CallShape' /\ LoopShape'
      BY <1>2, <1>4, <2>1, <2>4, <3>1 DEF CallShape, LoopShape
    <3> QED  BY <3>2, <3>4, <3>5, TypeParts DEF Shape
  <2> QED  BY <2>3, <2>4
<1> QED  BY <1>5, <1>6

LEMMA ReturnShape ==
    ASSUME Shape, UNCHANGED <<serverVars, oracle>>, Return
    PROVE  Shape'
<1> USE Constants
<1>1. ClientTypes /\ ServerTypes
  BY TypeParts DEF Shape
<1>2. /\ cpc = "return" /\ UNCHANGED <<posMap, idMap, accessCount, evictions, failed, conn, req, resp>>
      /\ cpc' = "idle" /\ call' = NoCall /\ oldLeaf' = 0 /\ picks' = << >> /\ pathSum' = Zero
      /\ result' = NoResult /\ todo' = << >> /\ fetched' = << >> /\ contents' = << >>
      /\ cursor' = <<1, 1>>
  BY DEF Return, EndOfCall, Start
<1>3. resp = NoMsg /\ (req = NoMsg \/ conn = "down") /\ (~ failed => req = NoMsg)
  BY <1>2, QuietFacts DEF Waiting, Shape, Conversation
<1>4. Conversation' /\ ServerTypes'
  <2>1. failed' \in BOOLEAN /\ (failed' \/ ~ failed)
    BY <1>1, <1>2 DEF ClientTypes
  <2> QED  BY <1>2, <1>3, <2>1, RestKeeps
<1>5. ClientTypes'
  BY <1>1, <1>2 DEF ClientTypes, ClientPoints
<1>6. CallShape' /\ LoopShape'
  BY <1>2 DEF CallShape, LoopShape
<1> QED  BY <1>4, <1>5, <1>6, TypeParts DEF Shape

LEMMA DestroyShape ==
    ASSUME Shape, UNCHANGED <<serverVars, oracle>>, DestroyClient
    PROVE  Shape'
<1> USE NoMsgFacts
<1>1. ClientTypes /\ ServerTypes
  BY TypeParts DEF Shape
<1> DEFINE m == [cmd |-> "Q"]
<1>2. /\ cpc = "idle" /\ cpc' = "destroyed" /\ SendRequest(m) /\ conn' = "down"
      /\ UNCHANGED <<posMap, idMap, accessCount, evictions, call, oldLeaf, picks, pathSum, result,
                     todo, fetched, contents, cursor, failed, resp>>
  BY DEF DestroyClient
<1>3. resp = NoMsg /\ (req = NoMsg \/ conn = "down")
  BY <1>2, QuietFacts DEF Waiting
<1>4. m \in Requests /\ m.cmd = "Q"
  BY RequestMakers
<1> HIDE DEF m
<1>5. req' = req \/ (req' = m /\ conn = "up")
  BY <1>2 DEF SendRequest
<1>6. ServerTypes'
  BY <1>1, <1>2, <1>4, <1>5 DEF ServerTypes, serverVars
<1>7. Conversation'
  <2>1. spc' = spc /\ (conn = "up" => spc # "clear")
    BY <1>2, <1>3 DEF Shape, Conversation, serverVars
  <2> QED  BY <1>2, <1>3, <1>4, <1>5, <2>1 DEF Shape, Conversation, Waiting
<1>8. ClientTypes'
  BY <1>1, <1>2 DEF ClientTypes, ClientPoints
<1>9. CallShape' /\ LoopShape'
  BY <1>2 DEF Shape, CallShape, LoopShape
<1> QED  BY <1>6, <1>7, <1>8, <1>9, TypeParts DEF Shape

LEMMA RecvThrowsShape ==
    ASSUME Shape, UNCHANGED <<serverVars, oracle>>, RecvThrows
    PROVE  Shape'
BY ThrowShape DEF RecvThrows, MayThrow

LEMMA ShapeInductive ==
    ASSUME Shape, [Next]_vars
    PROVE  Shape'
<1>1. CASE ServerThread
  BY <1>1, ServerShape
<1>2. CASE Stopper
  <2>1. UNCHANGED <<clientVars, oracle, tree, bucket, req, resp, spc, conn>> /\ running' \in BOOLEAN
    BY <1>2 DEF Stopper, Stop
  <2>2. spc \in ServerPoints /\ (spc = "clear" => req.cmd = "C")
    BY DEF Shape, TypeOK, Conversation
  <2> QED  BY <2>1, <2>2, PassKeeps
<1>3. CASE ClientWork
  BY <1>3, SelectShape, TakeSumShape, PlaceShape, RootWrittenShape, TakeBucketShape, SlotWrittenShape,
     ReturnShape, RecvThrowsShape, PathClearedShape DEF ClientWork
<1>4. CASE Caller
  BY <1>4, DestroyShape, AccessShape DEF Caller
<1>5. CASE NetworkNext
  <2>1. UNCHANGED <<clientVars, oracle, tree, bucket, req, resp, running, spc>> /\ conn' = "down"
    BY <1>5 DEF NetworkNext, ConnectionLost, serverVars
  <2>2. spc \in ServerPoints /\ running \in BOOLEAN /\ (spc = "clear" => req.cmd = "C")
    BY DEF Shape, TypeOK, Conversation
  <2> QED  BY <2>1, <2>2, PassKeeps
<1>6. CASE UNCHANGED vars
  <2>1. UNCHANGED <<clientVars, oracle, tree, bucket, req, resp, running, spc, conn>>
    BY <1>6 DEF vars, serverVars
  <2>2. spc \in ServerPoints /\ running \in BOOLEAN /\ (spc = "clear" => req.cmd = "C")
    BY DEF Shape, TypeOK, Conversation
  <2> QED  BY <2>1, <2>2, PassKeeps
<1> QED  BY <1>1, <1>2, <1>3, <1>4, <1>5, <1>6 DEF Next, Terminated

\* Every slot of the server holds a ciphertext, the id map has an id or none for
\* every slot of the tree, and no message asks for a slot, bucket or path that
\* does not exist: none of the server's refusals is ever reached by this client.
THEOREM TypeCorrect == Spec => []TypeOK
<1>1. Init => Shape
  BY InitShape
<1>2. Shape /\ [Next]_vars => Shape'
  BY ShapeInductive
<1>3. Shape => TypeOK
  BY DEF Shape
<1> QED  BY <1>1, <1>2, <1>3, PTL DEF Spec

-----------------------------------------------------------------------------
\* The sum along a path of which at most one chosen slot is not zero.
LEMMA OneTermSum ==
    ASSUME NEW path \in Seq(Nodes), NEW selections, NEW f, SumPrefixes(f, path, selections),
           NEW k0 \in 1 .. Len(path), NEW v \in Data,
           \A k \in 1 .. Len(path) : tree[path[k]][selections[k]] = IF k = k0 THEN v ELSE Zero
    PROVE  PathSum(path, selections) = v
<1> DEFINE N == Len(path)
           Bad == {k \in 0 .. N : f[k] # IF k0 <= k THEN v ELSE Zero}
<1>0. N \in Nat /\ k0 \in 1 .. N
  OBVIOUS
<1>1. f[0] = Zero /\ PathSum(path, selections) = f[N]
      /\ \A k \in 1 .. N : f[k] = Plus(f[k - 1], IF k = k0 THEN v ELSE Zero)
  BY DEF SumPrefixes
<1>2. \A x \in Data : Plus(x, Zero) = x /\ Plus(Zero, x) = x
  <2> SUFFICES ASSUME NEW x \in Data PROVE Plus(x, Zero) = x /\ Plus(Zero, x) = x
    OBVIOUS
  <2>1. x \in Nat /\ x < ByteModulus /\ ByteModulus \in Nat /\ ByteModulus >= 1
    BY Constants DEF Data
  <2>2. x % ByteModulus = x
    BY <2>1
  <2> QED  BY <2>1, <2>2 DEF Plus, Zero
<1> HIDE DEF N
<1>3. Bad = {}
  <2> SUFFICES ASSUME Bad # {} PROVE FALSE
    OBVIOUS
  <2>1. Bad \subseteq Nat
    BY <1>0
  <2>2. PICK k \in Bad : \A j \in Bad : k <= j
    <3> HIDE DEF Bad
    <3> QED  BY <2>1, LeastNatural
  <2>3. k \in 0 .. N /\ f[k] # IF k0 <= k THEN v ELSE Zero
    BY <2>2
  <2>4. k # 0
    BY <1>0, <1>1, <2>3
  <2>5. k \in 1 .. N /\ k - 1 \in 0 .. N /\ k - 1 < k
    BY <1>0, <2>3, <2>4
  <2>6. k - 1 \notin Bad
    <3> HIDE DEF Bad
    <3> QED  BY <1>0, <2>1, <2>2, <2>5
  <2>7. f[k - 1] = IF k0 <= k - 1 THEN v ELSE Zero
    BY <2>5, <2>6
  <2> HIDE DEF Bad
  <2>8. f[k] = Plus(f[k - 1], IF k = k0 THEN v ELSE Zero)
    BY <1>1, <2>5
  <2>9. CASE k0 <= k - 1
    BY <1>0, <1>2, <2>3, <2>5, <2>7, <2>8, <2>9
  <2>10. CASE k0 = k
    BY <1>0, <1>2, <2>3, <2>5, <2>7, <2>8, <2>10
  <2>11. CASE k0 > k
    <3>1. ~ (k0 <= k - 1) /\ k # k0 /\ ~ (k0 <= k)
      BY <1>0, <2>5, <2>11
    <3> QED  BY <1>2, <2>3, <2>7, <2>8, <3>1, Constants
  <2> QED  BY <1>0, <2>5, <2>9, <2>10, <2>11
<1>4. f[N] = v
  <2>1. N \in 0 .. N /\ k0 <= N
    BY <1>0
  <2>2. N \notin Bad
    BY <1>3
  <2> QED  BY <2>1, <2>2
<1> QED  BY <1>1, <1>4

\* The sum the client asks for is the block it wants.
LEMMA SumIsBlock ==
    ASSUME Shape, Truth, cpc = "sum"
    PROVE  PathSum(Paths[oldLeaf], picks) = oracle[call.addr]
<1> DEFINE a == call.addr
           path == Paths[oldLeaf]
           id(k) == idMap[path[k]][picks[k]]
<1>1. /\ tree \in [Nodes -> Contents] /\ idMap \in [Nodes -> Ids] /\ oracle \in [Addr -> Data]
      /\ oldLeaf \in Leaves /\ picks \in [1 .. TreeHeight + 1 -> Slots]
      /\ a \in Addr
  BY CallFacts DEF Shape, TypeOK, CallShape
<1>2. /\ path \in Seq(Nodes) /\ Len(path) = TreeHeight + 1
      /\ \A k \in 1 .. TreeHeight + 1 : path[k] \in Nodes
      /\ \A j, k \in 1 .. TreeHeight + 1 : path[j] = path[k] => j = k
  BY <1>1, PathsFacts
<1>3. \A k \in 1 .. TreeHeight + 1 : PathPick(path[k], picks[k])
  BY DEF PathPick
<1>4. \A k \in 1 .. TreeHeight + 1 : id(k) \in {NoBlock, a}
  BY <1>1, <1>2, <1>3 DEF Truth, PicksHold
<1>5. \A k \in 1 .. TreeHeight + 1 : tree[path[k]][picks[k]] = IF id(k) = a THEN oracle[a] ELSE Zero
  <2> SUFFICES ASSUME NEW k \in 1 .. TreeHeight + 1
               PROVE  tree[path[k]][picks[k]] = IF id(k) = a THEN oracle[a] ELSE Zero
    OBVIOUS
  <2>1. path[k] \in Nodes /\ picks[k] \in Slots
    BY <1>1, <1>2
  <2>2. tree[path[k]][picks[k]] = Value(id(k))
    BY <2>1 DEF Truth, Mirror, UnderWay
  <2>3. a # NoBlock
    BY <1>1, Constants
  <2> QED  BY <1>4, <2>2, <2>3 DEF Value
<1>6. PICK f : SumPrefixes(f, path, picks)
  BY <1>1, <1>2, PathSumSteps
<1>7. CASE \E k \in 1 .. TreeHeight + 1 : id(k) = a
  <2>1. PICK k0 \in 1 .. TreeHeight + 1 : id(k0) = a
    BY <1>7
  <2>2. ASSUME NEW k \in 1 .. TreeHeight + 1, id(k) = a
        PROVE  k = k0
    <3>1. path[k] \in Nodes /\ path[k0] \in Nodes /\ picks[k] \in Slots /\ picks[k0] \in Slots /\ a # NoBlock
      BY <1>1, <1>2, Constants
    <3>2. idMap[path[k]][picks[k]] = idMap[path[k0]][picks[k0]] /\ idMap[path[k]][picks[k]] # NoBlock
      BY <2>1, <2>2, <3>1
    <3>3. MapHolds(idMap)
      BY DEF Truth
    <3> HIDE DEF path, a, id
    <3>4. path[k] = path[k0]
      BY <3>1, <3>2, <3>3 DEF MapHolds
    <3> QED  BY <1>2, <3>4
  <2>3. \A k \in 1 .. TreeHeight + 1 : tree[path[k]][picks[k]] = IF k = k0 THEN oracle[a] ELSE Zero
    BY <1>5, <2>1, <2>2
  <2>4. oracle[a] \in Data
    BY <1>1
  <2> HIDE DEF path, a, id
  <2>5. k0 \in 1 .. Len(path)
    BY <1>2, <2>4
  <2>6. \A k \in 1 .. Len(path) : tree[path[k]][picks[k]] = IF k = k0 THEN oracle[a] ELSE Zero
    BY <1>2, <2>3
  <2>7. PathSum(path, picks) = oracle[a]
    <3>1. path \in Seq(Nodes)
      BY <1>2
    <3> QED  BY <1>6, <2>4, <2>5, <2>6, <3>1, OneTermSum, ZenonT(40)
  <2> QED  BY <2>7 DEF path, a
<1>8. CASE \A k \in 1 .. TreeHeight + 1 : id(k) # a
  <2>1. oracle[a] = Zero
    <3>1. ASSUME NEW n \in Nodes, NEW s \in Slots PROVE idMap[n][s] # a
      <4>1. idMap[n][s] = a => PathPick(n, s)
        BY DEF Truth, PicksHold
      <4> QED  BY <1>8, <4>1 DEF PathPick
    <3>2. ~ InHand(a)
      BY DEF InHand
    <3> QED  BY <1>1, <3>1, <3>2 DEF Truth, MapHolds
  <2>2. \A k \in 1 .. TreeHeight + 1 : tree[path[k]][picks[k]] = IF k = 1 THEN oracle[a] ELSE Zero
    BY <1>5, <1>8, <2>1
  <2>3. oracle[a] \in Data /\ 1 \in 1 .. TreeHeight + 1
    BY <1>1, Constants
  <2> HIDE DEF path, a, id
  <2>5. 1 \in 1 .. Len(path)
    BY <1>2, <2>3
  <2>6. \A k \in 1 .. Len(path) : tree[path[k]][picks[k]] = IF k = 1 THEN oracle[a] ELSE Zero
    BY <1>2, <2>2
  <2>7. PathSum(path, picks) = oracle[a]
    <3>1. path \in Seq(Nodes)
      BY <1>2
    <3> QED  BY <1>6, <2>3, <2>5, <2>6, <3>1, OneTermSum, ZenonT(40)
  <2> QED  BY <2>7 DEF path, a
<1> QED  BY <1>7, <1>8

-----------------------------------------------------------------------------
LEMMA RootSlotSame ==
    ASSUME UNCHANGED <<idMap, call>>
    PROVE  RootSlot' = RootSlot
<1>1. FindSlot(idMap, 0, call.addr)' = FindSlot(idMap, 0, call.addr)
      /\ FindSlot(idMap, 0, NoBlock)' = FindSlot(idMap, 0, NoBlock)
  BY DEF FindSlot, SelectInSeq
<1> QED  BY <1>1 DEF RootSlot, BlockOrDummySlot

\* Steps that leave the client alone leave alone what it knows.
LEMMA ClientSame ==
    ASSUME Truth, UNCHANGED <<clientVars, oracle>>
    PROVE  /\ MapHolds(idMap)' /\ (\A a \in Addr : InHand(a) => result = oracle[a])'
           /\ PicksHold'
           /\ (cpc = "write" => MapHolds(InstallIds))'
           /\ \A n, s : UnderWay(n, s)' = UnderWay(n, s)
<1>1. MapHolds(idMap)' /\ (\A a \in Addr : InHand(a) => result = oracle[a])'
  BY DEF Truth, MapHolds, InHand, LeafOf, clientVars
<1>2. PicksHold'
  BY DEF Truth, PicksHold, PathPick, clientVars
<1>3. InstallIds' = InstallIds
  BY DEF InstallIds, WriteOrder, Source, clientVars
<1>4. (cpc = "write" => MapHolds(InstallIds))'
  BY <1>3 DEF Truth, WriteState, MapHolds, InHand, LeafOf, clientVars
<1>5. \A n, s : UnderWay(n, s)' = UnderWay(n, s)
  BY RootSlotSame DEF UnderWay, PathPick, WriteOrder, Source, clientVars
<1> QED  BY <1>1, <1>2, <1>4, <1>5

LEMMA PassTruth ==
    ASSUME Truth, UNCHANGED <<clientVars, oracle, tree, req, resp>>
    PROVE  Truth'
<1>1. MapHolds(idMap)' /\ (\A a \in Addr : InHand(a) => result = oracle[a])' /\ PicksHold'
  BY ClientSame
<1>2. Mirror'
  BY ClientSame DEF Truth, Mirror, Value, clientVars
<1>3. SumState' /\ ClearState'
  BY DEF Truth, SumState, ClearState, ClearedUpTo, clientVars
<1>4. RootState'
  BY RootSlotSame DEF Truth, RootState, clientVars
<1>5. FetchState'
  BY DEF Truth, FetchState, Involved, Source, clientVars
<1>6. WriteState'
  <2>1. (cpc = "write" => MapHolds(InstallIds))'
    BY ClientSame
  <2> QED  BY <2>1 DEF Truth, WriteState, Value, BeforeCursor, WrittenAt, WriteOf, WriteOrder, Source,
                       clientVars
<1> QED  BY <1>1, <1>2, <1>3, <1>4, <1>5, <1>6 DEF Truth

\* When the server takes a request, the client waits for it to be answered.
LEMMA ServerSound ==
    ASSUME Shape, UNCHANGED <<clientVars, oracle>>, Sound', req # NoMsg
    PROVE  Sound /\ Waiting /\ resp = NoMsg /\ (conn = "up" => Asking)
<1>1. ~ failed /\ cpc # "destroyed" /\ (Waiting => Waiting')
  BY DEF Sound, Waiting, clientVars
<1>2. Waiting
  BY <1>1 DEF Shape, Conversation
<1> QED  BY <1>1, <1>2 DEF Shape, Conversation, Sound

LEMMA AnswerSound ==
    ASSUME Shape, UNCHANGED <<clientVars, oracle>>, Sound', req # NoMsg, NEW m, Answer(m)
    PROVE  resp' = m /\ req' = NoMsg /\ Asking
<1>1. running \in BOOLEAN /\ conn \in {"up", "down"}
  BY DEF Shape, TypeOK
<1>2. req' = NoMsg /\ ((conn = "down" /\ resp' = resp) \/ (conn = "up" /\ resp' = m))
  BY <1>1, AnswerFacts
<1>3. Waiting /\ resp = NoMsg /\ (conn = "up" => Asking)
  BY ServerSound
<1>4. Waiting' <=> Waiting
  BY DEF Waiting, clientVars
<1> QED  BY <1>2, <1>3, <1>4 DEF Sound

LEMMA PassSound ==
    ASSUME Sound => Truth, UNCHANGED <<clientVars, oracle, tree, req, resp>>, Sound'
    PROVE  Truth'
<1>1. Sound
  BY DEF Sound, Waiting, clientVars
<1> QED  BY <1>1, PassTruth

LEMMA HandleAccessTruth ==
    ASSUME Shape, Sound => Truth, UNCHANGED <<clientVars, oracle>>, HandleAccess, Sound'
    PROVE  Truth'
<1>1. req.cmd = "A" /\ req # NoMsg /\ tree' = tree
  BY NoMsgFacts DEF HandleAccess, Command
<1>2. Truth /\ resp = NoMsg
  BY <1>1, ServerSound
<1>3. req.selections \in [1 .. TreeHeight + 1 -> Slots] /\ oldLeaf \in Leaves
  BY <1>1, RequestShapes DEF Shape, TypeOK
<1> DEFINE m == [cmd |-> "sum", sum |-> PathSum(PathOf(req.leaf), req.selections)]
<1>4. Answer(m)
  <2>1. \A k \in DOMAIN req.selections : req.selections[k] \in Slots
    BY <1>3
  <2> QED  BY <2>1 DEF HandleAccess
<1>5. resp' = m /\ req' = NoMsg /\ Asking
  BY <1>1, <1>4, AnswerSound
<1>6. cpc = "sum" /\ cpc' = "sum"
  BY <1>1, <1>5 DEF Asking, clientVars
<1>7. req.leaf = oldLeaf /\ req.selections = picks
  BY <1>2, <1>6, NoMsgFacts DEF Truth, SumState
<1>8. PathOf(req.leaf) = Paths[oldLeaf]
  <2>1. oldLeaf % NumLeaves = oldLeaf
    BY SMTT(40), <1>3, Constants DEF Leaves
  <2> QED  BY <1>7, <2>1 DEF PathOf
<1>9. resp' = [cmd |-> "sum", sum |-> oracle[call.addr]]
  BY <1>2, <1>5, <1>6, <1>7, <1>8, SumIsBlock
<1>10. SumState'
  BY <1>9 DEF SumState, clientVars
<1>11. MapHolds(idMap)' /\ (\A a \in Addr : InHand(a) => result = oracle[a])' /\ PicksHold'
  BY <1>2, ClientSame
<1>12. Mirror'
  BY <1>1, <1>2, ClientSame DEF Truth, Mirror, Value, clientVars
<1>13. ClearState' /\ RootState' /\ FetchState' /\ WriteState'
  BY <1>6 DEF ClearState, RootState, FetchState, WriteState
<1> QED  BY <1>10, <1>11, <1>12, <1>13 DEF Truth

LEMMA PathOfLeaf ==
    ASSUME NEW leaf \in Leaves
    PROVE  PathOf(leaf) = Paths[leaf]
<1>1. leaf % NumLeaves = leaf
  BY Constants DEF Leaves
<1> QED  BY <1>1 DEF PathOf

LEMMA ClearSlotTruth ==
    ASSUME Shape, Sound => Truth, UNCHANGED <<clientVars, oracle>>, ClearSlot, Sound'
    PROVE  Truth'
<1> DEFINE H == TreeHeight + 1
           s == req.selections
           L == Len(s)
           path == Paths[oldLeaf]
           d == H - L
           node == path[d + 1]
           slot == picks[d + 1]
<1>1. spc = "clear" /\ s # << >> /\ req.cmd = "C" /\ req # NoMsg
  BY NoMsgFacts DEF ClearSlot, Shape, Conversation
<1>2. /\ s \in Seq(Slots) /\ L <= H /\ oldLeaf \in Leaves /\ tree \in [Nodes -> Contents]
      /\ req = [cmd |-> "C", leaf |-> req.leaf, selections |-> s]
  BY <1>1, RequestShapes DEF Shape, TypeOK, Conversation
<1>3. Truth /\ resp = NoMsg /\ Waiting
  BY <1>1, ServerSound
<1>4. resp' = NoMsg
  <2>1. Head(s) \in Slots
    BY <1>1, <1>2
  <2> QED  BY <1>3, <2>1 DEF ClearSlot
<1>5. cpc = "clear" /\ cpc' = "clear" /\ req' # NoMsg
  <2>1. req' # NoMsg
    BY <1>3, <1>4 DEF Sound, Waiting, clientVars
  <2>2. conn = "up" \/ conn = "down"
    BY DEF Shape, TypeOK
  <2>3. cpc = "clear"
    <3>1. ASSUME cpc # "clear" PROVE FALSE
      <4>1. cpc \in {"sum", "root", "fetch", "write"}
        BY <1>3, <3>1 DEF Waiting
      <4>2. cpc = "sum" => req.cmd = "A"
        BY <1>3, NoMsgFacts DEF Truth, SumState
      <4>3. cpc = "fetch" => req.cmd = "R"
        BY <1>3, NoMsgFacts DEF Truth, FetchState
      <4>4. cpc \in {"root", "write"} => req.cmd = "U"
        BY <1>3, NoMsgFacts DEF Truth, RootState, WriteState, WriteOf
      <4> QED  BY <1>1, <4>1, <4>2, <4>3, <4>4
    <3> QED  BY <3>1
  <2> QED  BY <2>1, <2>3 DEF clientVars
<1>6. /\ req.leaf = oldLeaf /\ \A i \in 1 .. L : s[i] = picks[d + i]
      /\ ClearedUpTo(d) /\ pathSum = oracle[call.addr]
  <2>1. Truth /\ resp = NoMsg /\ cpc = "clear"
    BY <1>3, <1>5
  <2>2. ClearState
    BY <2>1 DEF Truth
  <2>3. /\ req.leaf = oldLeaf /\ pathSum = oracle[call.addr]
        /\ ClearedUpTo(TreeHeight + 1 - Len(req.selections))
        /\ \A i \in 1 .. Len(req.selections) :
              req.selections[i] = picks[TreeHeight + 1 - Len(req.selections) + i]
    BY <2>1, <2>2, Zenon DEF ClearState
  <2>4. TreeHeight + 1 - Len(req.selections) = d
    <3>1. Len(req.selections) \in Nat /\ TreeHeight \in Nat
      BY <1>2, Constants
    <3> QED  BY <3>1
  <2> HIDE DEF d
  <2> QED  BY <2>3, <2>4
<1>7. PathOf(req.leaf) = path /\ Len(path) = H
      /\ \A k \in 1 .. H : path[k] \in Nodes
  BY <1>2, <1>6, PathsFacts, PathOfLeaf
<1>8. /\ L \in Nat /\ L >= 1 /\ H \in Nat /\ Head(s) = s[1]
      /\ Tail(s) \in Seq(Slots) /\ Len(Tail(s)) = L - 1 /\ \A i \in 1 .. L - 1 : Tail(s)[i] = s[i + 1]
  BY <1>1, <1>2, Constants
<1>9. d \in Nat /\ d + 1 \in 1 .. H /\ H - L + 1 = d + 1 /\ H - (L - 1) = d + 1
  <2> HIDE DEF L, H
  <2> QED  BY <1>2, <1>8 DEF d
<1>10. Head(s) = slot
  <2>1. 1 \in 1 .. L
    BY <1>8
  <2> QED  BY <1>6, <1>8, <2>1
<1>11. slot \in Slots /\ node \in Nodes
  BY <1>7, <1>9, <1>5 DEF Shape, CallShape
<1>12. /\ tree' = [tree EXCEPT ![node][slot] = Zero]
       /\ req' = [req EXCEPT !.selections = Tail(@)]
  <2> HIDE DEF d, L, H
  <2> QED  BY <1>7, <1>9, <1>10, <1>11 DEF ClearSlot, L, H
<1>13. req' = [cmd |-> "C", leaf |-> oldLeaf, selections |-> Tail(s)]
  <2> HIDE DEF s
  <2>1. req = [cmd |-> "C", leaf |-> oldLeaf, selections |-> s] /\ req' = [req EXCEPT !.selections = Tail(s)]
    BY <1>2, <1>6, <1>12 DEF s
  <2> QED  BY <2>1
<1> HIDE DEF s, L, H, d, node, slot, path
<1>14. \A n \in Nodes, t \in Slots :
          tree'[n][t] = IF n = node /\ t = slot THEN Zero ELSE tree[n][t]
  BY <1>2, <1>11, <1>12 DEF Contents
<1>15. UnderWay(node, slot)
  BY <1>5, <1>9 DEF UnderWay, PathPick, node, slot, path, H
<1>16. Mirror'
  <2> SUFFICES ASSUME NEW n \in Nodes, NEW t \in Slots, ~ UnderWay(n, t)'
               PROVE  tree'[n][t] = Value(idMap[n][t])'
    BY DEF Mirror
  <2>1. ~ UnderWay(n, t)
    BY <1>3, ClientSame
  <2>2. tree'[n][t] = tree[n][t]
    BY <1>14, <1>15, <2>1
  <2> QED  BY <1>3, <2>1, <2>2 DEF Truth, Mirror, Value, clientVars
<1>17. \A k \in 1 .. d + 1 : tree'[path[k]][picks[k]] = Zero
  <2> SUFFICES ASSUME NEW k \in 1 .. d + 1
               PROVE  tree'[path[k]][picks[k]] = Zero
    OBVIOUS
  <2>1. k \in 1 .. H
    BY <1>8, <1>9
  <2>2. path[k] \in Nodes /\ picks[k] \in Slots
    BY <1>5, <1>7, <2>1 DEF Shape, CallShape, H
  <2>3. CASE k = d + 1
    BY <1>14, <2>2, <2>3 DEF node, slot
  <2>4. CASE k # d + 1
    <3>1. k \in 1 .. d
      BY <1>9, <2>4
    <3>2. tree[path[k]][picks[k]] = Zero
      BY <1>6, <3>1 DEF ClearedUpTo, path
    <3> QED  BY <1>14, <2>2, <3>2
  <2> QED  BY <2>3, <2>4
<1>18. ClearState'
  <2> DEFINE t == Tail(s)
             e == d + 1
  <2>1. req'.cmd = "C" /\ req'.leaf = oldLeaf /\ req'.selections = t
    BY <1>13
  <2>2. Len(t) = L - 1 /\ H - Len(t) = e
    BY <1>8, <1>9
  <2>3. ASSUME NEW i \in 1 .. L - 1
        PROVE  t[i] = picks[e + i]
    <3>1. t[i] = s[i + 1] /\ i + 1 \in 1 .. L /\ d + (i + 1) = e + i
      BY <1>8, <1>9
    <3> QED  BY <1>6, <3>1
  <2>4. \A k \in 1 .. e : tree'[path[k]][picks[k]] = Zero
    BY <1>17
  <2> HIDE DEF t, e
  <2>5. TreeHeight + 1 - Len(req'.selections) = e /\ Len(req'.selections) = L - 1
    <3>1. Len(req'.selections) = Len(t)
      BY <2>1
    <3> QED  BY <1>8, <2>2, <3>1, Constants DEF H
  <2>7. \A i \in 1 .. Len(req'.selections) :
           req'.selections[i] = picks'[TreeHeight + 1 - Len(req'.selections) + i]
    <3>1. picks' = picks
      BY DEF clientVars
    <3> QED  BY <2>1, <2>3, <2>5, <3>1
  <2>8. (ClearedUpTo(TreeHeight + 1 - Len(req.selections)))'
    <3>1. \A k \in 1 .. e : tree'[Paths[oldLeaf'][k]][picks'[k]] = Zero
      BY <2>4 DEF path, clientVars
    <3> QED  BY <2>5, <3>1 DEF ClearedUpTo
  <2>6. (pathSum = oracle[call.addr])'
    BY <1>6 DEF clientVars
  <2>9. oldLeaf' = oldLeaf
    BY DEF clientVars
  <2> QED  BY <1>5, <2>1, <2>6, <2>7, <2>8, <2>9 DEF ClearState
<1>19. MapHolds(idMap)' /\ (\A a \in Addr : InHand(a) => result = oracle[a])' /\ PicksHold'
  BY <1>3, ClientSame
<1>20. SumState' /\ RootState' /\ FetchState' /\ WriteState'
  BY <1>5 DEF SumState, RootState, FetchState, WriteState
<1> QED  BY <1>16, <1>18, <1>19, <1>20 DEF Truth

LEMMA AckClearPathTruth ==
    ASSUME Shape, Sound => Truth, UNCHANGED <<clientVars, oracle>>, AckClearPath, Sound'
    PROVE  Truth'
<1>1. /\ spc = "clear" /\ req.selections = << >> /\ req.cmd = "C" /\ req # NoMsg /\ tree' = tree
      /\ Answer(Ack)
  BY NoMsgFacts DEF AckClearPath, Shape, Conversation
<1>2. Truth /\ resp = NoMsg
  BY <1>1, ServerSound
<1>3. resp' = Ack /\ req' = NoMsg /\ Asking
  BY <1>1, AnswerSound
<1>4. cpc = "clear" /\ cpc' = "clear" /\ Ack # NoMsg
  BY <1>1, <1>3, NoMsgFacts DEF Asking, clientVars
<1>5. ClearedUpTo(TreeHeight + 1) /\ pathSum = oracle[call.addr]
  <2>1. TreeHeight + 1 - Len(req.selections) = TreeHeight + 1
    BY <1>1, Constants
  <2> QED  BY <1>2, <1>4, <2>1 DEF Truth, ClearState
<1>6. ClearState'
  BY <1>1, <1>3, <1>4, <1>5 DEF ClearState, ClearedUpTo, clientVars
<1>7. MapHolds(idMap)' /\ (\A a \in Addr : InHand(a) => result = oracle[a])' /\ PicksHold'
  BY <1>2, ClientSame
<1>8. Mirror'
  BY <1>1, <1>2, ClientSame DEF Truth, Mirror, Value, clientVars
<1>9. SumState' /\ RootState' /\ FetchState' /\ WriteState'
  BY <1>4 DEF SumState, RootState, FetchState, WriteState
<1> QED  BY <1>6, <1>7, <1>8, <1>9 DEF Truth

LEMMA HandleReadBucketTruth ==
    ASSUME Shape, Sound => Truth, UNCHANGED <<clientVars, oracle>>, HandleReadBucket, Sound'
    PROVE  Truth'
<1>1. req.cmd = "R" /\ req # NoMsg /\ tree' = tree
  BY NoMsgFacts DEF HandleReadBucket, Command
<1>2. Truth /\ resp = NoMsg
  BY <1>1, ServerSound
<1>3. req.node \in Nodes
  BY <1>1, RequestShapes DEF Shape, TypeOK
<1> DEFINE m == [cmd |-> "bucket", slots |-> tree[req.node]]
<1>4. Answer(m)
  BY <1>3 DEF HandleReadBucket
<1>5. resp' = m /\ req' = NoMsg /\ Asking
  BY <1>1, <1>4, AnswerSound
<1>6. cpc = "fetch" /\ cpc' = "fetch"
  BY <1>1, <1>5 DEF Asking, clientVars
<1>7. req.node = Involved[Len(fetched) + 1] /\ \A k \in 1 .. Len(fetched) : fetched[k] = tree[Involved[k]]
  BY <1>2, <1>6, NoMsgFacts DEF Truth, FetchState
<1>8. FetchState'
  BY <1>1, <1>5, <1>7 DEF FetchState, Involved, Source, clientVars
<1>9. MapHolds(idMap)' /\ (\A a \in Addr : InHand(a) => result = oracle[a])' /\ PicksHold'
  BY <1>2, ClientSame
<1>10. Mirror'
  BY <1>1, <1>2, ClientSame DEF Truth, Mirror, Value, clientVars
<1>11. SumState' /\ ClearState' /\ RootState' /\ WriteState'
  BY <1>6 DEF SumState, ClearState, RootState, WriteState
<1> QED  BY <1>8, <1>9, <1>10, <1>11 DEF Truth

LEMMA HandleWriteSlotTruth ==
    ASSUME Shape, Sound => Truth, UNCHANGED <<clientVars, oracle>>, HandleWriteSlot, Sound'
    PROVE  Truth'
<1>1. req.cmd = "U" /\ req # NoMsg
  BY NoMsgFacts DEF HandleWriteSlot, Command
<1>2. Truth /\ resp = NoMsg
  BY <1>1, ServerSound
<1> DEFINE node == req.node
           slot == req.slot
<1>3. node \in Nodes /\ slot \in Slots /\ tree \in [Nodes -> Contents]
  BY <1>1, RequestShapes DEF Shape, TypeOK
<1>4. tree' = [tree EXCEPT ![node][slot] = req.data] /\ Answer(Ack)
  BY <1>3 DEF HandleWriteSlot
<1>5. resp' = Ack /\ req' = NoMsg /\ Asking /\ Ack # NoMsg
  BY <1>1, <1>4, AnswerSound, NoMsgFacts
<1>6. cpc \in {"root", "write"} /\ cpc' = cpc
  BY <1>1, <1>5 DEF Asking, clientVars
<1>7. \A n \in Nodes, t \in Slots :
         tree'[n][t] = IF n = node /\ t = slot THEN req.data ELSE tree[n][t]
  BY <1>3, <1>4 DEF Contents
<1>8. UnderWay(node, slot)
  <2>1. CASE cpc = "root"
    BY <1>2, <2>1, NoMsgFacts DEF Truth, RootState, UnderWay
  <2>2. CASE cpc = "write"
    <3>1. req = WriteOf(contents, cursor[1], cursor[2])
      BY <1>2, <2>2 DEF Truth, WriteState
    <3>2. cursor[1] \in 1 .. Len(WriteOrder) /\ node = WriteOrder[cursor[1]]
      BY <2>2, <3>1, InstallFacts DEF WriteOf, Shape, CallShape
    <3> QED  BY <2>2, <3>2 DEF UnderWay
  <2> QED  BY <1>6, <2>1, <2>2
<1>9. Mirror'
  <2> SUFFICES ASSUME NEW n \in Nodes, NEW t \in Slots, ~ UnderWay(n, t)'
               PROVE  tree'[n][t] = Value(idMap[n][t])'
    BY DEF Mirror
  <2>1. ~ UnderWay(n, t)
    BY <1>2, ClientSame
  <2>2. tree'[n][t] = tree[n][t]
    BY <1>7, <1>8, <2>1
  <2> QED  BY <1>2, <2>1, <2>2 DEF Truth, Mirror, Value, clientVars
<1>10. RootState'
  <2> SUFFICES ASSUME cpc = "root" PROVE RootState'
    BY <1>6 DEF RootState
  <2>1. RootSlot' = RootSlot
    BY RootSlotSame DEF clientVars
  <2>2. RootSlot \in Slots /\ idMap[0][RootSlot] = NoBlock /\ node = 0 /\ slot = RootSlot /\ req.data = result
    BY <1>2, NoMsgFacts DEF Truth, RootState
  <2>3. tree'[0][RootSlot] = result
    BY <1>3, <1>7, <2>2
  <2> QED  BY <1>5, <2>1, <2>2, <2>3 DEF RootState, clientVars
<1>11. WriteState'
  <2> SUFFICES ASSUME cpc = "write" PROVE WriteState'
    BY <1>6 DEF WriteState
  <2> DEFINE c == cursor[1]
             e == cursor[2]
  <2>1. req = WriteOf(contents, c, e)
    BY <1>2 DEF Truth, WriteState
  <2>2. node = WriteOrder[c] /\ slot = e /\ req.data = contents[c][e].data
    BY <2>1 DEF WriteOf
  <2>3. c \in 1 .. Len(contents) /\ e \in Slots /\ Len(contents) = Len(WriteOrder)
        /\ Len(contents) \in Nat /\ BucketSlots \in Nat
    BY NextSlotFacts, InstallFacts, Constants
  <2>4. \A j, k \in 1 .. Len(contents) : WriteOrder[j] = WriteOrder[k] => j = k
    BY <2>3, LoopFacts DEF Shape
  <2>5. \A k \in 1 .. Len(contents) : WriteOrder[k] \in Nodes
    BY <2>3, LoopFacts DEF Shape
  <2>6. tree'[WriteOrder[c]][e] = contents[c][e].data
    BY <1>3, <1>7, <2>2
  <2>7. ASSUME NEW k \in 1 .. Len(contents), NEW s \in Slots, BeforeCursor(k, s)
        PROVE  tree'[WriteOrder[k]][s] = contents[k][s].data
    <3>1. tree[WriteOrder[k]][s] = contents[k][s].data
      BY <1>2, <2>7 DEF Truth, WriteState, WrittenAt
    <3>2. ~ (k = c /\ s = e)
      BY <2>3, <2>7 DEF BeforeCursor, Slots
    <3>3. WriteOrder[k] \in Nodes /\ ~ (WriteOrder[k] = node /\ s = slot)
      BY <2>2, <2>3, <2>4, <2>5, <3>2
    <3> QED  BY <1>7, <3>1, <3>3
  <2> HIDE DEF c, e, node, slot
  <2>8. WriteOrder' = WriteOrder /\ UNCHANGED <<contents, cursor, oracle>>
    BY DEF WriteOrder, Source, clientVars
  <2>9. (cpc = "write" => MapHolds(InstallIds))'
    BY <1>2, ClientSame
  <2>10. (\A k \in 1 .. Len(contents), s \in Slots : contents[k][s].data = Value(contents[k][s].id))'
    BY <1>2, <2>8 DEF Truth, WriteState, Value
  <2>11. (\A k \in 1 .. Len(contents), s \in Slots : BeforeCursor(k, s) => WrittenAt(k, s))'
    BY <2>7, <2>8 DEF BeforeCursor, WrittenAt
  <2>12. (WrittenAt(cursor[1], cursor[2]))'
    BY <2>6, <2>8 DEF WrittenAt, c, e
  <2> QED  BY <1>5, <2>9, <2>10, <2>11, <2>12 DEF WriteState
<1>12. MapHolds(idMap)' /\ (\A a \in Addr : InHand(a) => result = oracle[a])' /\ PicksHold'
  BY <1>2, ClientSame
<1>13. SumState' /\ ClearState' /\ FetchState'
  BY <1>6 DEF SumState, ClearState, FetchState
<1> QED  BY <1>9, <1>10, <1>11, <1>12, <1>13 DEF Truth

LEMMA ServerTruth ==
    ASSUME Shape, Sound => Truth, ServerThread, Sound'
    PROVE  Truth'
<1>1. UNCHANGED <<clientVars, oracle>>
  BY DEF ServerThread
<1>2. CASE StartHandleRequests \/ HandleClearPath \/ DestroyServer
  BY <1>1, <1>2, PassSound DEF StartHandleRequests, HandleClearPath, DestroyServer
<1>3. CASE HandleQuit
  <2>1. /\ req' = NoMsg /\ resp' = resp /\ req # NoMsg
        /\ req.cmd \notin {"A", "C", "R", "U"}
    BY <1>3, NoMsgFacts DEF HandleQuit, Refuse, Consume, Commands
  <2>2. Waiting /\ resp = NoMsg
    BY <1>1, <2>1, ServerSound
  <2> QED  BY <1>1, <2>1, <2>2 DEF Sound, Waiting, clientVars
<1>4. CASE ServerRecvThrows
  <2>1. req' = NoMsg /\ resp' = resp /\ tree' = tree
    BY <1>4 DEF ServerRecvThrows, Refuse, Consume
  <2>2. req = NoMsg
    <3> SUFFICES ASSUME req # NoMsg PROVE FALSE
      OBVIOUS
    <3>1. Waiting /\ resp = NoMsg
      BY <1>1, ServerSound
    <3> QED  BY <1>1, <2>1, <3>1 DEF Sound, Waiting, clientVars
  <2> QED  BY <1>1, <2>1, <2>2, PassSound
<1> QED  BY <1>1, <1>2, <1>3, <1>4, HandleAccessTruth, ClearSlotTruth, AckClearPathTruth,
            HandleReadBucketTruth, HandleWriteSlotTruth DEF ServerThread

-----------------------------------------------------------------------------
LEMMA InitTruth == Init => Truth
<1> SUFFICES ASSUME Init PROVE Truth
  OBVIOUS
<1>1. /\ tree = [n \in Nodes |-> ClearedBucket] /\ oracle = [a \in Addr |-> Zero]
      /\ idMap = [n \in Nodes |-> AllDummies] /\ cpc = "idle" /\ picks = << >>
  BY DEF Init, ConstructServer, ConstructClient
<1>2. \A n \in Nodes, s \in Slots : idMap[n][s] = NoBlock /\ tree[n][s] = Zero
  BY <1>1 DEF AllDummies, ClearedBucket
<1>3. MapHolds(idMap) /\ \A a \in Addr : ~ InHand(a)
  BY <1>1, <1>2 DEF MapHolds, InHand
<1>4. Mirror
  BY <1>2 DEF Mirror, Value
<1>5. PicksHold /\ SumState /\ ClearState /\ RootState /\ FetchState /\ WriteState
  BY <1>1 DEF PicksHold, SumState, ClearState, RootState, FetchState, WriteState
<1> QED  BY <1>3, <1>4, <1>5 DEF Truth

\* A client that has not failed and asks something is asking.
LEMMA SendSound ==
    ASSUME Shape, ~ Waiting \/ resp # NoMsg, cpc # "destroyed", failed' = failed, resp' = NoMsg,
           NEW m, SendRequest(m), cpc' \in {"sum", "clear", "root", "fetch", "write"}, Sound'
    PROVE  req' = m /\ Sound
<1>1. ~ failed
  BY DEF Sound
<1>2. req = NoMsg
  BY <1>1, RepliedFacts DEF Shape, Conversation
<1>3. req' # NoMsg
  BY DEF Sound, Waiting
<1> QED  BY <1>1, <1>2, <1>3 DEF SendRequest, Sound

LEMMA RestSound ==
    ASSUME Shape, ~ Waiting \/ resp # NoMsg, cpc # "destroyed", failed' = failed, Sound'
    PROVE  Sound
BY DEF Sound

LEMMA AccessTruth ==
    ASSUME Shape, Sound => Truth, UNCHANGED <<serverVars, oracle>>, NEW c \in Calls, Access(c), Sound'
    PROVE  Truth'
<1>1. /\ cpc = "idle" /\ cpc' = "select" /\ call' = c /\ oldLeaf' = posMap[c.addr]
      /\ UNCHANGED <<idMap, accessCount, evictions, picks, pathSum, result, todo, fetched, contents,
                     cursor, failed, conn, req, resp>>
  BY DEF Access
<1>2. PICK leaf \in Leaves : posMap' = [posMap EXCEPT ![c.addr] = leaf]
  BY DEF Access
<1>3. Truth
  BY <1>1, RestSound DEF Waiting
<1>4. c.addr \in Addr /\ posMap \in [Addr -> Leaves] /\ idMap \in [Nodes -> Ids] /\ picks = << >>
  BY <1>1, CallFacts DEF Shape, TypeOK, CallShape
<1>6. \A a \in Addr : ~ InHand(a) /\ ~ InHand(a)'
  BY <1>1, <1>4 DEF InHand
<1>7. MapHolds(idMap)'
  <2>1. \A n \in Nodes, s \in Slots : idMap[n][s] # NoBlock => idMap[n][s] \in Addr
    BY <1>4 DEF Ids
  <2>2. idMap' = idMap /\ UNCHANGED oracle
    BY <1>1
  <2>3. \A n \in Nodes, s \in Slots : idMap[n][s] # NoBlock => LeafOf(idMap[n][s])' = LeafOf(idMap[n][s])
    <3> SUFFICES ASSUME NEW n \in Nodes, NEW s \in Slots, idMap[n][s] # NoBlock
                 PROVE  LeafOf(idMap[n][s])' = LeafOf(idMap[n][s])
      OBVIOUS
    <3> DEFINE b == idMap[n][s]
    <3>1. b \in Addr
      BY <2>1
    <3>2. b' = b
      BY <2>2
    <3> HIDE DEF b
    <3>3. LeafOf(b)' = (IF cpc' \in {"select", "sum", "clear"} /\ call'.addr = b THEN oldLeaf' ELSE posMap'[b])
      BY <3>2 DEF LeafOf
    <3>4. b = c.addr \/ b # c.addr
      OBVIOUS
    <3>5. LeafOf(b) = posMap[b]
      BY <1>1 DEF LeafOf
    <3>6. LeafOf(b)' = LeafOf(b)
      <4>1. CASE b = c.addr
        BY <1>1, <3>3, <3>5, <4>1
      <4>2. CASE b # c.addr
        BY <1>1, <1>2, <1>4, <3>1, <3>3, <3>5, <4>2
      <4> QED  BY <4>1, <4>2
    <3> QED  BY <3>6 DEF b
  <2> QED  BY <1>3, <1>6, <2>2, <2>3 DEF Truth, MapHolds
<1>8. Mirror'
  <2>1. \A n, s : ~ UnderWay(n, s) /\ ~ UnderWay(n, s)'
    BY <1>1 DEF UnderWay
  <2>2. tree' = tree /\ idMap' = idMap /\ oracle' = oracle
    BY <1>1 DEF serverVars
  <2> QED  BY <1>3, <2>1, <2>2 DEF Truth, Mirror, Value
<1>9. PicksHold' /\ SumState' /\ ClearState' /\ RootState' /\ FetchState' /\ WriteState'
  BY <1>1 DEF PicksHold, SumState, ClearState, RootState, FetchState, WriteState
<1> QED  BY <1>6, <1>7, <1>8, <1>9 DEF Truth

\* The id map is believed as before, when the client goes from one of these points
\* to another.
LEMMA MapSame ==
    ASSUME MapHolds(idMap), UNCHANGED <<idMap, posMap, call, oracle>>,
           \/ /\ cpc \in {"select", "sum", "clear"} /\ cpc' \in {"sum", "clear"} /\ UNCHANGED oldLeaf
              /\ cpc = "select" => picks = << >>
           \/ /\ {cpc, cpc'} \cap {"select", "sum", "clear"} = {}
              /\ picks' = picks
    PROVE  MapHolds(idMap)'
<1>1. \A n \in Nodes, s \in Slots : LeafOf(idMap[n][s])' = LeafOf(idMap[n][s])
  BY DEF LeafOf
<1>2. \A a \in Addr : InHand(a)' = InHand(a)
  BY DEF InHand
<1> QED  BY <1>1, <1>2 DEF MapHolds

LEMMA OnPathIndex ==
    ASSUME NEW leaf \in Leaves, NEW n
    PROVE  /\ OnPath(n, leaf) => \E k \in 1 .. TreeHeight + 1 : Paths[leaf][k] = n
           /\ OnPath(0, leaf)
<1>1. \A k \in 1 .. TreeHeight + 1 : Paths[leaf][k] = PathNode(leaf, TreeHeight + 1 - k)
  BY PathsFacts
<1>2. ASSUME NEW i \in Levels
      PROVE  TreeHeight + 1 - i \in 1 .. TreeHeight + 1 /\ TreeHeight + 1 - (TreeHeight + 1 - i) = i
  BY Constants DEF Levels
<1>3. ASSUME OnPath(n, leaf)
      PROVE  \E k \in 1 .. TreeHeight + 1 : Paths[leaf][k] = n
  <2>1. PICK i \in Levels : n = PathNode(leaf, i)
    BY <1>3 DEF OnPath
  <2> DEFINE k == TreeHeight + 1 - i
  <2>2. k \in 1 .. TreeHeight + 1 /\ TreeHeight + 1 - k = i
    BY <1>2
  <2> HIDE DEF k
  <2>3. Paths[leaf][k] = n
    BY <1>1, <2>1, <2>2
  <2> QED  BY <2>2, <2>3
<1>4. OnPath(0, leaf)
  <2>1. TreeHeight \in Levels
    BY Constants DEF Levels
  <2>2. PathNode(leaf, TreeHeight) = 0
    BY <2>1, PathReachesRoot
  <2> QED  BY <2>1, <2>2 DEF OnPath
<1> QED  BY <1>3, <1>4

LEMMA SelectTruth ==
    ASSUME Shape, Sound => Truth, UNCHANGED <<serverVars, oracle>>, SelectSlots, Sound'
    PROVE  Truth'
<1> DEFINE m == [cmd |-> "A", leaf |-> oldLeaf, selections |-> Selections]
           a == call.addr
<1>1. cpc = "select" /\ UNCHANGED <<posMap, idMap, accessCount, evictions, conn, resp>>
  BY DEF SelectSlots
<1>2. \A k \in DOMAIN Selections : Selections[k] # NoSlot
  BY DEF SelectSlots, Throws, Sound
<1>3. /\ picks' = Selections /\ SendRequest(m) /\ cpc' = "sum"
      /\ UNCHANGED <<call, oldLeaf, pathSum, result, todo, fetched, contents, cursor, failed>>
  BY <1>2 DEF SelectSlots
<1>4. req' = m /\ Truth
  <2>1. resp' = NoMsg
    BY <1>1, QuietFacts DEF Waiting
  <2> HIDE DEF m
  <2> QED  BY <1>1, <1>3, <2>1, SendSound DEF Waiting
<1>5. /\ Selections \in [1 .. TreeHeight + 1 -> Slots] /\ idMap \in [Nodes -> Ids] /\ oldLeaf \in Leaves
      /\ a \in Addr /\ a # NoBlock
  BY <1>1, <1>2, SelectionsType, CallFacts, Constants DEF Shape, TypeOK, CallShape
<1>6. \A k \in 1 .. TreeHeight + 1 :
         /\ Paths[oldLeaf][k] \in Nodes
         /\ Selections[k] = BlockOrDummySlot(idMap, Paths[oldLeaf][k], a)
  BY <1>5, PathsFacts DEF Selections
<1>7. PicksHold'
  <2>1. ASSUME NEW k \in 1 .. TreeHeight + 1
        PROVE  /\ idMap[Paths[oldLeaf][k]][Selections[k]] \in {NoBlock, a}
               /\ (\E s \in Slots : idMap[Paths[oldLeaf][k]][s] = a)
                     => idMap[Paths[oldLeaf][k]][Selections[k]] = a
    <3> DEFINE n == Paths[oldLeaf][k]
    <3>1. n \in Nodes /\ Selections[k] = BlockOrDummySlot(idMap, n, a) /\ Selections[k] # NoSlot
      BY <1>2, <1>5, <1>6
    <3> HIDE DEF n
    <3>2. /\ Selections[k] # NoSlot => Selections[k] \in Slots /\ idMap[n][Selections[k]] \in {a, NoBlock}
          /\ (\E s \in Slots : idMap[n][s] = a) => idMap[n][Selections[k]] = a
      BY <1>5, <3>1, BlockOrDummyFacts
    <3> QED  BY <3>1, <3>2 DEF n
  <2>2. ASSUME NEW n \in Nodes, NEW s \in Slots, idMap[n][s] = a
        PROVE  \E k \in 1 .. TreeHeight + 1 : Paths[oldLeaf][k] = n /\ Selections[k] = s
    <3>1. OnPath(n, oldLeaf)
      BY <1>1, <1>4, <1>5, <2>2 DEF Truth, MapHolds, LeafOf
    <3>2. PICK k \in 1 .. TreeHeight + 1 : Paths[oldLeaf][k] = n
      BY <1>5, <3>1, OnPathIndex
    <3>3. idMap[n][Selections[k]] = a /\ Selections[k] \in Slots
      BY <1>5, <2>1, <2>2, <3>2
    <3>4. Selections[k] = s
      BY <1>4, <1>5, <2>2, <3>3 DEF Truth, MapHolds
    <3> QED  BY <3>2, <3>4
  <2>3. \A n \in Nodes, s \in Slots : PathPick(n, s)' <=>
           \E k \in 1 .. TreeHeight + 1 : Paths[oldLeaf][k] = n /\ Selections[k] = s
    BY <1>3 DEF PathPick
  <2>4. idMap' = idMap /\ call' = call
    BY <1>1, <1>3
  <2> HIDE DEF a
  <2>5. (\A n \in Nodes, s \in Slots : PathPick(n, s)' => idMap[n][s] \in {NoBlock, a})
        /\ (\A n \in Nodes, s \in Slots : idMap[n][s] = a => PathPick(n, s)')
    BY <2>1, <2>2, <2>3
  <2> QED  BY <2>4, <2>5 DEF PicksHold, a
<1>8. MapHolds(idMap)'
  <2>1. picks = << >> /\ MapHolds(idMap)
    BY <1>1, <1>4 DEF Shape, CallShape, Truth
  <2> QED  BY <1>1, <1>3, <2>1, MapSame
<1>9. (\A b \in Addr : InHand(b) => result = oracle[b])'
  BY <1>3 DEF InHand
<1>10. Mirror'
  <2>1. \A n, s : ~ UnderWay(n, s)
    BY <1>1 DEF UnderWay
  <2> QED  BY <1>1, <1>4, <2>1 DEF Truth, Mirror, Value, serverVars
<1>11. SumState'
  BY <1>3, <1>4 DEF SumState
<1>12. ClearState' /\ RootState' /\ FetchState' /\ WriteState'
  BY <1>3 DEF ClearState, RootState, FetchState, WriteState
<1> QED  BY <1>7, <1>8, <1>9, <1>10, <1>11, <1>12 DEF Truth

LEMMA TakeSumTruth ==
    ASSUME Shape, Sound => Truth, UNCHANGED <<serverVars, oracle>>, TakeSum, Sound'
    PROVE  Truth'
<1> DEFINE m == [cmd |-> "C", leaf |-> oldLeaf, selections |-> picks]
<1>1. /\ cpc = "sum" /\ resp.cmd = "sum" /\ resp # NoMsg /\ resp' = NoMsg /\ pathSum' = resp.sum
      /\ SendRequest(m) /\ cpc' = "clear"
      /\ UNCHANGED <<posMap, idMap, accessCount, evictions, call, oldLeaf, picks, result, todo,
                     fetched, contents, cursor, failed, conn>>
  BY NoMsgFacts DEF TakeSum
<1>2. req' = m /\ Truth
  <2> HIDE DEF m
  <2> QED  BY <1>1, SendSound
<1>3. pathSum' = oracle[call.addr]
  <2>1. req = NoMsg
    BY <1>1, RepliedFacts
  <2>2. resp = [cmd |-> "sum", sum |-> oracle[call.addr]]
    BY <1>1, <1>2, <2>1, NoMsgFacts DEF Truth, SumState
  <2> QED  BY <1>1, <2>2
<1>4. ClearState'
  <2>1. req' # NoMsg /\ req'.cmd = "C" /\ req'.leaf = oldLeaf /\ req'.selections = picks
    BY <1>2, NoMsgFacts
  <2>2. Len(picks) = TreeHeight + 1 /\ TreeHeight + 1 \in Nat
    <3>1. picks \in [1 .. TreeHeight + 1 -> Slots] /\ picks \in Seq(Slots)
      BY <1>1 DEF Shape, TypeOK, CallShape
    <3> QED  BY <3>1, Constants
  <2>3. TreeHeight + 1 - Len(req'.selections) = 0
    BY <2>1, <2>2, Constants
  <2>4. \A i \in 1 .. Len(req'.selections) : 0 + i = i
    BY <2>1, <2>2
  <2>5. \A i \in 1 .. Len(req'.selections) :
           req'.selections[i] = picks'[TreeHeight + 1 - Len(req'.selections) + i]
    BY <1>1, <2>1, <2>3, <2>4
  <2>6. (ClearedUpTo(TreeHeight + 1 - Len(req.selections)))'
    BY <2>3 DEF ClearedUpTo
  <2> QED  BY <1>1, <1>3, <2>1, <2>5, <2>6 DEF ClearState
<1>5. MapHolds(idMap)'
  BY <1>1, <1>2, MapSame DEF Truth
<1>6. PicksHold' /\ (\A a \in Addr : InHand(a) => result = oracle[a])'
  BY <1>1, <1>2 DEF Truth, PicksHold, PathPick, InHand
<1>7. Mirror'
  <2>1. \A n, s : ~ UnderWay(n, s)
    BY <1>1 DEF UnderWay
  <2> QED  BY <1>1, <1>2, <2>1 DEF Truth, Mirror, Value, serverVars
<1>8. SumState' /\ RootState' /\ FetchState' /\ WriteState'
  BY <1>1 DEF SumState, RootState, FetchState, WriteState
<1> QED  BY <1>4, <1>5, <1>6, <1>7, <1>8 DEF Truth

LEMMA PathClearedTruth ==
    ASSUME Shape, Sound => Truth, UNCHANGED serverVars, PathCleared, Sound',
           oracle' = IF call.op = "WRITE" THEN [oracle EXCEPT ![call.addr] = call.data] ELSE oracle
    PROVE  Truth'
<1> DEFINE a == call.addr
<1>1. /\ cpc = "clear" /\ resp.cmd = "K" /\ resp # NoMsg /\ resp' = NoMsg /\ idMap' = IdsWithoutPicks
      /\ result' = IF call.op = "WRITE" THEN call.data ELSE pathSum
      /\ oldLeaf' = 0 /\ pathSum' = Zero /\ cpc' = "place"
      /\ UNCHANGED <<posMap, accessCount, evictions, call, picks, todo, fetched, contents, cursor,
                     failed, conn, req>>
  BY NoMsgFacts DEF PathCleared, ExpectAck
<1>2. Truth
  BY <1>1, RestSound
<1>3. /\ a \in Addr /\ a # NoBlock /\ call.data \in Data /\ oracle \in [Addr -> Data]
      /\ idMap \in [Nodes -> Ids] /\ tree' = tree
      /\ picks \in [1 .. TreeHeight + 1 -> Slots]
  BY <1>1, CallFacts, Constants DEF Shape, TypeOK, CallShape, serverVars
<1>4. pathSum = oracle[a] /\ ClearedUpTo(TreeHeight + 1)
  <2>1. req = NoMsg
    BY <1>1, RepliedFacts
  <2> QED  BY <1>1, <1>2, <2>1 DEF Truth, ClearState
<1>5. result' = oracle'[a] /\ \A b \in Addr : b # a => oracle'[b] = oracle[b]
  BY <1>1, <1>3, <1>4
<1>6. \A n \in Nodes, s \in Slots : idMap'[n][s] = IF PathPick(n, s) THEN NoBlock ELSE idMap[n][s]
  <2>1. DOMAIN picks = 1 .. TreeHeight + 1
    BY <1>3
  <2> QED  BY <1>1, <2>1 DEF IdsWithoutPicks, PathPick
<1>7. \A n \in Nodes, s \in Slots : idMap[n][s] \in Addr \cup {NoBlock}
  BY <1>3 DEF Ids
<1>8. \A n \in Nodes, s \in Slots : /\ PathPick(n, s) => idMap[n][s] \in {NoBlock, a}
                                    /\ idMap[n][s] = a => PathPick(n, s)
  BY <1>1, <1>2 DEF Truth, PicksHold
<1>9. \A n \in Nodes, s \in Slots : idMap'[n][s] # a
  BY <1>3, <1>6, <1>8
<1>10. \A b : InHand(b)' <=> b = a
  <2>1. picks # << >>
    <3>1. 1 \in DOMAIN picks
      BY <1>3, Constants
    <3> QED  BY <3>1
  <2> QED  BY <1>1, <2>1 DEF InHand
<1>11. \A b : ~ InHand(b)
  BY <1>1 DEF InHand
<1>12. MapHolds(idMap)'
  <2>1. \A n, m \in Nodes, s, t \in Slots :
           idMap'[n][s] = idMap'[m][t] /\ idMap'[n][s] # NoBlock => n = m /\ s = t
    BY <1>2, <1>6 DEF Truth, MapHolds
  <2>2. ASSUME NEW n \in Nodes, NEW s \in Slots, idMap'[n][s] # NoBlock
        PROVE  OnPath(n, LeafOf(idMap[n][s])')
    <3> DEFINE b == idMap[n][s]
    <3>1. idMap'[n][s] = b /\ b # a /\ b # NoBlock
      BY <1>6, <1>9, <2>2
    <3>2. OnPath(n, LeafOf(b))
      BY <1>2, <3>1 DEF Truth, MapHolds
    <3>3. LeafOf(b) = posMap[b]
      BY <3>1 DEF LeafOf
    <3>4. LeafOf(idMap[n][s])' = posMap[idMap'[n][s]]
      BY <1>1 DEF LeafOf
    <3> QED  BY <3>1, <3>2, <3>3, <3>4
  <2>3. ASSUME NEW b \in Addr, \A n \in Nodes, s \in Slots : idMap'[n][s] # b
        PROVE  oracle'[b] = Zero \/ InHand(b)'
    <3> SUFFICES ASSUME b # a PROVE oracle'[b] = Zero
      BY <1>10
    <3>1. \A n \in Nodes, s \in Slots : idMap[n][s] # b
      BY <1>6, <1>8, <2>3, Constants
    <3> QED  BY <1>2, <1>5, <1>11, <3>1 DEF Truth, MapHolds
  <2>4. \A b \in Addr : InHand(b)' => \A n \in Nodes, s \in Slots : idMap'[n][s] # b
    BY <1>9, <1>10
  <2> HIDE DEF a
  <2> QED  BY <2>1, <2>2, <2>3, <2>4 DEF MapHolds
<1>13. (\A b \in Addr : InHand(b) => result = oracle[b])'
  BY <1>5, <1>10
<1>14. Mirror'
  <2> SUFFICES ASSUME NEW n \in Nodes, NEW s \in Slots
               PROVE  tree'[n][s] = (IF idMap'[n][s] = NoBlock THEN Zero ELSE oracle'[idMap'[n][s]])
    BY DEF Mirror, Value
  <2>1. CASE PathPick(n, s)
    <3>1. PICK k \in 1 .. TreeHeight + 1 : Paths[oldLeaf][k] = n /\ picks[k] = s
      BY <2>1 DEF PathPick
    <3>2. tree[n][s] = Zero
      BY <1>4, <3>1 DEF ClearedUpTo
    <3> QED  BY <1>3, <1>6, <2>1, <3>2
  <2>2. CASE ~ PathPick(n, s)
    <3>1. tree[n][s] = Value(idMap[n][s])
      BY <1>1, <1>2, <2>2 DEF Truth, Mirror, UnderWay
    <3>2. idMap'[n][s] = idMap[n][s] /\ idMap[n][s] # a
      BY <1>6, <1>8, <2>2
    <3> QED  BY <1>3, <1>5, <1>7, <3>1, <3>2 DEF Value
  <2> QED  BY <2>1, <2>2
<1>15. PicksHold' /\ SumState' /\ ClearState' /\ RootState' /\ FetchState' /\ WriteState'
  BY <1>1 DEF PicksHold, SumState, ClearState, RootState, FetchState, WriteState
<1> QED  BY <1>12, <1>13, <1>14, <1>15 DEF Truth

\* A turn of Evict's loop begins.
LEMMA FetchBegins ==
    ASSUME fetched' = << >>, req' = [cmd |-> "R", node |-> Head(todo')]
    PROVE  FetchState'
<1>1. Len(fetched') = 0 /\ Len(fetched') + 1 = 1 /\ \A k \in 1 .. Len(fetched') : FALSE
  OBVIOUS
<1>2. Involved'[1] = Head(todo')
  <2>1. Source' = Head(todo')
    BY DEF Source
  <2>2. CASE Len(todo') = 1
    <3>1. Involved' = <<Source'>>
      BY <2>2 DEF Involved
    <3> QED  BY <2>1, <3>1
  <2>3. CASE Len(todo') # 1
    <3>1. Involved' = <<Source', 2 * Source' + 1, 2 * Source' + 2>>
      BY <2>3 DEF Involved
    <3> QED  BY <2>1, <3>1
  <2> QED  BY <2>2, <2>3
<1> QED  BY <1>1, <1>2 DEF FetchState

LEMMA PlaceTruth ==
    ASSUME Shape, Sound => Truth, UNCHANGED <<serverVars, oracle>>, Place, Sound'
    PROVE  Truth'
<1>1. cpc \in {"place", "retry"} /\ UNCHANGED <<posMap, idMap, accessCount, conn, resp>>
  BY DEF Place
<1>2. resp = NoMsg
  BY <1>1, QuietFacts DEF Waiting
<1>3. ~ (RootSlot = NoSlot /\ cpc = "retry")
  BY DEF Place, Throws, Sound
<1>4. UNCHANGED <<call, oldLeaf, picks, pathSum, result, contents, cursor, failed>>
  BY <1>1, <1>3 DEF Place
<1>5. picks # << >> /\ idMap \in [Nodes -> Ids] /\ call.addr \in Addr /\ call.addr # NoBlock
  BY <1>1, CallFacts, Constants DEF Shape, TypeOK, CallShape
<1>6. Truth
  BY <1>1, <1>4, RestSound DEF Waiting
<1>7. cpc' \in {"root", "fetch"}
  BY <1>1, <1>3 DEF Place, Evict
<1>8. MapHolds(idMap)'
  BY <1>1, <1>4, <1>6, <1>7, MapSame DEF Truth
<1>9. (\A a \in Addr : InHand(a) => result = oracle[a])'
  BY <1>1, <1>4, <1>6, <1>7 DEF Truth, InHand
<1>10. Mirror'
  <2>1. \A n, s : ~ UnderWay(n, s)
    BY <1>1 DEF UnderWay
  <2> QED  BY <1>1, <1>6, <2>1 DEF Truth, Mirror, Value, serverVars
<1>11. RootState' /\ FetchState'
  <2>1. CASE RootSlot # NoSlot
    <3> DEFINE m == [cmd |-> "U", node |-> 0, slot |-> RootSlot, data |-> result]
    <3>1. SendRequest(m) /\ cpc' = "root"
      BY <2>1 DEF Place
    <3>2. req' = m
      <4> HIDE DEF m
      <4> QED  BY <1>1, <1>2, <1>4, <3>1, SendSound DEF Waiting
    <3>3. RootSlot' = RootSlot
      BY <1>1, <1>4, RootSlotSame
    <3>4. RootSlot \in Slots /\ idMap[0][RootSlot] \in {call.addr, NoBlock}
      BY <2>1, RootSlotFacts, TypeParts DEF Shape
    <3>5. idMap[0][RootSlot] # call.addr
      <4>1. InHand(call.addr)
        BY <1>1, <1>5 DEF InHand
      <4> QED  BY <1>5, <1>6, <3>4, <4>1, Constants DEF Truth, MapHolds
    <3> QED  BY <1>1, <1>4, <3>1, <3>2, <3>3, <3>4, <3>5 DEF RootState, FetchState
  <2>2. CASE RootSlot = NoSlot
    <3>1. Evict
      BY <1>1, <1>3, <2>2 DEF Place
    <3> DEFINE m == [cmd |-> "R", node |-> 0]
    <3>2. /\ todo' \in Seq(Nodes) /\ fetched' = << >> /\ cpc' = "fetch" /\ SendRequest(m)
          /\ Len(todo') = TreeHeight + 1 /\ todo'[1] = 0
      BY <3>1, EvictFacts, TypeParts DEF Shape
    <3>3. req' = m
      <4> HIDE DEF m
      <4> QED  BY <1>1, <1>2, <1>4, <3>2, SendSound DEF Waiting
    <3>4. Head(todo') = 0
      BY <3>2
    <3> QED  BY <3>2, <3>3, <3>4, FetchBegins DEF RootState
  <2> QED  BY <2>1, <2>2
<1>12. PicksHold' /\ SumState' /\ ClearState' /\ WriteState'
  BY <1>7 DEF PicksHold, SumState, ClearState, WriteState
<1> QED  BY <1>8, <1>9, <1>10, <1>11, <1>12 DEF Truth

LEMMA RootWrittenTruth ==
    ASSUME Shape, Sound => Truth, UNCHANGED <<serverVars, oracle>>, RootWritten, Sound'
    PROVE  Truth'
<1> DEFINE a == call.addr
           r == RootSlot
<1>1. /\ cpc = "root" /\ resp.cmd = "K" /\ resp # NoMsg /\ resp' = NoMsg
      /\ idMap' = [idMap EXCEPT ![0][r] = a]
      /\ accessCount' = (accessCount + 1) % SizeTModulus /\ picks' = << >>
      /\ UNCHANGED <<posMap, call, oldLeaf, pathSum, result, contents, cursor, failed, conn>>
      /\ cpc' \in {"fetch", "return"}
  BY NoMsgFacts DEF RootWritten, ExpectAck, Evict
<1>2. Truth /\ req = NoMsg
  BY <1>1, RestSound, RepliedFacts
<1>3. /\ a \in Addr /\ a # NoBlock /\ idMap \in [Nodes -> Ids] /\ picks # << >> /\ tree' = tree
      /\ oracle' = oracle /\ posMap \in [Addr -> Leaves]
  BY <1>1, CallFacts, Constants DEF Shape, TypeOK, CallShape, serverVars
<1>4. r \in Slots /\ idMap[0][r] = NoBlock /\ tree[0][r] = result
  BY <1>1, <1>2, NoMsgFacts DEF Truth, RootState
<1>5. InHand(a) /\ (\A b : b # a => ~ InHand(b)) /\ \A b : ~ InHand(b)'
  BY <1>1, <1>3 DEF InHand
<1>6. result = oracle[a] /\ \A n \in Nodes, s \in Slots : idMap[n][s] # a
  BY <1>2, <1>3, <1>5 DEF Truth, MapHolds
<1>7. \A n \in Nodes, s \in Slots : idMap'[n][s] = IF n = 0 /\ s = r THEN a ELSE idMap[n][s]
  <2>1. idMap' = [idMap EXCEPT ![0] = [idMap[0] EXCEPT ![r] = a]]
    BY <1>1
  <2> HIDE DEF a, r
  <2> QED  BY <1>3, <1>4, <2>1, Constants DEF Ids
<1> HIDE DEF a, r
<1>8. \A b : LeafOf(b) = posMap[b]
  BY <1>1 DEF LeafOf
<1>9. MapHolds(idMap)'
  <2>1. \A n, m \in Nodes, s, t \in Slots :
           idMap'[n][s] = idMap'[m][t] /\ idMap'[n][s] # NoBlock => n = m /\ s = t
    BY <1>2, <1>6, <1>7 DEF Truth, MapHolds
  <2>2. ASSUME NEW n \in Nodes, NEW s \in Slots, idMap'[n][s] # NoBlock
        PROVE  OnPath(n, LeafOf(idMap[n][s])')
    <3>1. LeafOf(idMap[n][s])' = posMap[idMap'[n][s]]
      BY <1>1 DEF LeafOf
    <3>2. CASE n = 0 /\ s = r
      BY <1>3, <1>7, <3>1, <3>2, OnPathIndex
    <3>3. CASE ~ (n = 0 /\ s = r)
      <4>1. idMap'[n][s] = idMap[n][s]
        BY <1>7, <3>3
      <4>2. OnPath(n, LeafOf(idMap[n][s]))
        BY <1>2, <2>2, <4>1 DEF Truth, MapHolds
      <4> QED  BY <1>8, <3>1, <4>1, <4>2
    <3> QED  BY <3>2, <3>3
  <2>3. ASSUME NEW b \in Addr, \A n \in Nodes, s \in Slots : idMap'[n][s] # b
        PROVE  oracle[b] = Zero
    <3>1. b # a
      BY <1>4, <1>7, <2>3, Constants
    <3>2. \A n \in Nodes, s \in Slots : idMap[n][s] # b
      <4> SUFFICES ASSUME NEW n \in Nodes, NEW s \in Slots, idMap[n][s] = b PROVE FALSE
        OBVIOUS
      <4>1. b # NoBlock
        BY Constants
      <4>2. ~ (n = 0 /\ s = r)
        BY <1>4, <4>1
      <4> QED  BY <1>7, <2>3, <4>2
    <3> QED  BY <1>2, <1>5, <3>1, <3>2 DEF Truth, MapHolds
  <2> QED  BY <1>3, <1>5, <2>1, <2>2, <2>3 DEF MapHolds
<1>10. Mirror'
  <2> SUFFICES ASSUME NEW n \in Nodes, NEW s \in Slots
               PROVE  tree[n][s] = (IF idMap'[n][s] = NoBlock THEN Zero ELSE oracle[idMap'[n][s]])
    BY <1>3 DEF Mirror, Value
  <2>1. CASE n = 0 /\ s = r
    BY <1>3, <1>4, <1>6, <1>7, <2>1
  <2>2. CASE ~ (n = 0 /\ s = r)
    <3>1. tree[n][s] = Value(idMap[n][s])
      BY <1>1, <1>2, <2>2 DEF Truth, Mirror, UnderWay, r
    <3> QED  BY <1>7, <2>2, <3>1 DEF Value
  <2> QED  BY <2>1, <2>2
<1>11. FetchState'
  <2>1. CASE EvictionDue
    <3>1. Evict
      BY <2>1 DEF RootWritten
    <3> DEFINE m == [cmd |-> "R", node |-> 0]
    <3>2. /\ todo' \in Seq(Nodes) /\ fetched' = << >> /\ cpc' = "fetch" /\ SendRequest(m)
          /\ Len(todo') = TreeHeight + 1 /\ todo'[1] = 0
      BY <3>1, EvictFacts, TypeParts DEF Shape
    <3>3. req' = m
      <4> HIDE DEF m
      <4> QED  BY <1>1, <3>2, SendSound
    <3>4. Head(todo') = 0
      BY <3>2
    <3> QED  BY <3>2, <3>3, <3>4, FetchBegins
  <2>2. CASE ~ EvictionDue
    BY <2>2 DEF RootWritten, FetchState
  <2> QED  BY <2>1, <2>2
<1>12. PicksHold' /\ SumState' /\ ClearState' /\ RootState' /\ WriteState'
  BY <1>1 DEF PicksHold, SumState, ClearState, RootState, WriteState
<1> QED  BY <1>5, <1>9, <1>10, <1>11, <1>12 DEF Truth

LEMMA ReturnTruth ==
    ASSUME Shape, Sound => Truth, UNCHANGED <<serverVars, oracle>>, Return, Sound'
    PROVE  Truth'
<1>1. /\ cpc = "return" /\ cpc' = "idle" /\ picks' = << >>
      /\ UNCHANGED <<posMap, idMap, failed, req, resp>>
  BY DEF Return, EndOfCall
<1>2. Truth /\ picks = << >>
  BY <1>1, RestSound DEF Waiting, Shape, CallShape
<1>3. \A b : ~ InHand(b) /\ ~ InHand(b)'
  BY <1>1, <1>2 DEF InHand
<1>4. MapHolds(idMap)'
  <2>1. \A n \in Nodes, s \in Slots : LeafOf(idMap[n][s])' = LeafOf(idMap[n][s])
    BY <1>1 DEF LeafOf
  <2> QED  BY <1>1, <1>2, <1>3, <2>1 DEF Truth, MapHolds
<1>5. Mirror'
  <2>1. \A n, s : ~ UnderWay(n, s)
    BY <1>1 DEF UnderWay
  <2> QED  BY <1>1, <1>2, <2>1 DEF Truth, Mirror, Value, serverVars
<1>6. PicksHold' /\ SumState' /\ ClearState' /\ RootState' /\ FetchState' /\ WriteState'
  BY <1>1 DEF PicksHold, SumState, ClearState, RootState, FetchState, WriteState
<1> QED  BY <1>3, <1>4, <1>5, <1>6 DEF Truth

LEMMA SlotWrittenTruth ==
    ASSUME Shape, Sound => Truth, UNCHANGED <<serverVars, oracle>>, SlotWritten, Sound'
    PROVE  Truth'
<1> DEFINE c == cursor[1]
           e == cursor[2]
           N == Len(contents)
<1>1. /\ cpc = "write" /\ resp.cmd = "K" /\ resp # NoMsg /\ resp' = NoMsg
      /\ UNCHANGED <<posMap, accessCount, evictions, call, oldLeaf, picks, pathSum, result, fetched,
                     failed, conn>>
  BY NoMsgFacts DEF SlotWritten, ExpectAck
<1>2. Truth /\ req = NoMsg
  BY <1>1, RestSound, RepliedFacts
<1>3. tree' = tree /\ oracle' = oracle /\ idMap \in [Nodes -> Ids] /\ fetched' = << >>
  BY <1>1 DEF Shape, TypeOK, CallShape, serverVars
<1>4. /\ MapHolds(InstallIds)
      /\ \A k \in 1 .. N, s \in Slots : contents[k][s].data = Value(contents[k][s].id)
      /\ \A k \in 1 .. N, s \in Slots : BeforeCursor(k, s) => WrittenAt(k, s)
      /\ WrittenAt(c, e)
  <2>1. NoMsg.cmd = "none" /\ WriteOf(contents, c, e).cmd = "U"
    BY NoMsgFacts DEF WriteOf
  <2> QED  BY <1>1, <1>2, <2>1 DEF Truth, WriteState
<1>5. /\ cursor = <<c, e>> /\ c \in 1 .. N /\ e \in Slots /\ N \in Nat /\ N = Len(WriteOrder)
      /\ BucketSlots \in Nat
  BY <1>1, NextSlotFacts, InstallFacts, Constants
<1>6. CASE cursor # <<N, BucketSlots>>
  <2> DEFINE p == NextSlot[1]
             q == NextSlot[2]
             m == WriteOf(contents, p, q)
  <2>1. cursor' = NextSlot /\ SendRequest(m) /\ UNCHANGED <<idMap, cpc, todo, contents>>
    BY <1>6 DEF SlotWritten
  <2>2. req' = m
    <3> HIDE DEF m
    <3> QED  BY <1>1, <2>1, SendSound
  <2>3. \/ e < BucketSlots /\ p = c /\ q = e + 1
        \/ e = BucketSlots /\ p = c + 1 /\ q = 1
    BY <1>1, <1>6, NextSlotFacts
  <2> HIDE DEF c, e, N, p, q
  <2>4. ASSUME NEW k \in 1 .. N, NEW s \in Slots, k < p \/ (k = p /\ s < q)
        PROVE  WrittenAt(k, s)
    <3>1. (k < c \/ (k = c /\ s < e)) \/ (k = c /\ s = e)
      BY <1>5, <2>3, <2>4 DEF Slots
    <3> QED  BY <1>4, <3>1 DEF BeforeCursor, c, e, N
  <2>5. WriteOrder' = WriteOrder /\ InstallIds' = InstallIds
    BY <2>1 DEF WriteOrder, Source, InstallIds
  <2>6. MapHolds(idMap)'
    BY <1>1, <1>2, <1>3, <2>1, MapSame DEF Truth
  <2>7. (MapHolds(InstallIds))'
    BY <1>1, <1>3, <1>4, <2>1, <2>5 DEF MapHolds, LeafOf, InHand
  <2>8. WriteState'
    <3>1. (\A k \in 1 .. Len(contents), s \in Slots : contents[k][s].data = Value(contents[k][s].id))'
      BY <1>3, <1>4, <2>1 DEF Value, N
    <3>2. (\A k \in 1 .. Len(contents), s \in Slots : BeforeCursor(k, s) => WrittenAt(k, s))'
      BY <1>3, <2>1, <2>4, <2>5 DEF BeforeCursor, WrittenAt, N, p, q
    <3>3. req' = WriteOf(contents, cursor[1], cursor[2])'
      BY <2>1, <2>2, <2>5 DEF WriteOf, p, q
    <3> QED  BY <2>7, <3>1, <3>2, <3>3 DEF WriteState
  <2>9. Mirror'
    <3>1. \A n, s : UnderWay(n, s)' = UnderWay(n, s)
      BY <1>1, <2>1, <2>5 DEF UnderWay
    <3> QED  BY <1>2, <1>3, <2>1, <3>1 DEF Truth, Mirror, Value
  <2>10. (\A a \in Addr : InHand(a) => result = oracle[a])'
    BY <1>1, <1>2, <1>3, <2>1 DEF Truth, InHand
  <2>11. PicksHold' /\ SumState' /\ ClearState' /\ RootState' /\ FetchState'
    BY <1>1, <2>1 DEF PicksHold, SumState, ClearState, RootState, FetchState
  <2> QED  BY <2>6, <2>8, <2>9, <2>10, <2>11 DEF Truth
<1>7. CASE cursor = <<N, BucketSlots>>
  <2>1. /\ idMap' = InstallIds /\ contents' = << >> /\ cursor' = Start /\ todo' = Tail(todo)
        /\ IF todo' # << >>
           THEN cpc' = "fetch" /\ SendRequest([cmd |-> "R", node |-> Head(todo')])
           ELSE cpc' = (IF picks = << >> THEN "return" ELSE "retry") /\ UNCHANGED req
    BY <1>7 DEF SlotWritten
  <2>2. cpc' \in {"fetch", "return", "retry"}
    BY <2>1
  <2>3. MapHolds(idMap)'
    <3>1. \A b : LeafOf(b) = posMap[b]
      BY <1>1 DEF LeafOf
    <3>2. \A n \in Nodes, s \in Slots : LeafOf(idMap[n][s])' = posMap[InstallIds[n][s]]
      BY <1>1, <2>1, <2>2 DEF LeafOf
    <3>3. \A b \in Addr : InHand(b)' = InHand(b)
      BY <1>1, <2>2 DEF InHand
    <3> QED  BY <1>3, <1>4, <2>1, <3>1, <3>2, <3>3 DEF MapHolds
  <2>4. Mirror'
    <3> SUFFICES ASSUME NEW n \in Nodes, NEW s \in Slots
                 PROVE  tree[n][s] = Value(InstallIds[n][s])
      BY <1>3, <2>1 DEF Mirror, Value
    <3>1. CASE \E k \in 1 .. N : WriteOrder[k] = n
      <4>1. PICK k \in 1 .. N : WriteOrder[k] = n
        BY <3>1
      <4>2. WrittenAt(k, s)
        <5>1. c = N /\ e = BucketSlots
          BY <1>7
        <5> HIDE DEF c, e, N
        <5>2. (k < c \/ (k = c /\ s < e)) \/ (k = c /\ s = e)
          BY <1>5, <5>1 DEF Slots
        <5> QED  BY <1>4, <5>2 DEF BeforeCursor, c, e, N
      <4>3. InstallIds[n][s] = contents[k][s].id
        BY <1>1, <4>1, InstallFacts
      <4> QED  BY <1>4, <4>1, <4>2, <4>3 DEF WrittenAt
    <3>2. CASE \A k \in 1 .. N : WriteOrder[k] # n
      <4>1. InstallIds[n] = idMap[n]
        BY <1>1, <3>2, InstallFacts
      <4>2. ~ UnderWay(n, s)
        BY <1>1, <1>5, <3>2 DEF UnderWay
      <4> QED  BY <1>2, <4>1, <4>2 DEF Truth, Mirror
    <3> QED  BY <3>1, <3>2
  <2>5. FetchState'
    <3>1. CASE todo' # << >>
      <4> DEFINE m == [cmd |-> "R", node |-> Head(todo')]
      <4>1. cpc' = "fetch" /\ SendRequest(m)
        BY <2>1, <3>1
      <4>2. req' = m
        <5> HIDE DEF m
        <5> QED  BY <1>1, <4>1, SendSound
      <4> QED  BY <1>3, <4>2, FetchBegins
    <3>2. CASE todo' = << >>
      BY <2>1, <3>2 DEF FetchState
    <3> QED  BY <3>1, <3>2
  <2>6. (\A a \in Addr : InHand(a) => result = oracle[a])'
    BY <1>1, <1>2, <1>3, <2>2 DEF Truth, InHand
  <2>7. PicksHold' /\ SumState' /\ ClearState' /\ RootState' /\ WriteState'
    BY <2>2 DEF PicksHold, SumState, ClearState, RootState, WriteState
  <2> QED  BY <2>3, <2>4, <2>5, <2>6, <2>7 DEF Truth
<1> QED  BY <1>6, <1>7

-----------------------------------------------------------------------------
\* The buckets that are read in a turn of Evict's loop are those that are written.
LEMMA TurnFacts ==
    ASSUME Shape, cpc \in {"fetch", "write"}
    PROVE  /\ \A j, k \in 1 .. Len(Involved) : Involved[j] = Involved[k] => j = k
           /\ \A j \in 1 .. Len(Involved) : \E k \in 1 .. Len(WriteOrder) : WriteOrder[k] = Involved[j]
           /\ \A k \in 1 .. Len(WriteOrder) : \E j \in 1 .. Len(Involved) : Involved[j] = WriteOrder[k]
<1>1. Source \in Nat
  BY LoopFacts DEF Shape, Nodes
<1>2. CASE Len(todo) = 1
  <2>1. Involved = <<Source>> /\ WriteOrder = <<Source>>
    BY <1>2 DEF Involved, WriteOrder
  <2>2. Len(Involved) = 1 /\ Len(WriteOrder) = 1 /\ Involved[1] = Source /\ WriteOrder[1] = Source
    BY <2>1
  <2>3. \A k \in 1 .. 1 : k = 1
    OBVIOUS
  <2>4. 1 \in 1 .. 1
    OBVIOUS
  <2> QED  BY <2>2, <2>3, <2>4
<1>3. CASE Len(todo) # 1
  <2>1. /\ Involved = <<Source, 2 * Source + 1, 2 * Source + 2>>
        /\ WriteOrder = <<2 * Source + 1, 2 * Source + 2, Source>>
    BY <1>3 DEF Involved, WriteOrder
  <2>2. /\ Len(Involved) = 3 /\ Len(WriteOrder) = 3
        /\ Involved[1] = Source /\ Involved[2] = 2 * Source + 1 /\ Involved[3] = 2 * Source + 2
        /\ WriteOrder[1] = 2 * Source + 1 /\ WriteOrder[2] = 2 * Source + 2 /\ WriteOrder[3] = Source
    BY <2>1
  <2>3. 1 .. 3 = {1, 2, 3}
    OBVIOUS
  <2>4. \A j, k \in {1, 2, 3} : Involved[j] = Involved[k] => j = k
    BY <1>1, <2>2
  <2> QED  BY <2>2, <2>3, <2>4
<1> QED  BY <1>2, <1>3

\* A block leaves the source for the child on the path to its position.
LEMMA GoesToChild ==
    ASSUME Shape, cpc = "fetch", Len(todo) # 1, NEW id \in Addr, OnPath(Source, posMap[id])
    PROVE  /\ GoesRight(id) => OnPath(2 * Source + 2, posMap[id])
           /\ ~ GoesRight(id) => OnPath(2 * Source + 1, posMap[id])
<1> DEFINE i == Len(todo) - 1
           b == posMap[id]
<1>1. PICK leaf \in Leaves : \A j \in 1 .. Len(todo) : todo[j] = PathNode(leaf, Len(todo) - j)
  BY DEF Shape, LoopShape
<1>2. Len(todo) \in 1 .. TreeHeight + 1 /\ Source = todo[1] /\ b \in Leaves
  BY DEF Shape, TypeOK, LoopShape, Source
<1>3. i \in Levels /\ i >= 1 /\ 1 \in 1 .. Len(todo)
  <2>1. \A h, n \in Nat : n >= 1 /\ n <= h + 1 /\ n # 1 => n - 1 \in 0 .. h /\ n - 1 >= 1 /\ 1 \in 1 .. n
    OBVIOUS
  <2>2. Len(todo) \in Nat /\ Len(todo) >= 1 /\ Len(todo) <= TreeHeight + 1
    BY <1>2, Constants
  <2> QED  BY <2>1, <2>2, Constants DEF Levels
<1>4. Source = PathNode(leaf, i)
  BY <1>1, <1>2, <1>3
<1> HIDE DEF i, b
<1>5. Source = PathNode(b, i)
  BY <1>2, <1>3, <1>4, CanPlaceIffShared DEF b
<1>6. GetNodeLevel(Source) = TreeHeight - i
  BY <1>2, <1>3, <1>5, NodeLevelOfPathNode
<1>7. TreeHeight - GetNodeLevel(Source) - 1 = i - 1
  BY <1>3, <1>6, Constants DEF Levels
<1>8. GoesRight(id) <=> ShiftRight(b, i - 1) % 2 = 1
  BY <1>7 DEF GoesRight, b
<1>9. i - 1 \in Levels /\ ShiftRight(b, i - 1) % 2 \in {0, 1}
      /\ PathNode(b, i - 1) = 2 * Source + 1 + (ShiftRight(b, i - 1) % 2)
  BY <1>2, <1>3, <1>5, PathNodeChild
<1>10. Source \in Nat
  BY LoopFacts DEF Shape, Nodes
<1> DEFINE bit == ShiftRight(b, i - 1) % 2
<1>11. (bit = 1 => PathNode(b, i - 1) = 2 * Source + 2) /\ (bit = 0 => PathNode(b, i - 1) = 2 * Source + 1)
  <2>1. PathNode(b, i - 1) = 2 * Source + 1 + bit
    BY <1>9
  <2> HIDE DEF bit
  <2> QED  BY <1>10, <2>1
<1>12. OnPath(PathNode(b, i - 1), b)
  BY <1>9 DEF OnPath
<1> QED  BY <1>8, <1>9, <1>11, <1>12 DEF b

\* Every block of the buckets involved goes into one of them, on its path.
LEMMA InputFacts ==
    ASSUME Shape, cpc = "fetch", MapHolds(idMap)
    PROVE  /\ \A j \in 1 .. Len(Involved), t \in Slots : idMap[Involved[j]][t] # NoBlock =>
                 \E k \in 1 .. Len(WriteOrder) : <<j, t>> \in InputOf(k)
           /\ \A p : \A k, l \in 1 .. Len(WriteOrder) : p \in InputOf(k) /\ p \in InputOf(l) => k = l
           /\ \A k \in 1 .. Len(WriteOrder), j \in 1 .. Len(Involved), t \in Slots :
                 <<j, t>> \in InputOf(k) /\ idMap[Involved[j]][t] # NoBlock =>
                    OnPath(WriteOrder[k], posMap[idMap[Involved[j]][t]])
<1>1. \A n \in Nodes, t \in Slots : idMap[n][t] # NoBlock =>
         idMap[n][t] \in Addr /\ OnPath(n, posMap[idMap[n][t]])
  <2>1. \A n \in Nodes, t \in Slots : idMap[n][t] \in Addr \cup {NoBlock}
    BY DEF Shape, TypeOK, Ids
  <2>2. \A id : LeafOf(id) = posMap[id]
    BY DEF LeafOf
  <2> QED  BY <2>1, <2>2 DEF MapHolds
<1>2. \A j \in 1 .. Len(Involved) : Involved[j] \in Nodes
  BY LoopFacts DEF Shape
<1>3. CASE Len(todo) = 1
  <2>1. Involved = <<Source>> /\ WriteOrder = <<Source>>
    BY <1>3 DEF Involved, WriteOrder
  <2>2. Len(Involved) = 1 /\ Len(WriteOrder) = 1 /\ Involved[1] = Source /\ WriteOrder[1] = Source
    BY <2>1
  <2>3. \A k \in 1 .. 1 : k = 1
    OBVIOUS
  <2>4. 1 \in 1 .. 1
    OBVIOUS
  <2>5. \A k : InputOf(k) = {1} \X Slots
    BY <1>3 DEF InputOf
  <2> QED  BY <1>1, <1>2, <2>2, <2>3, <2>4, <2>5
<1>4. CASE Len(todo) # 1
  <2>1. /\ Involved = <<Source, 2 * Source + 1, 2 * Source + 2>>
        /\ WriteOrder = <<2 * Source + 1, 2 * Source + 2, Source>>
    BY <1>4 DEF Involved, WriteOrder
  <2>2. /\ Len(Involved) = 3 /\ Len(WriteOrder) = 3
        /\ Involved[1] = Source /\ Involved[2] = 2 * Source + 1 /\ Involved[3] = 2 * Source + 2
        /\ WriteOrder[1] = 2 * Source + 1 /\ WriteOrder[2] = 2 * Source + 2 /\ WriteOrder[3] = Source
    BY <2>1
  <2>3. 1 .. 3 = {1, 2, 3}
    OBVIOUS
  <2>4. InputOf(1) = LeftInput /\ InputOf(2) = RightInput /\ InputOf(3) = {}
    BY <1>4 DEF InputOf
  <2>5. \A j \in {1, 2, 3}, t \in Slots :
           /\ <<j, t>> \in LeftInput <=> /\ idMap[Involved[j]][t] # NoBlock
                                         /\ j = 2 \/ (j = 1 /\ ~ GoesRight(idMap[Source][t]))
           /\ <<j, t>> \in RightInput <=> /\ idMap[Involved[j]][t] # NoBlock
                                          /\ j = 3 \/ (j = 1 /\ GoesRight(idMap[Source][t]))
    <3> SUFFICES ASSUME NEW j \in {1, 2, 3}, NEW t \in Slots
                 PROVE  /\ <<j, t>> \in LeftInput <=> /\ idMap[Involved[j]][t] # NoBlock
                                                      /\ j = 2 \/ (j = 1 /\ ~ GoesRight(idMap[Source][t]))
                        /\ <<j, t>> \in RightInput <=> /\ idMap[Involved[j]][t] # NoBlock
                                                       /\ j = 3 \/ (j = 1 /\ GoesRight(idMap[Source][t]))
      OBVIOUS
    <3>1. \A k : <<j, t>> \in Occupied(k) <=> j = k /\ idMap[Involved[k]][t] # NoBlock
      BY DEF Occupied
    <3>2. <<j, t>>[2] = t
      OBVIOUS
    <3> QED  BY <3>1, <3>2 DEF LeftInput, RightInput
  <2>6. \A p : ~ (p \in LeftInput /\ p \in RightInput)
    <3> SUFFICES ASSUME NEW p, p \in LeftInput, p \in RightInput PROVE FALSE
      OBVIOUS
    <3>1. \A k : p \in Occupied(k) => p[1] = k
      BY DEF Occupied
    <3> QED  BY <3>1 DEF LeftInput, RightInput
  <2>7. ASSUME NEW j \in {1, 2, 3}, NEW t \in Slots, idMap[Involved[j]][t] # NoBlock
        PROVE  /\ <<j, t>> \in LeftInput => OnPath(2 * Source + 1, posMap[idMap[Involved[j]][t]])
               /\ <<j, t>> \in RightInput => OnPath(2 * Source + 2, posMap[idMap[Involved[j]][t]])
    <3> DEFINE id == idMap[Involved[j]][t]
    <3>1. id \in Addr /\ OnPath(Involved[j], posMap[id])
      BY <1>1, <1>2, <2>2, <2>3, <2>7
    <3>2. CASE j = 1
      <4>1. id = idMap[Source][t] /\ OnPath(Source, posMap[id])
        BY <2>2, <3>1, <3>2
      <4> HIDE DEF id
      <4>2. /\ GoesRight(id) => OnPath(2 * Source + 2, posMap[id])
            /\ ~ GoesRight(id) => OnPath(2 * Source + 1, posMap[id])
        BY <1>4, <3>1, <4>1, GoesToChild
      <4> QED  BY <2>5, <2>7, <3>2, <4>1, <4>2 DEF id
    <3>3. CASE j # 1
      <4>1. j = 2 \/ j = 3
        BY <3>3
      <4> HIDE DEF id
      <4> QED  BY <2>2, <2>5, <3>1, <3>3, <4>1 DEF id
    <3> QED  BY <3>2, <3>3
  <2>8. \A j \in {1, 2, 3}, t \in Slots : idMap[Involved[j]][t] # NoBlock =>
           <<j, t>> \in LeftInput \/ <<j, t>> \in RightInput
    BY <2>5
  <2>9. \A j \in 1 .. Len(Involved), t \in Slots : idMap[Involved[j]][t] # NoBlock =>
           \E k \in 1 .. Len(WriteOrder) : <<j, t>> \in InputOf(k)
    BY <2>2, <2>3, <2>4, <2>8
  <2>10. \A p : \A k, l \in 1 .. Len(WriteOrder) : p \in InputOf(k) /\ p \in InputOf(l) => k = l
    BY <2>2, <2>3, <2>4, <2>6
  <2>11. \A k \in 1 .. Len(WriteOrder), j \in 1 .. Len(Involved), t \in Slots :
                 <<j, t>> \in InputOf(k) /\ idMap[Involved[j]][t] # NoBlock =>
                    OnPath(WriteOrder[k], posMap[idMap[Involved[j]][t]])
    <3> SUFFICES ASSUME NEW k \in 1 .. Len(WriteOrder), NEW j \in 1 .. Len(Involved), NEW t \in Slots,
                        <<j, t>> \in InputOf(k), idMap[Involved[j]][t] # NoBlock
                 PROVE  OnPath(WriteOrder[k], posMap[idMap[Involved[j]][t]])
      OBVIOUS
    <3>1. k \in {1, 2, 3} /\ j \in {1, 2, 3}
      BY <2>2, <2>3
    <3>2. k = 1 \/ k = 2
      BY <2>4, <3>1
    <3> QED  BY <2>2, <2>4, <2>7, <3>1, <3>2
  <2> QED  BY <2>9, <2>10, <2>11
<1> QED  BY <1>3, <1>4

\* The blocks of the buckets involved find their new slots, one each.
LEMMA MovedBlocks ==
    ASSUME Shape, Truth, cpc = "fetch", Received \in Seq(Contents), Len(Received) = Len(Involved),
           \A j \in 1 .. Len(Involved) : Received[j] = tree[Involved[j]],
           NEW new \in NewContents, NEW f,
           \A k \in 1 .. Len(WriteOrder), s \in Slots : f[WriteOrder[k]][s] = new[k][s].id,
           \A n \in Nodes : (\A k \in 1 .. Len(WriteOrder) : WriteOrder[k] # n) => f[n] = idMap[n]
    PROVE  /\ MapHolds(f)
           /\ \A k \in 1 .. Len(WriteOrder), s \in Slots : new[k][s].data = Value(new[k][s].id)
<1> DEFINE N == Len(WriteOrder)
           Fit(k, from) == from \in Shuffled(InputOf(k)) /\ new[k] = Moved(from)
           F == [k \in 1 .. N |-> CHOOSE from : Fit(k, from)]
<1>1. ASSUME NEW k \in 1 .. N
      PROVE  F[k] \in Shuffled(InputOf(k)) /\ new[k] = Moved(F[k])
  <2>1. \E from : Fit(k, from)
    BY NewContentsForm
  <2>2. Fit(k, CHOOSE from : Fit(k, from))
    BY <2>1, Zenon
  <2>3. F[k] = CHOOSE from : Fit(k, from)
    OBVIOUS
  <2> QED  BY <2>2, <2>3
<1> HIDE DEF F, Fit
<1>2. Len(Involved) = N
  BY LoopFacts DEF Shape
<1> DEFINE J(k, s) == F[k][s][1]
           T(k, s) == F[k][s][2]
           Old(j, t) == idMap[Involved[j]][t]
<1>3. ASSUME NEW k \in 1 .. N, NEW s \in Slots
      PROVE  \/ new[k][s] = [id |-> NoBlock, data |-> Zero]
             \/ /\ <<J(k, s), T(k, s)>> \in InputOf(k) /\ F[k][s] = <<J(k, s), T(k, s)>>
                /\ J(k, s) \in 1 .. N /\ T(k, s) \in Slots
                /\ new[k][s].id = Old(J(k, s), T(k, s))
                /\ new[k][s].data = Received[J(k, s)][T(k, s)]
  <2>1. InputOf(k) \subseteq (1 .. N) \X Slots
    BY <1>2, Inputs
  <2> DEFINE from == F[k]
  <2>2. from \in Shuffled(InputOf(k)) /\ new[k] = Moved(from)
    BY <1>1
  <2> HIDE DEF from
  <2>3. /\ from[s] \in InputOf(k) \cup {Padding}
        /\ from[s] = Padding => Moved(from)[s] = [id |-> NoBlock, data |-> Zero]
        /\ from[s] # Padding =>
                 /\ Moved(from)[s].id = idMap[Involved[from[s][1]]][from[s][2]]
                 /\ Moved(from)[s].data = Received[from[s][1]][from[s][2]]
    BY <1>2, <2>1, <2>2, MovedType
  <2>4. CASE from[s] = Padding
    BY <2>2, <2>3, <2>4
  <2>5. CASE from[s] # Padding
    <3>1. from[s] \in InputOf(k) /\ from[s] = <<from[s][1], from[s][2]>>
          /\ from[s][1] \in 1 .. N /\ from[s][2] \in Slots
      BY <2>1, <2>3, <2>5
    <3> QED  BY <2>2, <2>3, <2>5, <3>1 DEF from
  <2> QED  BY <2>4, <2>5
<1>4. ASSUME NEW k \in 1 .. N, NEW p \in InputOf(k)
      PROVE  \E s \in Slots : F[k][s] = p /\ \A t \in Slots : F[k][t] = p => t = s
  BY <1>1 DEF Shuffled
<1>5. /\ \A j \in 1 .. N, t \in Slots : Old(j, t) # NoBlock =>
                 \E k \in 1 .. N : <<j, t>> \in InputOf(k)
      /\ \A p : \A k, l \in 1 .. N : p \in InputOf(k) /\ p \in InputOf(l) => k = l
      /\ \A k \in 1 .. N, j \in 1 .. N, t \in Slots :
                 <<j, t>> \in InputOf(k) /\ Old(j, t) # NoBlock => OnPath(WriteOrder[k], posMap[Old(j, t)])
  BY <1>2, InputFacts DEF Truth
<1>6. /\ \A j, k \in 1 .. N : Involved[j] = Involved[k] => j = k
      /\ \A j \in 1 .. N : \E k \in 1 .. N : WriteOrder[k] = Involved[j]
      /\ \A k \in 1 .. N : \E j \in 1 .. N : Involved[j] = WriteOrder[k]
      /\ \A k \in 1 .. N : WriteOrder[k] \in Nodes /\ Involved[k] \in Nodes
      /\ \A j, k \in 1 .. N : WriteOrder[j] = WriteOrder[k] => j = k
  BY <1>2, TurnFacts, LoopFacts DEF Shape
<1>7. MapHolds(idMap) /\ \A id : LeafOf(id) = posMap[id]
  BY DEF Truth, LeafOf
<1>8. ASSUME NEW k \in 1 .. N, NEW s \in Slots, new[k][s].id # NoBlock
      PROVE  /\ <<J(k, s), T(k, s)>> \in InputOf(k) /\ F[k][s] = <<J(k, s), T(k, s)>>
             /\ J(k, s) \in 1 .. N /\ T(k, s) \in Slots
             /\ new[k][s].id = Old(J(k, s), T(k, s))
  <2>1. [id |-> NoBlock, data |-> Zero].id = NoBlock
    OBVIOUS
  <2> HIDE DEF N, J, T, Old
  <2> QED  BY <1>3, <1>8, <2>1
<1>9. \A k \in 1 .. N, s \in Slots : new[k][s].data = Value(new[k][s].id)
  <2> SUFFICES ASSUME NEW k \in 1 .. N, NEW s \in Slots PROVE new[k][s].data = Value(new[k][s].id)
    OBVIOUS
  <2>1. CASE new[k][s] = [id |-> NoBlock, data |-> Zero]
    BY <2>1 DEF Value
  <2>2. CASE new[k][s] # [id |-> NoBlock, data |-> Zero]
    <3> DEFINE j == J(k, s)
               t == T(k, s)
    <3>1. j \in 1 .. N /\ t \in Slots /\ new[k][s].id = Old(j, t) /\ new[k][s].data = Received[j][t]
      BY <1>3, <2>2
    <3> HIDE DEF j, t
    <3>2. Received[j][t] = tree[Involved[j]][t]
      BY <1>2, <3>1
    <3>3. tree[Involved[j]][t] = Value(idMap[Involved[j]][t])
      <4>1. Involved[j] \in Nodes
        BY <1>6, <3>1
      <4>2. \A n \in Nodes, u \in Slots : tree[n][u] = Value(idMap[n][u])
        BY DEF Truth, Mirror, UnderWay
      <4> QED  BY <3>1, <4>1, <4>2
    <3> QED  BY <3>1, <3>2, <3>3
  <2> QED  BY <2>1, <2>2
<1> HIDE DEF N
\* A block of the old map is in one place.
<1>15. ASSUME NEW j \in 1 .. N, NEW u \in Slots, Old(j, u) # NoBlock,
              NEW m \in Nodes, NEW t \in Slots, idMap[m][t] = Old(j, u)
       PROVE  Involved[j] = m /\ u = t
  <2>1. Involved[j] \in Nodes
    BY <1>6
  <2> QED  BY <1>7, <1>15, <2>1 DEF MapHolds
<1>16. \A j : \A u : Old(j, u) = idMap[Involved[j]][u]
  OBVIOUS
<1> HIDE DEF Old
\* Where a block of the new map was before.
<1>10. ASSUME NEW n \in Nodes, NEW s \in Slots, f[n][s] # NoBlock
       PROVE  \/ f[n][s] = idMap[n][s] /\ \A k \in 1 .. N : WriteOrder[k] # n
              \/ \E k \in 1 .. N : /\ WriteOrder[k] = n /\ f[n][s] = new[k][s].id
                                   /\ new[k][s].id # NoBlock
  <2>1. CASE \A k \in 1 .. N : WriteOrder[k] # n
    BY <2>1 DEF N
  <2>2. CASE \E k \in 1 .. N : WriteOrder[k] = n
    BY <1>10, <2>2 DEF N
  <2> QED  BY <2>1, <2>2
<1>11. ASSUME NEW n \in Nodes, NEW s \in Slots, f[n][s] # NoBlock
       PROVE  /\ \E m \in Nodes, t \in Slots : idMap[m][t] = f[n][s]
              /\ OnPath(n, posMap[f[n][s]])
  <2>1. CASE f[n][s] = idMap[n][s]
    BY <1>7, <1>11, <2>1 DEF MapHolds
  <2>2. CASE \E k \in 1 .. N : WriteOrder[k] = n /\ f[n][s] = new[k][s].id /\ new[k][s].id # NoBlock
    <3>1. PICK k \in 1 .. N : WriteOrder[k] = n /\ f[n][s] = new[k][s].id /\ new[k][s].id # NoBlock
      BY <2>2
    <3> DEFINE j == J(k, s)
               t == T(k, s)
    <3>2. <<j, t>> \in InputOf(k) /\ j \in 1 .. N /\ t \in Slots /\ f[n][s] = Old(j, t)
      BY <1>8, <3>1
    <3> HIDE DEF j, t
    <3>3. OnPath(WriteOrder[k], posMap[Old(j, t)]) /\ Involved[j] \in Nodes
      BY <1>5, <1>6, <1>11, <3>2
    <3> QED  BY <1>16, <3>1, <3>2, <3>3
  <2> QED  BY <1>10, <1>11, <2>1, <2>2
<1>12. ASSUME NEW n \in Nodes, NEW m \in Nodes, NEW s \in Slots, NEW t \in Slots,
              f[n][s] = f[m][t], f[n][s] # NoBlock
       PROVE  n = m /\ s = t
  <2>1. CASE \E k \in 1 .. N : WriteOrder[k] = n /\ f[n][s] = new[k][s].id /\ new[k][s].id # NoBlock
    <3>1. PICK k \in 1 .. N : WriteOrder[k] = n /\ f[n][s] = new[k][s].id /\ new[k][s].id # NoBlock
      BY <2>1
    <3> DEFINE j == J(k, s)
               u == T(k, s)
    <3>2. /\ <<j, u>> \in InputOf(k) /\ j \in 1 .. N /\ u \in Slots /\ f[n][s] = Old(j, u)
          /\ F[k][s] = <<j, u>>
      BY <1>8, <3>1
    <3> HIDE DEF j, u
    <3>3. CASE \E l \in 1 .. N : WriteOrder[l] = m /\ f[m][t] = new[l][t].id /\ new[l][t].id # NoBlock
      <4>1. PICK l \in 1 .. N : WriteOrder[l] = m /\ f[m][t] = new[l][t].id /\ new[l][t].id # NoBlock
        BY <3>3
      <4> DEFINE i == J(l, t)
                 v == T(l, t)
      <4>2. /\ <<i, v>> \in InputOf(l) /\ i \in 1 .. N /\ v \in Slots /\ f[m][t] = Old(i, v)
            /\ F[l][t] = <<i, v>>
        BY <1>8, <4>1
      <4> HIDE DEF i, v
      <4>3. Involved[j] \in Nodes /\ Involved[i] \in Nodes
        BY <1>6, <3>2, <4>2
      <4>4. Involved[j] = Involved[i] /\ u = v
        <5>1. Old(j, u) # NoBlock /\ idMap[Involved[i]][v] = Old(j, u)
          BY <1>12, <1>16, <3>2, <4>2
        <5> QED  BY <1>15, <3>2, <4>2, <4>3, <5>1
      <4>5. i = j
        BY <1>6, <3>2, <4>2, <4>4
      <4>6. k = l
        BY <1>5, <3>2, <4>2, <4>4, <4>5
      <4>7. s = t
        BY SMTT(40), <1>4, <3>2, <4>2, <4>4, <4>5, <4>6
      <4> QED  BY <3>1, <4>1, <4>6, <4>7
    <3>4. CASE f[m][t] = idMap[m][t] /\ \A l \in 1 .. N : WriteOrder[l] # m
      <4>1. Old(j, u) # NoBlock /\ idMap[m][t] = Old(j, u)
        BY <1>12, <3>2, <3>4
      <4>2. Involved[j] = m
        BY <1>15, <3>2, <4>1
      <4> QED  BY <1>6, <3>2, <3>4, <4>2
    <3> QED  BY <1>10, <1>12, <3>3, <3>4
  <2>2. CASE f[n][s] = idMap[n][s] /\ \A k \in 1 .. N : WriteOrder[k] # n
    <3>1. CASE \E l \in 1 .. N : WriteOrder[l] = m /\ f[m][t] = new[l][t].id /\ new[l][t].id # NoBlock
      <4>1. PICK l \in 1 .. N : WriteOrder[l] = m /\ f[m][t] = new[l][t].id /\ new[l][t].id # NoBlock
        BY <3>1
      <4> DEFINE i == J(l, t)
                 v == T(l, t)
      <4>2. i \in 1 .. N /\ v \in Slots /\ f[m][t] = Old(i, v)
        BY <1>8, <4>1
      <4> HIDE DEF i, v
      <4>3. Old(i, v) # NoBlock /\ idMap[n][s] = Old(i, v)
        BY <1>12, <2>2, <4>2
      <4>4. Involved[i] = n
        BY <1>15, <4>2, <4>3
      <4> QED  BY <1>6, <2>2, <4>2, <4>4
    <3>2. CASE f[m][t] = idMap[m][t]
      <4>1. idMap[n][s] = idMap[m][t] /\ idMap[n][s] # NoBlock
        BY <1>12, <2>2, <3>2
      <4>2. \A p, q \in Nodes, u, v \in Slots :
               idMap[p][u] = idMap[q][v] /\ idMap[p][u] # NoBlock => p = q /\ u = v
        BY <1>7 DEF MapHolds
      <4> QED  BY <1>12, <4>1, <4>2
    <3>3. \/ f[m][t] = idMap[m][t]
          \/ \E l \in 1 .. N : WriteOrder[l] = m /\ f[m][t] = new[l][t].id /\ new[l][t].id # NoBlock
      <4>1. f[m][t] # NoBlock
        BY <1>12
      <4> QED  BY <1>10, <4>1
    <3> QED  BY <3>1, <3>2, <3>3
  <2> QED  BY <1>10, <1>12, <2>1, <2>2
<1>13. ASSUME NEW m \in Nodes, NEW t \in Slots, idMap[m][t] # NoBlock
       PROVE  \E n \in Nodes, s \in Slots : f[n][s] = idMap[m][t]
  <2>1. CASE \A k \in 1 .. N : WriteOrder[k] # m
    BY <2>1 DEF N
  <2>2. CASE \E k \in 1 .. N : WriteOrder[k] = m
    <3>0. PICK l \in 1 .. N : WriteOrder[l] = m
      BY <2>2
    <3>1. PICK j \in 1 .. N : Involved[j] = m
      BY <1>6, <3>0
    <3>2. PICK k \in 1 .. N : <<j, t>> \in InputOf(k)
      BY <1>5, <1>13, <1>16, <3>1
    <3>3. PICK s \in Slots : F[k][s] = <<j, t>>
      BY <1>4, <3>2
    <3>4. J(k, s) = j /\ T(k, s) = t
      BY <3>3
    <3>5. new[k][s].id = idMap[m][t]
      <4>1. <<j, t>> # Padding
        <5>1. j # 0
          OBVIOUS
        <5> QED  BY <5>1 DEF Padding
      <4>2. Moved(F[k])[s].id = idMap[Involved[j]][t]
        <5>1. InputOf(k) \subseteq (1 .. Len(Involved)) \X Slots /\ F[k] \in Shuffled(InputOf(k))
          BY <1>1, Inputs DEF N
        <5> DEFINE from == F[k]
        <5> HIDE DEF from
        <5>2. from[s] # Padding => Moved(from)[s].id = idMap[Involved[from[s][1]]][from[s][2]]
          BY <5>1, MovedType DEF from
        <5> QED  BY <3>3, <3>4, <4>1, <5>2 DEF from
      <4> QED  BY <1>1, <3>1, <4>2 DEF N
    <3>6. f[WriteOrder[k]][s] = new[k][s].id /\ WriteOrder[k] \in Nodes
      BY ZenonT(40), <1>6 DEF N
    <3> QED  BY <3>5, <3>6
  <2> QED  BY <2>1, <2>2
<1>14. MapHolds(f)
  <2>1. ASSUME NEW a \in Addr, \A n \in Nodes, s \in Slots : f[n][s] # a
        PROVE  oracle[a] = Zero \/ InHand(a)
    <3>1. a # NoBlock
      BY Constants
    <3>2. \A n \in Nodes, s \in Slots : idMap[n][s] # a
      BY <1>13, <2>1, <3>1
    <3> QED  BY <1>7, <3>2 DEF MapHolds
  <2>2. ASSUME NEW a \in Addr, InHand(a), NEW n \in Nodes, NEW s \in Slots
        PROVE  f[n][s] # a
    <3>1. a # NoBlock
      BY Constants
    <3>2. \A m \in Nodes, t \in Slots : idMap[m][t] # a
      BY <1>7, <2>2 DEF MapHolds
    <3> QED  BY <1>11, <3>1, <3>2
  <2> QED  BY <1>7, <1>11, <1>12, <2>1, <2>2 DEF MapHolds
<1> QED  BY <1>9, <1>14 DEF N

LEMMA TakeBucketTruth ==
    ASSUME Shape, Sound => Truth, UNCHANGED <<serverVars, oracle>>, TakeBucket, Sound'
    PROVE  Truth'
<1>1. /\ cpc = "fetch" /\ resp.cmd = "bucket" /\ resp # NoMsg /\ resp' = NoMsg
      /\ UNCHANGED <<posMap, idMap, accessCount, evictions, conn>>
  BY NoMsgFacts DEF TakeBucket
<1>2. ~ failed' /\ (~ Throws)
  BY DEF Sound, Throws
<1>3. UNCHANGED <<call, oldLeaf, picks, pathSum, result, todo, failed>> /\ cpc' \in {"fetch", "write"}
  BY <1>1, <1>2 DEF TakeBucket
<1>4. Truth /\ req = NoMsg
  BY <1>1, <1>3, RestSound, RepliedFacts
<1>5. /\ Received \in Seq(Contents)
      /\ Len(Received) = Len(fetched) + 1 /\ Len(Received) \in 1 .. Len(Involved)
      /\ Received[Len(Received)] = resp.slots
      /\ \A k \in 1 .. Len(fetched) : Received[k] = fetched[k]
  BY <1>1, ReceivedFacts
<1>6. tree' = tree /\ oracle' = oracle /\ Len(Involved) \in {1, 3} /\ Len(fetched) \in Nat
  BY InvolvedSize DEF serverVars, Shape, TypeOK
<1>7. \A k \in 1 .. Len(Received) : Received[k] = tree[Involved[k]]
  <2>1. resp = [cmd |-> "bucket", slots |-> tree[Involved[Len(fetched) + 1]]]
        /\ \A k \in 1 .. Len(fetched) : fetched[k] = tree[Involved[k]]
    BY <1>1, <1>4, NoMsgFacts DEF Truth, FetchState
  <2>2. resp.slots = tree[Involved[Len(fetched) + 1]]
    BY <2>1
  <2> SUFFICES ASSUME NEW k \in 1 .. Len(Received) PROVE Received[k] = tree[Involved[k]]
    OBVIOUS
  <2>3. k = Len(fetched) + 1 \/ k \in 1 .. Len(fetched)
    BY <1>5, <1>6
  <2> QED  BY <1>5, <2>1, <2>2, <2>3
<1>8. MapHolds(idMap)'
  BY <1>1, <1>3, <1>4, <1>6, MapSame DEF Truth
<1>9. (\A a \in Addr : InHand(a) => result = oracle[a])'
  BY <1>1, <1>3, <1>4, <1>6 DEF Truth, InHand
<1>10. Mirror'
  <2>1. \A n, s : ~ UnderWay(n, s)
    BY <1>1 DEF UnderWay
  <2> QED  BY <1>1, <1>4, <1>6, <2>1 DEF Truth, Mirror, Value
<1>11. FetchState' /\ WriteState'
  <2>1. CASE Len(Received) < Len(Involved)
    <3> DEFINE m == [cmd |-> "R", node |-> Involved[Len(Received) + 1]]
    <3>1. fetched' = Received /\ SendRequest(m) /\ cpc' = "fetch"
      BY <1>1, <2>1 DEF TakeBucket
    <3>2. req' = m
      <4> HIDE DEF m
      <4> QED  BY <1>1, <1>3, <3>1, SendSound
    <3>3. Involved' = Involved
      BY <1>3 DEF Involved, Source
    <3>4. FetchState'
      BY <1>6, <1>7, <3>1, <3>2, <3>3 DEF FetchState
    <3> QED  BY <3>1, <3>4 DEF WriteState
  <2>2. CASE ~ (Len(Received) < Len(Involved))
    <3>1. /\ \E new \in NewContents : contents' = new /\ SendRequest(WriteOf(new, 1, 1))
          /\ cursor' = Start /\ cpc' = "write"
      BY <1>2, <2>2 DEF TakeBucket
    <3>2. PICK new \in NewContents : contents' = new /\ SendRequest(WriteOf(new, 1, 1))
      BY <3>1
    <3>3. Len(Received) = Len(Involved)
      BY <1>5, <1>6, <2>2
    <3>4. new \in Seq([Slots -> Entries]) /\ Len(new) = Len(WriteOrder) /\ Len(new) \in Nat
      BY <1>1, <1>5, <3>3, NewContentsForm
    <3> DEFINE m == WriteOf(new, 1, 1)
               N == Len(WriteOrder)
    <3>5. req' = m
      <4> HIDE DEF m
      <4> QED  BY <1>1, <1>3, <3>1, <3>2, SendSound DEF m
    <3>6. WriteOrder' = WriteOrder
      BY <1>3 DEF WriteOrder, Source
    <3> DEFINE f == InstallIds'
    <3>7. f = [n \in Nodes |->
                  IF \E k \in DOMAIN new : WriteOrder[k] = n
                  THEN [s \in Slots |-> new[CHOOSE k \in DOMAIN new : WriteOrder[k] = n][s].id]
                  ELSE idMap[n]]
      BY <1>1, <3>2, <3>6 DEF InstallIds
    <3>8. /\ \A j, k \in 1 .. N : WriteOrder[j] = WriteOrder[k] => j = k
          /\ \A k \in 1 .. N : WriteOrder[k] \in Nodes
          /\ N \in Nat
      BY <1>1, LoopFacts, InvolvedSize DEF Shape
    <3>9. DOMAIN new = 1 .. N
      BY <3>4
    <3> HIDE DEF f, N, m
    <3>10. /\ \A k \in 1 .. N : f[WriteOrder[k]] = [s \in Slots |-> new[k][s].id]
           /\ \A n \in Nodes : (\A k \in 1 .. N : WriteOrder[k] # n) => f[n] = idMap[n]
      BY <3>7, <3>8, <3>9, Installed
    <3>11. \A k \in 1 .. N, s \in Slots : f[WriteOrder[k]][s] = new[k][s].id
      BY ZenonT(40), <3>10
    <3>12. /\ MapHolds(f)
           /\ \A k \in 1 .. N, s \in Slots : new[k][s].data = Value(new[k][s].id)
      BY <1>1, <1>4, <1>5, <1>7, <3>3, <3>10, <3>11, MovedBlocks DEF N
    <3>13. (MapHolds(InstallIds))'
      <4>1. \A b : LeafOf(b) = posMap[b]
        BY <1>1 DEF LeafOf
      <4>2. \A n \in Nodes, s \in Slots : LeafOf(InstallIds[n][s])' = posMap[f[n][s]]
        BY <1>1, <3>1 DEF LeafOf, f
      <4>3. \A b \in Addr : InHand(b)' = InHand(b)
        BY <1>1, <1>3, <3>1 DEF InHand
      <4> QED  BY <1>6, <3>12, <4>1, <4>2, <4>3 DEF MapHolds, f
    <3>14. (\A k \in 1 .. Len(contents), s \in Slots : contents[k][s].data = Value(contents[k][s].id))'
      BY <1>6, <3>2, <3>4, <3>12 DEF Value, N
    <3>15. \A k \in 1 .. Len(contents'), s \in Slots : ~ BeforeCursor(k, s)'
      <4>1. cursor'[1] = 1 /\ cursor'[2] = 1
        BY <3>1 DEF Start
      <4> QED  BY <3>2, <3>4, <4>1 DEF BeforeCursor, Slots
    <3>16. req' = WriteOf(contents, cursor[1], cursor[2])'
      <4>1. cursor'[1] = 1 /\ cursor'[2] = 1
        BY <3>1 DEF Start
      <4> QED  BY <3>2, <3>5, <3>6, <4>1 DEF WriteOf, m
    <3>17. WriteState'
      BY <3>13, <3>14, <3>15, <3>16 DEF WriteState
    <3> QED  BY <3>1, <3>17 DEF FetchState
  <2> QED  BY <2>1, <2>2
<1>12. PicksHold' /\ SumState' /\ ClearState' /\ RootState'
  BY <1>3 DEF PicksHold, SumState, ClearState, RootState
<1> QED  BY <1>8, <1>9, <1>10, <1>11, <1>12 DEF Truth

-----------------------------------------------------------------------------
LEMMA TruthInductive ==
    ASSUME IInv, [Next]_vars
    PROVE  IInv'
<1>1. Shape /\ (Sound => Truth) /\ Shape'
  BY ShapeInductive DEF IInv
<1> SUFFICES ASSUME Sound' PROVE Truth'
  BY <1>1 DEF IInv
<1>2. CASE ServerThread
  BY <1>1, <1>2, ServerTruth
<1>3. CASE Stopper \/ NetworkNext \/ UNCHANGED vars
  <2>1. UNCHANGED <<clientVars, oracle, tree, req, resp>>
    BY <1>3 DEF Stopper, Stop, NetworkNext, ConnectionLost, serverVars, vars
  <2> QED  BY <1>1, <2>1, PassSound
<1>4. CASE ClientWork
  <2>1. CASE RecvThrows
    BY <2>1 DEF RecvThrows, Throws, Sound
  <2> QED  BY <1>1, <1>4, <2>1, SelectTruth, TakeSumTruth, PlaceTruth, RootWrittenTruth, TakeBucketTruth,
              SlotWrittenTruth, ReturnTruth, PathClearedTruth DEF ClientWork
<1>5. CASE Caller
  <2>1. CASE DestroyClient
    BY <2>1 DEF DestroyClient, Sound
  <2> QED  BY <1>1, <1>5, <2>1, AccessTruth DEF Caller
<1> QED  BY <1>2, <1>3, <1>4, <1>5 DEF Next, Terminated

\* The invariant behind it: as long as no call has thrown and the one in progress
\* may still be answered, each message carries what Access and Evict will take from
\* it, and the ids noted are those of the slots that no write is under way to.
THEOREM InvariantHolds == Spec => []IInv
<1>1. Init => IInv
  BY InitShape, InitTruth DEF IInv
<1>2. IInv /\ [Next]_vars => IInv'
  BY TruthInductive
<1> QED  BY <1>1, <1>2, PTL DEF Spec

-----------------------------------------------------------------------------
\* A map that may be believed, and the tree that goes with it.
Believed(ids) ==
    /\ \A n, m \in Nodes, s, t \in Slots : ids[n][s] = ids[m][t] /\ ids[n][s] # NoBlock => n = m /\ s = t
    /\ \A n \in Nodes, s \in Slots : ids[n][s] # NoBlock => OnPath(n, LeafOf(ids[n][s]))
    /\ \A a \in Addr : (\A n \in Nodes, s \in Slots : ids[n][s] # a) => oracle[a] = Zero \/ InHand(a)

GoesWith(ids) ==
    \A p \in (Nodes \X Slots) \ BeingCleared : TreeToBe[p[1]][p[2]] = Value(ids[p[1]][p[2]])

\* The tree when the write in the connection is done.
NextTree == IF req.cmd = "U" THEN [tree EXCEPT ![req.node][req.slot] = req.data] ELSE tree

LEMMA TreeToBeFacts ==
    /\ \A n \in Nodes, s \in Slots :
          (\A k \in DOMAIN contents : WriteOrder[k] = n => ~ AfterCursor(k, s)) => TreeToBe[n][s] = NextTree[n][s]
    /\ \A j \in DOMAIN contents, s \in Slots :
          /\ AfterCursor(j, s)
          /\ WriteOrder[j] \in Nodes
          /\ \A k \in DOMAIN contents : WriteOrder[k] = WriteOrder[j] => k = j
          => TreeToBe[WriteOrder[j]][s] = contents[j][s].data
<1>1. TreeToBe =
         [n \in Nodes |-> [s \in Slots |->
            IF \E k \in DOMAIN contents : WriteOrder[k] = n /\ AfterCursor(k, s)
            THEN contents[CHOOSE k \in DOMAIN contents : WriteOrder[k] = n][s].data
            ELSE NextTree[n][s]]]
  BY DEF TreeToBe, NextTree
<1>2. ASSUME NEW n \in Nodes, NEW s \in Slots
      PROVE  TreeToBe[n][s] =
               IF \E k \in DOMAIN contents : WriteOrder[k] = n /\ AfterCursor(k, s)
               THEN contents[CHOOSE k \in DOMAIN contents : WriteOrder[k] = n][s].data
               ELSE NextTree[n][s]
  BY <1>1
<1>3. ASSUME NEW j \in DOMAIN contents, NEW s \in Slots, AfterCursor(j, s), WriteOrder[j] \in Nodes,
             \A k \in DOMAIN contents : WriteOrder[k] = WriteOrder[j] => k = j
      PROVE  TreeToBe[WriteOrder[j]][s] = contents[j][s].data
  <2> DEFINE c == CHOOSE k \in DOMAIN contents : WriteOrder[k] = WriteOrder[j]
  <2>1. c \in DOMAIN contents /\ WriteOrder[c] = WriteOrder[j]
    BY <1>3, Zenon
  <2>2. c = j
    BY <1>3, <2>1
  <2>3. TreeToBe[WriteOrder[j]][s] = contents[c][s].data
    BY <1>2, <1>3
  <2> QED  BY <2>2, <2>3
<1>4. ASSUME NEW n \in Nodes, NEW s \in Slots,
             \A k \in DOMAIN contents : WriteOrder[k] = n => ~ AfterCursor(k, s)
      PROVE  TreeToBe[n][s] = NextTree[n][s]
  BY <1>2, <1>4
<1> QED  BY <1>3, <1>4

\* The two tests of the map, as IdMapTellsTheTruth states them.
LEMMA PlacesFacts ==
    ASSUME TypeOK, CallShape, Believed(IdsToBe), GoesWith(IdsToBe), \A a \in Addr : InHand(a) => result = oracle[a]
    PROVE  IdMapTellsTheTruth
<1>1. NoBlock \notin Addr
  BY Constants
<1>2. \A p \in (Nodes \X Slots) \ BeingCleared :
         LET id == IdsToBe[p[1]][p[2]]
         IN  TreeToBe[p[1]][p[2]] = IF id = NoBlock THEN Zero ELSE oracle[id]
  BY DEF GoesWith, Value
<1>3. ASSUME NEW a \in Addr
      PROVE  LET inHand == call # NoCall /\ call.addr = a
             IN  /\ Cardinality(Places(a)) <= 1
                 /\ \A p \in Places(a) :
                      OnPath(p[1], IF inHand /\ cpc \in {"select", "sum", "clear"} THEN oldLeaf ELSE posMap[a])
                 /\ Places(a) = {} => oracle[a] = Zero \/ (inHand /\ picks # << >> /\ result = oracle[a])
  <2>1. \A p \in Places(a) :
           p[1] \in Nodes /\ p[2] \in Slots /\ p = <<p[1], p[2]>> /\ IdsToBe[p[1]][p[2]] = a
    BY DEF Places
  <2>2. Cardinality(Places(a)) <= 1
    <3>1. CASE Places(a) = {}
      <4>1. Cardinality(Places(a)) = 0
        BY <3>1, FS_EmptySet
      <4> QED  BY <4>1
    <3>2. CASE Places(a) # {}
      <4>1. PICK p : p \in Places(a)
        BY <3>2
      <4>2. \A q \in Places(a) : q = p
        <5> SUFFICES ASSUME NEW q \in Places(a) PROVE q = p
          OBVIOUS
        <5>1. p[1] = q[1] /\ p[2] = q[2]
          BY <1>1, <2>1, <4>1 DEF Believed
        <5> QED  BY <2>1, <4>1, <5>1
      <4>3. Places(a) = {p}
        BY <4>1, <4>2
      <4>4. Cardinality(Places(a)) = 1
        BY <4>3, FS_Singleton
      <4> QED  BY <4>4
    <3> QED  BY <3>1, <3>2
  <2>3. \A p \in Places(a) : OnPath(p[1], LeafOf(a))
    BY <1>1, <2>1 DEF Believed
  <2>4. LeafOf(a) = IF call # NoCall /\ call.addr = a /\ cpc \in {"select", "sum", "clear"}
                    THEN oldLeaf ELSE posMap[a]
    BY DEF LeafOf, CallShape
  <2>5. ASSUME Places(a) = {}
        PROVE  oracle[a] = Zero \/ (call # NoCall /\ call.addr = a /\ picks # << >> /\ result = oracle[a])
    <3>1. \A n \in Nodes, s \in Slots : IdsToBe[n][s] # a
      <4> SUFFICES ASSUME NEW n \in Nodes, NEW s \in Slots, IdsToBe[n][s] = a PROVE FALSE
        OBVIOUS
      <4>1. <<n, s>> \in Places(a)
        BY DEF Places
      <4> QED  BY <2>5, <4>1
    <3>2. oracle[a] = Zero \/ InHand(a)
      BY <3>1 DEF Believed
    <3>3. InHand(a) => call # NoCall /\ call.addr = a /\ picks # << >> /\ result = oracle[a]
      BY DEF InHand, CallShape
    <3> QED  BY <3>2, <3>3
  <2> QED  BY <2>2, <2>3, <2>4, <2>5
<1> QED  BY <1>2, <1>3 DEF IdMapTellsTheTruth

\* Between the rewriting of buckets and of the root.
LEMMA ToBeElsewhere ==
    ASSUME Shape, Truth, conn = "up", cpc \notin {"root", "write"}
    PROVE  Believed(IdsToBe) /\ GoesWith(IdsToBe)
<1>1. contents = << >> /\ DOMAIN contents = {}
  BY DEF Shape, CallShape
<1>2. \A n \in Nodes : IdsToBe[n] = idMap[n]
  BY <1>1 DEF IdsToBe, InstallIds
<1>3. Believed(IdsToBe)
  BY <1>2 DEF Truth, MapHolds, Believed
<1>4. NextTree = tree
  BY NoMsgFacts DEF Shape, Conversation, Asking, NextTree
<1>5. \A n \in Nodes, s \in Slots : TreeToBe[n][s] = tree[n][s]
  BY <1>1, <1>4, TreeToBeFacts
<1>6. ASSUME NEW p \in (Nodes \X Slots) \ BeingCleared
      PROVE  TreeToBe[p[1]][p[2]] = Value(IdsToBe[p[1]][p[2]])
  <2>1. p[1] \in Nodes /\ p[2] \in Slots /\ p = <<p[1], p[2]>>
    OBVIOUS
  <2>2. ~ UnderWay(p[1], p[2])
    <3> SUFFICES ASSUME cpc = "clear", PathPick(p[1], p[2]) PROVE FALSE
      BY DEF UnderWay
    <3>1. PICK k \in 1 .. TreeHeight + 1 : Paths[oldLeaf][k] = p[1] /\ picks[k] = p[2]
      BY DEF PathPick
    <3>2. DOMAIN picks = 1 .. TreeHeight + 1
      BY DEF Shape, CallShape
    <3>3. p \in BeingCleared
      BY <2>1, <3>1, <3>2 DEF BeingCleared
    <3> QED  BY <3>3
  <2> QED  BY <1>2, <1>5, <2>1, <2>2 DEF Truth, Mirror
<1> QED  BY <1>3, <1>6 DEF GoesWith

LEMMA ToBeInRoot ==
    ASSUME Shape, Truth, conn = "up", cpc = "root"
    PROVE  Believed(IdsToBe) /\ GoesWith(IdsToBe)
<1> DEFINE a == call.addr
           r == RootSlot
<1>1. contents = << >> /\ DOMAIN contents = {} /\ picks # << >>
  BY DEF Shape, CallShape
<1>2. /\ a \in Addr /\ a # NoBlock /\ idMap \in [Nodes -> Ids] /\ tree \in [Nodes -> Contents]
      /\ 0 \in Nodes
  BY CallFacts, Constants DEF Shape, TypeOK, CallShape
<1>3. /\ r \in Slots /\ idMap[0][r] = NoBlock
      /\ \/ req = [cmd |-> "U", node |-> 0, slot |-> r, data |-> result]
         \/ resp # NoMsg /\ tree[0][r] = result
  BY DEF Truth, RootState
<1>4. InHand(a) /\ (\A b : b # a => ~ InHand(b))
  BY <1>1 DEF InHand
<1>5. result = oracle[a] /\ \A n \in Nodes, s \in Slots : idMap[n][s] # a
  BY <1>2, <1>4 DEF Truth, MapHolds
<1>6. IdsToBe = [idMap EXCEPT ![0][r] = a]
  BY DEF IdsToBe
<1>7. \A n \in Nodes, s \in Slots : IdsToBe[n][s] = IF n = 0 /\ s = r THEN a ELSE idMap[n][s]
  <2>1. IdsToBe = [idMap EXCEPT ![0] = [idMap[0] EXCEPT ![r] = a]]
    BY <1>6
  <2> HIDE DEF a, r
  <2> QED  BY <1>2, <1>3, <2>1 DEF Ids
<1>8. \A n \in Nodes, s \in Slots : TreeToBe[n][s] = IF n = 0 /\ s = r THEN result ELSE tree[n][s]
  <2>1. \A n \in Nodes, s \in Slots : TreeToBe[n][s] = NextTree[n][s]
    BY <1>1, TreeToBeFacts
  <2>2. CASE req = [cmd |-> "U", node |-> 0, slot |-> r, data |-> result]
    <3>1. req.cmd = "U" /\ req.node = 0 /\ req.slot = r /\ req.data = result
      BY <2>2
    <3>2. NextTree = [tree EXCEPT ![0] = [tree[0] EXCEPT ![r] = result]]
      BY <3>1 DEF NextTree
    <3> HIDE DEF a, r
    <3> QED  BY <1>2, <1>3, <2>1, <3>2 DEF Contents
  <2>3. CASE resp # NoMsg /\ tree[0][r] = result
    <3>1. req = NoMsg
      BY <2>3, RepliedFacts
    <3>2. NextTree = tree
      BY <3>1, NoMsgFacts DEF NextTree
    <3> QED  BY <2>1, <2>3, <3>2
  <2> QED  BY <1>3, <2>2, <2>3
<1>9. oldLeaf \in Leaves /\ posMap \in [Addr -> Leaves] /\ \A b : LeafOf(b) = posMap[b]
  BY DEF Shape, TypeOK, LeafOf
<1>10. \A n \in Nodes, s \in Slots : ~ (n = 0 /\ s = r) => tree[n][s] = Value(idMap[n][s])
  BY DEF Truth, Mirror, UnderWay
<1> HIDE DEF a, r
<1>11. Believed(IdsToBe)
  <2>1. \A n, m \in Nodes, s, t \in Slots :
           IdsToBe[n][s] = IdsToBe[m][t] /\ IdsToBe[n][s] # NoBlock => n = m /\ s = t
    BY <1>5, <1>7 DEF Truth, MapHolds
  <2>2. ASSUME NEW n \in Nodes, NEW s \in Slots, IdsToBe[n][s] # NoBlock
        PROVE  OnPath(n, LeafOf(IdsToBe[n][s]))
    <3>1. CASE n = 0 /\ s = r
      BY <1>2, <1>7, <1>9, <3>1, OnPathIndex
    <3>2. CASE ~ (n = 0 /\ s = r)
      <4>1. IdsToBe[n][s] = idMap[n][s]
        BY <1>7, <3>2
      <4> QED  BY <2>2, <4>1 DEF Truth, MapHolds
    <3> QED  BY <3>1, <3>2
  <2>3. ASSUME NEW b \in Addr, \A n \in Nodes, s \in Slots : IdsToBe[n][s] # b
        PROVE  oracle[b] = Zero
    <3>1. b # a /\ b # NoBlock
      BY <1>2, <1>3, <1>7, <2>3, Constants
    <3>2. \A n \in Nodes, s \in Slots : idMap[n][s] # b
      BY <1>3, <1>7, <2>3, <3>1
    <3> QED  BY <1>4, <3>1, <3>2 DEF Truth, MapHolds
  <2> QED  BY <2>1, <2>2, <2>3 DEF Believed
<1>12. ASSUME NEW n \in Nodes, NEW s \in Slots
       PROVE  TreeToBe[n][s] = Value(IdsToBe[n][s])
  <2>1. CASE n = 0 /\ s = r
    BY <1>2, <1>5, <1>7, <1>8, <2>1 DEF Value
  <2>2. CASE ~ (n = 0 /\ s = r)
    BY <1>7, <1>8, <1>10, <2>2
  <2> QED  BY <2>1, <2>2
<1> QED  BY <1>11, <1>12 DEF GoesWith

LEMMA ToBeInWrite ==
    ASSUME Shape, Truth, conn = "up", cpc = "write"
    PROVE  Believed(IdsToBe) /\ GoesWith(IdsToBe)
<1> DEFINE c == cursor[1]
           e == cursor[2]
           N == Len(contents)
<1>1. IdsToBe = InstallIds
  BY DEF IdsToBe
<1>2. Believed(IdsToBe)
  BY <1>1 DEF Truth, WriteState, MapHolds, Believed
<1>3. /\ contents \in Seq([Slots -> Entries]) /\ tree \in [Nodes -> Contents] /\ N = Len(WriteOrder)
      /\ N \in Nat /\ DOMAIN contents = 1 .. N
      /\ \A j, k \in 1 .. N : WriteOrder[j] = WriteOrder[k] => j = k
      /\ \A k \in 1 .. N : WriteOrder[k] \in Nodes
  BY InstallFacts, LoopFacts DEF Shape, TypeOK
<1>4. cursor = <<c, e>> /\ c \in 1 .. N /\ e \in Slots
  BY NextSlotFacts
<1>5. /\ \A k \in 1 .. N, s \in Slots : contents[k][s].data = Value(contents[k][s].id)
      /\ \A k \in 1 .. N, s \in Slots : BeforeCursor(k, s) => WrittenAt(k, s)
      /\ req = WriteOf(contents, c, e) \/ (resp # NoMsg /\ WrittenAt(c, e))
  BY DEF Truth, WriteState
<1>6. /\ \A n \in Nodes, s \in Slots :
            (\A k \in 1 .. N : WriteOrder[k] = n => ~ AfterCursor(k, s)) => TreeToBe[n][s] = NextTree[n][s]
      /\ \A j \in 1 .. N, s \in Slots :
            AfterCursor(j, s) => TreeToBe[WriteOrder[j]][s] = contents[j][s].data
  <2> HIDE DEF N
  <2>1. \A n \in Nodes, s \in Slots :
           (\A k \in 1 .. N : WriteOrder[k] = n => ~ AfterCursor(k, s)) => TreeToBe[n][s] = NextTree[n][s]
    BY <1>3, TreeToBeFacts
  <2>2. ASSUME NEW j \in 1 .. N, NEW s \in Slots, AfterCursor(j, s)
        PROVE  TreeToBe[WriteOrder[j]][s] = contents[j][s].data
    BY SMTT(40), <1>3, <2>2, TreeToBeFacts
  <2> QED  BY <2>1, <2>2
\* When the write in the connection is done.
<1>7. /\ NextTree[WriteOrder[c]][e] = contents[c][e].data
      /\ \A n \in Nodes, s \in Slots : ~ (n = WriteOrder[c] /\ s = e) => NextTree[n][s] = tree[n][s]
  <2>1. CASE req = WriteOf(contents, c, e)
    <3>1. req.cmd = "U" /\ req.node = WriteOrder[c] /\ req.slot = e /\ req.data = contents[c][e].data
      BY <2>1 DEF WriteOf
    <3> DEFINE n0 == WriteOrder[c]
               d == contents[c][e].data
    <3>2. NextTree = [tree EXCEPT ![n0] = [tree[n0] EXCEPT ![e] = d]]
      BY <3>1 DEF NextTree
    <3>3. n0 \in Nodes
      BY <1>3, <1>4
    <3> SUFFICES /\ NextTree[n0][e] = d
                 /\ \A n \in Nodes, s \in Slots : ~ (n = n0 /\ s = e) => NextTree[n][s] = tree[n][s]
      OBVIOUS
    <3> HIDE DEF n0, d, c, e, N
    <3> QED  BY <1>3, <1>4, <3>2, <3>3 DEF Contents
  <2>2. CASE resp # NoMsg /\ WrittenAt(c, e)
    <3>1. req = NoMsg
      BY <2>2, RepliedFacts
    <3>2. NextTree = tree
      BY <3>1, NoMsgFacts DEF NextTree
    <3> QED  BY <2>2, <3>2 DEF WrittenAt
  <2> QED  BY <1>5, <2>1, <2>2
<1>8. \A n \in Nodes, s \in Slots : (\A k \in 1 .. N : WriteOrder[k] # n) => tree[n][s] = Value(idMap[n][s])
  BY <1>3 DEF Truth, Mirror, UnderWay
<1>9. /\ \A k \in 1 .. N, s \in Slots : IdsToBe[WriteOrder[k]][s] = contents[k][s].id
      /\ \A n \in Nodes : (\A k \in 1 .. N : WriteOrder[k] # n) => IdsToBe[n] = idMap[n]
  BY <1>1, InstallFacts
<1> HIDE DEF c, e, N
<1>10. ASSUME NEW n \in Nodes, NEW s \in Slots
       PROVE  TreeToBe[n][s] = Value(IdsToBe[n][s])
  <2>1. CASE \A k \in 1 .. N : WriteOrder[k] # n
    <3>1. TreeToBe[n][s] = NextTree[n][s]
      BY <1>6, <2>1
    <3>2. n # WriteOrder[c]
      BY <1>4, <2>1
    <3> QED  BY <1>7, <1>8, <1>9, <2>1, <3>1, <3>2
  <2>2. CASE \E k \in 1 .. N : WriteOrder[k] = n
    <3>1. PICK k \in 1 .. N : WriteOrder[k] = n
      BY <2>2
    <3>2. IdsToBe[n][s] = contents[k][s].id /\ contents[k][s].data = Value(contents[k][s].id)
      BY <1>5, <1>9, <3>1
    <3>3. CASE AfterCursor(k, s)
      BY <1>6, <3>1, <3>2, <3>3
    <3>4. CASE k = c /\ s = e
      <4>1. ~ AfterCursor(k, s)
        BY <1>4, <3>4 DEF AfterCursor, Slots, c, e
      <4>2. \A j \in 1 .. N : WriteOrder[j] = n => ~ AfterCursor(j, s)
        BY <1>3, <3>1, <4>1
      <4> QED  BY <1>6, <1>7, <3>1, <3>2, <3>4, <4>2
    <3>5. CASE BeforeCursor(k, s)
      <4>1. ~ AfterCursor(k, s) /\ ~ (k = c /\ s = e)
        <5>1. k \in Nat /\ c \in Nat /\ s \in Nat /\ e \in Nat
          BY <1>3, <1>4 DEF Slots
        <5> QED  BY <3>5, <5>1 DEF AfterCursor, BeforeCursor, c, e
      <4>2. \A j \in 1 .. N : WriteOrder[j] = n => ~ AfterCursor(j, s)
        BY <1>3, <3>1, <4>1
      <4>3. ~ (n = WriteOrder[c] /\ s = e)
        BY <1>3, <1>4, <3>1, <4>1
      <4>4. tree[n][s] = contents[k][s].data
        BY <1>5, <3>1, <3>5 DEF WrittenAt
      <4> QED  BY <1>6, <1>7, <3>2, <4>2, <4>3, <4>4
    <3>6. AfterCursor(k, s) \/ (k = c /\ s = e) \/ BeforeCursor(k, s)
      <4>1. k \in Nat /\ c \in Nat /\ s \in Nat /\ e \in Nat
        BY <1>3, <1>4 DEF Slots
      <4> QED  BY <4>1 DEF AfterCursor, BeforeCursor, c, e
    <3> QED  BY <3>3, <3>4, <3>5, <3>6
  <2> QED  BY <2>1, <2>2
<1> QED  BY <1>2, <1>10 DEF GoesWith

\* IdMapTellsTheTruth for every tree, number of blocks, bucket and eviction rate:
\* as long as no call has thrown, what the client notes of the server's slots is
\* what the server holds, through every message of Access and of its evictions.
THEOREM BeliefIsTrue == Spec => []IdMapTellsTheTruth
<1>1. IInv => IdMapTellsTheTruth
  <2> SUFFICES ASSUME IInv, Working PROVE IdMapTellsTheTruth
    BY DEF IdMapTellsTheTruth
  <2>1. Shape /\ conn = "up"
    BY DEF IInv, Working
  <2>2. Sound
    BY <2>1 DEF Working, Sound, Shape, Conversation
  <2>3. Truth
    BY <2>2 DEF IInv
  <2>4. Believed(IdsToBe) /\ GoesWith(IdsToBe)
    BY <2>1, <2>3, ToBeElsewhere, ToBeInRoot, ToBeInWrite
  <2> QED  BY <2>1, <2>3, <2>4, PlacesFacts DEF Shape, Truth
<1> QED  BY <1>1, InvariantHolds, PTL

-----------------------------------------------------------------------------
\* The blocks of the root are counted between two evictions, and each eviction,
\* which starts when the count is full, moves them all down.
RootIds == {s \in Slots : idMap[0][s] # NoBlock}

Budget ==
    /\ cpc # "retry"
    /\ cpc \in {"idle", "select", "sum", "clear", "place", "root", "return"} =>
          Cardinality(RootIds) <= accessCount % A
    /\ cpc \in {"fetch", "write"} =>
          /\ picks = << >> /\ accessCount % A = 0
          /\ Len(todo) # TreeHeight + 1 => RootIds = {}
    /\ cpc = "write" /\ Len(todo) = TreeHeight + 1 => \A s \in Slots : contents[3][s].id = NoBlock

LEMMA CountOn ==
    ASSUME NEW x \in 0 .. SizeTModulus - 1, A # 0
    PROVE  /\ (x + 1) % A # 0 => ((x + 1) % SizeTModulus) % A = (x % A) + 1
           /\ (x + 1) % A = 0 => ((x + 1) % SizeTModulus) % A = 0
           /\ x % A < A /\ x % A \in Nat
<1>1. /\ A \in Nat \ {0} /\ SizeTModulus \in Nat \ {0} /\ SizeTModulus % A = 0 /\ x \in Nat
  BY OnionClientAssumption, Constants
<1>2. ((x + 1) % SizeTModulus) % A = (x + 1) % A
  <2>1. CASE x + 1 < SizeTModulus
    <3>1. (x + 1) % SizeTModulus = x + 1
      BY <1>1, <2>1
    <3> QED  BY <3>1
  <2>2. CASE x + 1 = SizeTModulus
    <3>1. (x + 1) % SizeTModulus = 0
      BY <1>1, <2>2
    <3>2. 0 % A = 0
      BY <1>1
    <3> QED  BY <1>1, <2>2, <3>1, <3>2
  <2> QED  BY <1>1, <2>1, <2>2
<1> DEFINE q == x \div A
           r == x % A
           v == (x + 1) % A
<1>3. x = A * q + r /\ r \in 0 .. A - 1 /\ q \in Nat
  BY <1>1
<1> HIDE DEF q, r
<1>4. v = r + 1 \/ v = 0
  <2>1. CASE r + 1 < A
    <3>1. x + 1 = A * q + (r + 1) /\ r + 1 \in 0 .. A - 1
      BY <1>1, <1>3, <2>1
    <3> QED  BY <1>1, <1>3, <3>1
  <2>2. CASE r + 1 = A
    <3>1. x + 1 = A * (q + 1) + 0
      BY <1>1, <1>3, <2>2
    <3> QED  BY <1>1, <1>3, <3>1
  <2> QED  BY <1>1, <1>3, <2>1, <2>2
<1> DEFINE u == ((x + 1) % SizeTModulus) % A
<1>5. u = v
  BY <1>2
<1> HIDE DEF u, v
<1>6. (v # 0 => u = r + 1) /\ (v = 0 => u = 0) /\ r < A /\ r \in Nat
  BY <1>1, <1>3, <1>4, <1>5
<1> QED  BY <1>6, Zenon DEF u, v, r

LEMMA RootIdsFacts ==
    ASSUME TypeOK
    PROVE  /\ IsFiniteSet(RootIds) /\ RootIds \subseteq Slots /\ Cardinality(RootIds) \in Nat
           /\ Cardinality(RootIds) < BucketSlots => \E s \in Slots : idMap[0][s] = NoBlock
<1>1. IsFiniteSet(Slots) /\ Cardinality(Slots) = BucketSlots
  BY FS_Interval, Constants DEF Slots
<1>2. RootIds \subseteq Slots
  BY DEF RootIds
<1>3. IsFiniteSet(RootIds)
  BY <1>1, <1>2, FS_Subset
<1>4. Cardinality(RootIds) \in Nat
  BY <1>3, FS_CardinalityType
<1>5. ASSUME \A s \in Slots : idMap[0][s] # NoBlock
      PROVE  Cardinality(RootIds) = BucketSlots
  <2>1. RootIds = Slots
    BY <1>5 DEF RootIds
  <2> QED  BY <1>1, <2>1
<1>6. BucketSlots \in Nat
  BY Constants
<1> QED  BY <1>2, <1>3, <1>4, <1>5, <1>6

\* Fewer blocks, or one more.
LEMMA RootShrinks ==
    ASSUME TypeOK, RootIds' \subseteq RootIds
    PROVE  Cardinality(RootIds') <= Cardinality(RootIds)
BY RootIdsFacts, FS_Subset

LEMMA RootGrows ==
    ASSUME TypeOK, NEW s, RootIds' \subseteq RootIds \cup {s}
    PROVE  Cardinality(RootIds') <= Cardinality(RootIds) + 1
<1>1. IsFiniteSet(RootIds) /\ Cardinality(RootIds) \in Nat
  BY RootIdsFacts
<1>2. IsFiniteSet(RootIds \cup {s}) /\ Cardinality(RootIds \cup {s}) <= Cardinality(RootIds) + 1
  <2>1. /\ IsFiniteSet(RootIds \cup {s})
        /\ Cardinality(RootIds \cup {s}) = IF s \in RootIds THEN Cardinality(RootIds) ELSE Cardinality(RootIds) + 1
    BY <1>1, FS_AddElement
  <2> QED  BY <1>1, <2>1
<1>3. Cardinality(RootIds') <= Cardinality(RootIds \cup {s})
  BY <1>2, FS_Subset
<1>4. Cardinality(RootIds \cup {s}) \in Nat /\ Cardinality(RootIds') \in Nat
  <2>1. IsFiniteSet(RootIds')
    BY <1>2, FS_Subset
  <2> QED  BY <1>2, <2>1, FS_CardinalityType
<1> QED  BY <1>1, <1>2, <1>3, <1>4

\* Where in the tree the loop is: at the root at first and never again.
LEMMA LoopAtRoot ==
    ASSUME Shape, cpc \in {"fetch", "write"}, TreeHeight # 0
    PROVE  /\ Len(todo) = TreeHeight + 1 => Source = 0 /\ Len(todo) # 1 /\ Len(WriteOrder) = 3 /\ WriteOrder[3] = 0
           /\ Len(todo) # TreeHeight + 1 => \A k \in 1 .. Len(WriteOrder) : WriteOrder[k] # 0
<1>1. Len(todo) \in Nat /\ Len(todo) >= 1 /\ Len(todo) <= TreeHeight + 1
  BY Constants DEF Shape, LoopShape
<1> DEFINE i == Len(todo) - 1
<1>2. PICK leaf \in Leaves : \A j \in 1 .. Len(todo) : todo[j] = PathNode(leaf, Len(todo) - j)
  BY DEF Shape, LoopShape
<1>3. Source = PathNode(leaf, i) /\ i \in Levels
  <2>1. 1 \in 1 .. Len(todo) /\ Source = todo[1]
    BY <1>1 DEF Shape, TypeOK, Source
  <2> QED  BY <1>1, <1>2, <2>1, Constants DEF Levels
<1>4. Source = 0 <=> i = TreeHeight
  BY <1>3, PathReachesRoot
<1>5. Source \in Nat
  BY LoopFacts DEF Shape, Nodes
<1>6. CASE Len(todo) = TreeHeight + 1
  <2>1. i = TreeHeight /\ Len(todo) # 1
    BY <1>1, <1>6, Constants
  <2>2. WriteOrder = <<2 * Source + 1, 2 * Source + 2, Source>>
    BY <2>1 DEF WriteOrder
  <2>3. Len(WriteOrder) = 3 /\ WriteOrder[3] = Source
    BY <2>2
  <2> HIDE DEF i
  <2> QED  BY <1>4, <1>6, <2>1, <2>3
<1>7. CASE Len(todo) # TreeHeight + 1
  <2>1. Source # 0
    BY <1>1, <1>4, <1>7, Constants
  <2>2. WriteOrder = <<Source>> \/ WriteOrder = <<2 * Source + 1, 2 * Source + 2, Source>>
    BY DEF WriteOrder
  <2>3. CASE WriteOrder = <<Source>>
    <3>1. Len(WriteOrder) = 1 /\ WriteOrder[1] = Source
      BY <2>3
    <3>2. \A k \in 1 .. 1 : k = 1
      OBVIOUS
    <3> QED  BY <1>7, <2>1, <3>1, <3>2
  <2>4. CASE WriteOrder = <<2 * Source + 1, 2 * Source + 2, Source>>
    <3>1. /\ Len(WriteOrder) = 3 /\ WriteOrder[1] = 2 * Source + 1 /\ WriteOrder[2] = 2 * Source + 2
          /\ WriteOrder[3] = Source
      BY <2>4
    <3>2. \A k \in 1 .. 3 : k \in {1, 2, 3}
      OBVIOUS
    <3>3. 2 * Source + 1 # 0 /\ 2 * Source + 2 # 0
      BY <1>5
    <3> QED  BY <1>7, <2>1, <3>1, <3>2, <3>3
  <2> QED  BY <2>2, <2>3, <2>4
<1> QED  BY <1>6, <1>7

\* A step that leaves what Budget is about alone.
LEMMA BudgetSame ==
    ASSUME Budget, UNCHANGED <<cpc, idMap, accessCount, picks, todo, contents>>
    PROVE  Budget'
BY DEF Budget, RootIds

LEMMA PathClearedBudget ==
    ASSUME Shape, Budget, PathCleared, A # 0
    PROVE  Budget'
<1>1. cpc = "clear" /\ cpc' = "place" /\ idMap' = IdsWithoutPicks /\ accessCount' = accessCount
  BY DEF PathCleared
<1>2. 0 \in Nodes /\ idMap \in [Nodes -> Ids]
  BY Constants DEF Shape, TypeOK
<1>3. \A s \in Slots : idMap'[0][s] # NoBlock => idMap'[0][s] = idMap[0][s]
  BY <1>1, <1>2 DEF IdsWithoutPicks
<1>4. RootIds' \subseteq RootIds
  BY <1>3 DEF RootIds
<1>5. Cardinality(RootIds') <= Cardinality(RootIds)
  BY <1>4, RootShrinks DEF Shape
<1>6. Cardinality(RootIds) <= accessCount % A /\ Cardinality(RootIds) \in Nat /\ accessCount % A \in Nat
  BY <1>1, RootIdsFacts, CountOn DEF Budget, Shape, TypeOK
<1>7. Cardinality(RootIds') \in Nat
  <2>1. IsFiniteSet(RootIds')
    BY <1>4, RootIdsFacts, FS_Subset DEF Shape
  <2> QED  BY <2>1, FS_CardinalityType
<1>8. Cardinality(RootIds') <= accessCount % A
  BY <1>5, <1>6, <1>7
<1> QED  BY <1>1, <1>8 DEF Budget

\* With no more blocks than a bucket has slots, every bucket has room for any.
LEMMA RoomInBucket ==
    ASSUME Shape, MapHolds(idMap), NumBlocks <= BucketSlots, NEW n \in Nodes, NEW a \in Addr
    PROVE  \E s \in Slots : idMap[n][s] \in {a, NoBlock}
<1> SUFFICES ASSUME \A s \in Slots : idMap[n][s] \notin {a, NoBlock}
             PROVE  FALSE
  OBVIOUS
<1> DEFINE f == [s \in Slots |-> idMap[n][s]]
           T == Addr \ {a}
<1>1. \A s \in Slots : idMap[n][s] \in T
  BY DEF Shape, TypeOK, Ids
<1>2. \A s, t \in Slots : idMap[n][s] = idMap[n][t] => s = t
  BY DEF MapHolds
<1>3. f \in [Slots -> T] /\ \A s, t \in Slots : f[s] = f[t] => s = t
  BY <1>1, <1>2
<1>4. IsFiniteSet(Addr) /\ Cardinality(Addr) = NumBlocks
  <2>1. 0 \in Int /\ NumBlocks - 1 \in Int /\ ~ (0 > NumBlocks - 1) /\ (NumBlocks - 1) - 0 + 1 = NumBlocks
    BY Constants
  <2> QED  BY <2>1, FS_Interval DEF Addr
<1>5. IsFiniteSet(T) /\ Cardinality(T) = NumBlocks - 1
  BY <1>4, FS_RemoveElement
<1>6. IsFiniteSet(Slots) /\ Cardinality(Slots) = BucketSlots
  BY FS_Interval, Constants DEF Slots
<1>7. f \in Injection(Slots, T)
  <2> HIDE DEF f, T
  <2> QED  BY <1>3 DEF Injection, IsInjective
<1>8. Cardinality(Slots) <= Cardinality(T)
  <2> HIDE DEF f, T
  <2> QED  BY <1>5, <1>7, FS_Injection
<1> QED  BY <1>5, <1>6, <1>8, Constants

LEMMA PlaceBudget ==
    ASSUME IInv, Budget, Place, ~ failed, A # 0, A <= BucketSlots \/ NumBlocks <= BucketSlots
    PROVE  Budget' \/ failed'
<1>1. cpc = "place" /\ UNCHANGED <<idMap, accessCount>>
  BY DEF Place, Budget
<1>2. Shape /\ call.addr \in Addr
  <2>1. Shape
    BY DEF IInv
  <2> QED  BY <1>1, <2>1, CallFacts DEF Shape, TypeOK, CallShape
<1>3. \E s \in Slots : idMap[0][s] \in {call.addr, NoBlock}
  <2>1. CASE A <= BucketSlots
    <3>1. Cardinality(RootIds) <= accessCount % A /\ accessCount % A < A
      BY <1>1, <1>2, CountOn DEF Budget, Shape, TypeOK
    <3>2. Cardinality(RootIds) \in Nat /\ accessCount % A \in Nat
      BY <1>2, RootIdsFacts, CountOn DEF Shape, TypeOK
    <3>3. Cardinality(RootIds) < BucketSlots
      BY <2>1, <3>1, <3>2, Constants
    <3> QED  BY <1>2, <3>3, RootIdsFacts DEF Shape
  <2>2. CASE NumBlocks <= BucketSlots
    <3>1. MapHolds(idMap)
      BY <1>1 DEF IInv, Sound, Waiting, Truth
    <3> QED  BY <1>2, <2>2, <3>1, RoomInBucket, Constants
  <2> QED  BY <2>1, <2>2
<1>4. RootSlot # NoSlot
  BY <1>2, <1>3, RootSlotFacts, TypeParts DEF Shape
<1>5. cpc' = "root"
  BY <1>4 DEF Place
<1> QED  BY <1>1, <1>5 DEF Budget, RootIds

LEMMA RootWrittenBudget ==
    ASSUME Shape, Budget, RootWritten, A # 0
    PROVE  Budget'
<1>1. /\ cpc = "root" /\ idMap' = [idMap EXCEPT ![0][RootSlot] = call.addr]
      /\ accessCount' = (accessCount + 1) % SizeTModulus /\ picks' = << >>
  BY DEF RootWritten
<1>2. idMap \in [Nodes -> Ids] /\ 0 \in Nodes /\ accessCount \in 0 .. SizeTModulus - 1
  BY Constants DEF Shape, TypeOK
<1>3. Cardinality(RootIds) <= accessCount % A
  BY <1>1 DEF Budget
<1>4. CASE EvictionDue
  <2>1. Evict
    BY <1>4 DEF RootWritten
  <2>2. cpc' = "fetch" /\ Len(todo') = TreeHeight + 1
    BY <2>1, EvictFacts, TypeParts DEF Shape
  <2>3. accessCount' % A = 0
    BY <1>1, <1>2, <1>4, CountOn DEF EvictionDue
  <2> QED  BY <1>1, <2>2, <2>3 DEF Budget
<1>5. CASE ~ EvictionDue
  <2>1. cpc' = "return"
    BY <1>5 DEF RootWritten
  <2>2. accessCount' % A = (accessCount % A) + 1 /\ accessCount % A \in Nat
    BY <1>1, <1>2, <1>5, CountOn DEF EvictionDue
  <2>3. RootIds' \subseteq RootIds \cup {RootSlot}
    <3>1. \A s \in Slots : s # RootSlot => idMap'[0][s] = idMap[0][s]
      <4> DEFINE r == RootSlot
                 a == call.addr
      <4>1. idMap' = [idMap EXCEPT ![0] = [idMap[0] EXCEPT ![r] = a]]
        BY <1>1
      <4> HIDE DEF r, a
      <4>2. \A s \in Slots : s # r => idMap'[0][s] = idMap[0][s]
        BY <1>2, <4>1 DEF Ids
      <4> QED  BY <4>2 DEF r
    <3> QED  BY <3>1 DEF RootIds
  <2>4. Cardinality(RootIds') <= Cardinality(RootIds) + 1 /\ Cardinality(RootIds) \in Nat
    BY <2>3, RootGrows, RootIdsFacts DEF Shape
  <2>5. Cardinality(RootIds') \in Nat
    <3>1. IsFiniteSet(RootIds \cup {RootSlot})
      BY RootIdsFacts, FS_AddElement DEF Shape
    <3>2. IsFiniteSet(RootIds')
      BY <2>3, <3>1, FS_Subset
    <3> QED  BY <3>2, FS_CardinalityType
  <2>6. Cardinality(RootIds') <= accessCount' % A
    BY <1>3, <2>2, <2>4, <2>5
  <2> QED  BY <2>1, <2>6 DEF Budget
<1> QED  BY <1>4, <1>5

LEMMA TakeBucketBudget ==
    ASSUME Shape, Budget, TakeBucket, TreeHeight # 0
    PROVE  Budget' \/ failed'
<1>1. cpc = "fetch" /\ resp.cmd = "bucket" /\ UNCHANGED <<idMap, accessCount>>
  BY DEF TakeBucket
<1>2. CASE Len(Received) < Len(Involved)
  <2>1. UNCHANGED <<cpc, picks, todo, contents>>
    BY <1>2 DEF TakeBucket
  <2> QED  BY <1>1, <2>1, BudgetSame
<1>3. CASE ~ (Len(Received) < Len(Involved)) /\ Overflows
  BY <1>3 DEF TakeBucket, Throws
<1>4. CASE ~ (Len(Received) < Len(Involved)) /\ ~ Overflows
  <2>1. contents' \in NewContents /\ cpc' = "write" /\ UNCHANGED <<picks, todo>>
    BY <1>4 DEF TakeBucket
  <2>2. ASSUME Len(todo) = TreeHeight + 1, NEW s \in Slots
        PROVE  contents'[3][s].id = NoBlock
    <3> DEFINE none == [t \in Slots |-> Padding]
    <3>1. Len(todo) # 1
      BY <1>1, <2>2, LoopAtRoot
    <3>2. PICK left \in Shuffled(LeftInput), right \in Shuffled(RightInput) :
                 contents' = <<Moved(left), Moved(right), Moved(none)>>
      BY <2>1, <3>1 DEF NewContents
    <3>3. contents'[3] = Moved(none)
      BY <3>2
    <3>4. none[s] = Padding
      OBVIOUS
    <3>5. Moved(none)[s] = [id |-> NoBlock, data |-> Zero]
      BY <3>4 DEF Moved
    <3> QED  BY <3>3, <3>5
  <2>3. RootIds' = RootIds
    BY <1>1 DEF RootIds
  <2> QED  BY <1>1, <2>1, <2>2, <2>3 DEF Budget
<1> QED  BY <1>2, <1>3, <1>4

LEMMA SlotWrittenBudget ==
    ASSUME Shape, Budget, SlotWritten, TreeHeight # 0
    PROVE  Budget'
<1>1. cpc = "write" /\ UNCHANGED <<accessCount, picks>>
  BY DEF SlotWritten
<1>2. CASE cursor # <<Len(contents), BucketSlots>>
  <2>1. UNCHANGED <<idMap, cpc, todo, contents>>
    BY <1>2 DEF SlotWritten
  <2> QED  BY <1>1, <2>1, BudgetSame
<1>3. CASE cursor = <<Len(contents), BucketSlots>>
  <2>1. /\ idMap' = InstallIds /\ todo' = Tail(todo) /\ contents' = << >>
        /\ IF todo' # << >> THEN cpc' = "fetch" ELSE cpc' = (IF picks = << >> THEN "return" ELSE "retry")
    BY <1>3 DEF SlotWritten
  <2>2. picks = << >> /\ accessCount % A = 0 /\ cpc' \in {"fetch", "return"}
    BY <1>1, <2>1 DEF Budget
  <2>3. Len(contents) = Len(WriteOrder) /\ 0 \in Nodes
    BY <1>1, InstallFacts, Constants
  <2>4. RootIds' = {}
    <3>1. CASE Len(todo) = TreeHeight + 1
      <4>1. WriteOrder[3] = 0 /\ 3 \in 1 .. Len(contents)
        BY <1>1, <2>3, <3>1, LoopAtRoot
      <4>2. \A s \in Slots : InstallIds[0][s] = contents[3][s].id
        BY <1>1, <4>1, InstallFacts
      <4>3. \A s \in Slots : idMap'[0][s] = NoBlock
        BY <1>1, <2>1, <3>1, <4>2 DEF Budget
      <4> QED  BY <4>3 DEF RootIds
    <3>2. CASE Len(todo) # TreeHeight + 1
      <4>1. InstallIds[0] = idMap[0]
        BY <1>1, <2>3, <3>2, LoopAtRoot, InstallFacts
      <4>2. RootIds = {}
        BY <1>1, <3>2 DEF Budget
      <4> QED  BY <2>1, <4>1, <4>2 DEF RootIds
    <3> QED  BY <3>1, <3>2
  <2>5. Cardinality(RootIds') = 0
    BY <2>4, FS_EmptySet
  <2> QED  BY <1>1, <2>2, <2>4, <2>5 DEF Budget
<1> QED  BY <1>2, <1>3

LEMMA BudgetInductive ==
    ASSUME IInv, ~ failed => Budget, [Next]_vars, A # 0, TreeHeight # 0,
           A <= BucketSlots \/ NumBlocks <= BucketSlots
    PROVE  ~ failed' => Budget'
<1> SUFFICES ASSUME ~ failed' PROVE Budget'
  OBVIOUS
<1>1. Shape
  BY DEF IInv
<1>2. CASE ServerThread \/ Stopper \/ NetworkNext \/ UNCHANGED vars
  <2>1. UNCHANGED clientVars
    BY <1>2 DEF ServerThread, Stopper, NetworkNext, vars
  <2> QED  BY <2>1, BudgetSame DEF clientVars
<1>3. CASE ClientWork
  <2>1. CASE RecvThrows
    BY <2>1 DEF RecvThrows, Throws
  <2>2. CASE SelectSlots
    <3>1. cpc' = "sum" /\ cpc = "select" /\ UNCHANGED <<idMap, accessCount, failed>>
      BY <2>2 DEF SelectSlots, Throws
    <3> QED  BY <3>1 DEF Budget, RootIds
  <2>3. CASE TakeSum
    <3>1. cpc' = "clear" /\ cpc = "sum" /\ UNCHANGED <<idMap, accessCount, failed>>
      BY <2>3 DEF TakeSum
    <3> QED  BY <3>1 DEF Budget, RootIds
  <2>4. CASE Return
    <3>1. cpc' = "idle" /\ cpc = "return" /\ UNCHANGED <<idMap, accessCount, failed>>
      BY <2>4 DEF Return, EndOfCall
    <3> QED  BY <3>1 DEF Budget, RootIds
  <2>5. CASE Place
    <3>1. ~ failed
      BY <2>5 DEF Place, Throws
    <3> QED  BY <1>1, <2>5, <3>1, PlaceBudget
  <2>6. CASE RootWritten
    BY <1>1, <2>6, RootWrittenBudget DEF RootWritten
  <2>7. CASE TakeBucket
    <3>1. ~ failed
      BY <2>7 DEF TakeBucket, Throws
    <3> QED  BY <1>1, <2>7, <3>1, TakeBucketBudget
  <2>8. CASE SlotWritten
    BY <1>1, <2>8, SlotWrittenBudget DEF SlotWritten
  <2>9. CASE PathCleared
    BY <1>1, <2>9, PathClearedBudget DEF PathCleared
  <2> QED  BY <1>3, <2>1, <2>2, <2>3, <2>4, <2>5, <2>6, <2>7, <2>8, <2>9 DEF ClientWork
<1>4. CASE Caller
  <2>1. UNCHANGED <<idMap, accessCount, failed>> /\ cpc = "idle" /\ cpc' \in {"select", "destroyed"}
    BY <1>4 DEF Caller, DestroyClient, Access
  <2> QED  BY <2>1 DEF Budget, RootIds
<1> QED  BY <1>2, <1>3, <1>4 DEF Next, Terminated

\* RootBudget for every tree of more than one bucket whose root has room for the
\* accesses between two evictions, or for all blocks: the eviction before the block
\* is placed is never needed, and neither is the exception that follows it.
THEOREM RootHasRoom ==
    ASSUME TreeHeight # 0, A <= BucketSlots \/ NumBlocks <= BucketSlots
    PROVE  Spec => []RootBudget
<1>1. CASE A = 0
  <2>1. RootBudget
    BY <1>1 DEF RootBudget
  <2> QED  BY <2>1, PTL
<1>2. CASE A # 0
  <2>1. Init => (~ failed => Budget)
    <3> SUFFICES ASSUME Init PROVE Budget
      OBVIOUS
    <3>1. cpc = "idle" /\ accessCount = 0 /\ idMap = [n \in Nodes |-> AllDummies] /\ 0 \in Nodes
      BY Constants DEF Init, ConstructClient
    <3>2. RootIds = {}
      BY <3>1 DEF RootIds, AllDummies
    <3>3. Cardinality(RootIds) = 0 /\ 0 % A = 0
      BY <1>2, <3>2, FS_EmptySet, Constants
    <3> QED  BY <3>1, <3>3 DEF Budget
  <2>2. IInv /\ (~ failed => Budget) /\ [Next]_vars => (~ failed => Budget)'
    BY <1>2, BudgetInductive
  <2>3. IInv /\ (~ failed => Budget) => RootBudget
    BY DEF Budget, RootBudget, Working, RootIds
  <2> QED  BY <2>1, <2>2, <2>3, InvariantHolds, PTL DEF Spec
<1> QED  BY <1>1, <1>2

-----------------------------------------------------------------------------
\* Seen by its caller.  Each step of the system is a step of the RAM or leaves it
\* alone, unless an answer comes after a call has thrown: a call is invoked by
\* Access, takes effect in PathCleared and ends in Return or an exception.
LEMMA RAMSteps ==
    ASSUME IInv, [Next]_vars, ~ failed \/ resp = NoMsg
    PROVE  Memory!RAMNext \/ UNCHANGED <<oracle, call, result, failed>>
<1>1. Shape
  BY DEF IInv
<1>2. CASE ServerThread \/ Stopper \/ NetworkNext \/ UNCHANGED vars
  BY <1>2 DEF ServerThread, Stopper, NetworkNext, vars, clientVars
<1>3. ASSUME Throws, cpc \notin {"idle", "destroyed"}, oracle' = oracle
      PROVE  Memory!RAMNext
  <2>1. call # NoCall /\ call' = NoCall /\ result' = NoResult /\ failed' = TRUE
    BY <1>1, <1>3 DEF Throws, EndOfCall, Shape, CallShape
  <2> QED  BY <1>3, <2>1 DEF Memory!RAMThrow, Memory!RAMNext
<1>4. CASE Caller
  <2>1. CASE DestroyClient
    BY <1>4, <2>1 DEF Caller, DestroyClient
  <2>2. CASE \E c \in Calls : Access(c)
    <3>1. PICK c \in Calls : Access(c)
      BY <2>2
    <3>2. call = NoCall /\ call' = c /\ UNCHANGED <<oracle, result, failed>>
      BY <1>1, <1>4, <3>1 DEF Caller, Access, Shape, CallShape
    <3>3. Memory!RAMInvoke(c)
      BY <3>2 DEF Memory!RAMInvoke
    <3> QED  BY <3>3 DEF Memory!RAMNext
  <2> QED  BY <1>4, <2>1, <2>2 DEF Caller
<1>5. CASE PathCleared /\ oracle' = IF call.op = "WRITE" THEN [oracle EXCEPT ![call.addr] = call.data] ELSE oracle
  <2>1. /\ cpc = "clear" /\ resp # NoMsg /\ UNCHANGED <<call, failed>>
        /\ result' = IF call.op = "WRITE" THEN call.data ELSE pathSum
    BY <1>5, NoMsgFacts DEF PathCleared, ExpectAck
  <2>2. Sound
    BY <2>1 DEF Sound
  <2>3. pathSum = oracle[call.addr]
    BY <2>1, <2>2 DEF IInv, Truth, ClearState
  <2>4. call # NoCall /\ result = NoResult /\ call \in Calls
    BY <1>1, <2>1 DEF Shape, CallShape, TypeOK
  <2>5. call.op \in {"READ", "WRITE"}
    BY <2>4, CallFacts
  <2>6. Memory!RAMPerform
    BY <1>5, <2>1, <2>3, <2>4, <2>5 DEF Memory!RAMPerform
  <2> QED  BY <2>6 DEF Memory!RAMNext
<1>6. CASE Return /\ oracle' = oracle
  <2>1. result # NoResult /\ call' = NoCall /\ result' = NoResult /\ failed' = failed
    BY <1>1, <1>6 DEF Return, EndOfCall, Shape, CallShape
  <2>2. Memory!RAMReturn
    BY <1>6, <2>1 DEF Memory!RAMReturn
  <2> QED  BY <2>2 DEF Memory!RAMNext
<1>7. CASE (SelectSlots \/ TakeSum \/ Place \/ RootWritten \/ TakeBucket \/ SlotWritten \/ RecvThrows) /\ oracle' = oracle
  <2>1. CASE Throws
    <3>1. cpc \notin {"idle", "destroyed"}
      BY <1>7 DEF SelectSlots, TakeSum, Place, RootWritten, TakeBucket, SlotWritten, RecvThrows
    <3> QED  BY <1>3, <1>7, <2>1, <3>1
  <2>2. CASE ~ Throws
    BY <1>7, <2>2 DEF SelectSlots, TakeSum, Place, RootWritten, TakeBucket, SlotWritten, RecvThrows
  <2> QED  BY <2>1, <2>2
<1>8. CASE ClientWork
  BY <1>5, <1>6, <1>7, <1>8 DEF ClientWork
<1> QED  BY <1>2, <1>4, <1>8 DEF Next, Terminated

\* Until a call has thrown the client is a RAM, for every tree, number of blocks,
\* bucket and eviction rate: each step is one of the RAM's, so that every read
\* gives the value last written.
THEOREM RAMUntilACallThrows ==
    Spec => Memory!RAMInit /\ [][failed \/ Memory!RAMNext]_(Memory!ramVars)
<1>1. Init => Memory!RAMInit
  BY Constants DEF Init, ConstructClient, Memory!RAMInit
<1>2. IInv /\ [Next]_vars => [failed \/ Memory!RAMNext]_(Memory!ramVars)
  BY RAMSteps DEF Memory!ramVars
<1> QED  BY <1>1, <1>2, InvariantHolds, PTL DEF Spec

\* With no more blocks than a bucket has slots, no child overflows, and only a lost
\* connection makes a call throw.
LEMMA NeverOverflows ==
    ASSUME Shape, MapHolds(idMap), NumBlocks <= BucketSlots, cpc = "fetch"
    PROVE  ~ Overflows
<1> SUFFICES ASSUME Len(todo) > 1 PROVE ~ Overflows
  BY DEF Overflows
<1>1. Len(todo) # 1
  BY OneOrMore, Constants DEF Shape, LoopShape
<1>2. Len(Involved) = 3
  BY <1>1, LoopFacts DEF Shape
<1>3. \A j \in 1 .. 3 : Involved[j] \in Nodes
  BY <1>2, LoopFacts DEF Shape
<1>4. \A j, k \in 1 .. 3 : Involved[j] = Involved[k] => j = k
  BY <1>2, TurnFacts
<1>5. IsFiniteSet(Addr) /\ Cardinality(Addr) = NumBlocks
  BY FS_Interval, Constants DEF Addr
<1>6. ASSUME NEW I, I \subseteq (1 .. 3) \X Slots,
             \A p \in I : idMap[Involved[p[1]]][p[2]] # NoBlock
      PROVE  Cardinality(I) <= BucketSlots
  <2> DEFINE f == [p \in I |-> idMap[Involved[p[1]]][p[2]]]
  <2>1. ASSUME NEW p \in I PROVE f[p] \in Addr /\ f[p] = idMap[Involved[p[1]]][p[2]]
    <3>1. Involved[p[1]] \in Nodes /\ p[2] \in Slots
      BY <1>3, <1>6
    <3> QED  BY <1>6, <3>1 DEF Shape, TypeOK, Ids
  <2>2. ASSUME NEW p \in I, NEW q \in I, f[p] = f[q] PROVE p = q
    <3>1. Involved[p[1]] = Involved[q[1]] /\ p[2] = q[2]
      <4>1. p[2] \in Slots /\ q[2] \in Slots /\ Involved[p[1]] \in Nodes /\ Involved[q[1]] \in Nodes
        BY <1>3, <1>6
      <4>2. /\ idMap[Involved[p[1]]][p[2]] = idMap[Involved[q[1]]][q[2]]
            /\ idMap[Involved[p[1]]][p[2]] # NoBlock
        BY <1>6, <2>2
      <4> QED  BY <4>1, <4>2 DEF MapHolds
    <3>2. p[1] = q[1]
      BY <1>4, <1>6, <3>1
    <3>3. p = <<p[1], p[2]>> /\ q = <<q[1], q[2]>>
      BY <1>6
    <3> QED  BY <3>1, <3>2, <3>3
  <2>3. f \in [I -> Addr]
    BY <2>1
  <2>4. f \in Injection(I, Addr)
    <3> HIDE DEF f
    <3> QED  BY <2>2, <2>3 DEF Injection, IsInjective
  <2>5. IsFiniteSet(I) /\ Cardinality(I) <= Cardinality(Addr)
    <3> HIDE DEF f
    <3> QED  BY <1>5, <2>4, FS_Injection
  <2>6. Cardinality(I) \in Nat
    BY <2>5, FS_CardinalityType
  <2> QED  BY <1>5, <2>5, <2>6, Constants
<1>7. \A k \in 1 .. 3 : \A p \in Occupied(k) :
         p \in (1 .. 3) \X Slots /\ p[1] = k /\ idMap[Involved[k]][p[2]] # NoBlock
  BY DEF Occupied
<1>8. \A p \in LeftInput \cup RightInput :
         p \in (1 .. 3) \X Slots /\ idMap[Involved[p[1]]][p[2]] # NoBlock
  <2>1. 1 \in 1 .. 3 /\ 2 \in 1 .. 3 /\ 3 \in 1 .. 3
    OBVIOUS
  <2> QED  BY <1>7, <2>1 DEF LeftInput, RightInput
<1>9. /\ Cardinality(LeftInput) <= BucketSlots /\ Cardinality(RightInput) <= BucketSlots
  BY <1>6, <1>8
<1>10. Cardinality(LeftInput) \in Nat /\ Cardinality(RightInput) \in Nat
  <2>1. IsFiniteSet((1 .. 3) \X Slots)
    <3>1. IsFiniteSet(1 .. 3) /\ IsFiniteSet(Slots)
      <4>1. \A n \in Int : IsFiniteSet(1 .. n)
        BY FS_Interval
      <4>2. 3 \in Int /\ BucketSlots \in Int
        BY Constants
      <4> QED  BY <4>1, <4>2, Zenon DEF Slots
    <3> QED  BY <3>1, FS_Product
  <2>2. IsFiniteSet(LeftInput) /\ IsFiniteSet(RightInput)
    BY <1>8, <2>1, FS_Subset
  <2> QED  BY <2>2, FS_CardinalityType
<1> QED  BY <1>9, <1>10, Constants DEF Overflows

\* What remains when a call has thrown: a connection that brings nothing more.
Broken == failed => conn = "down" /\ resp = NoMsg

LEMMA OnlyRecvThrows ==
    ASSUME IInv, NumBlocks <= BucketSlots, SelectSlots \/ Place \/ TakeBucket, ~ failed
    PROVE  ~ failed'
<1>1. /\ Shape /\ (cpc \in {"select", "place", "retry"} \/ (cpc = "fetch" /\ resp # NoMsg))
  BY NoMsgFacts DEF IInv, SelectSlots, Place, TakeBucket
<1>2. Sound
  BY <1>1 DEF Sound, Waiting
<1>3. MapHolds(idMap)
  BY <1>2 DEF IInv, Truth
<1>4. idMap \in [Nodes -> Ids] /\ oldLeaf \in Leaves /\ 0 \in Nodes
  BY <1>1, Constants DEF Shape, TypeOK
<1>5. cpc # "fetch" => call.addr \in Addr
  BY <1>1, CallFacts DEF Shape, TypeOK, CallShape
<1>6. CASE SelectSlots
  <2>1. cpc = "select"
    BY <1>6 DEF SelectSlots
  <2>2. ASSUME NEW k \in DOMAIN Selections
        PROVE  Selections[k] # NoSlot
    <3> DEFINE n == Paths[oldLeaf][k]
    <3>1. k \in 1 .. TreeHeight + 1
      BY DEF Selections
    <3>2. n \in Nodes /\ Selections[k] = BlockOrDummySlot(idMap, n, call.addr)
      BY <1>4, <3>1, PathsFacts DEF Selections
    <3> HIDE DEF n
    <3>3. \E s \in Slots : idMap[n][s] \in {call.addr, NoBlock}
      BY <1>1, <1>3, <1>5, <2>1, <3>2, RoomInBucket
    <3> QED  BY <1>4, <3>2, <3>3, BlockOrDummyFacts
  <2> QED  BY <1>6, <2>2 DEF SelectSlots
<1>7. CASE Place
  <2>1. \E s \in Slots : idMap[0][s] \in {call.addr, NoBlock}
    BY <1>1, <1>3, <1>4, <1>5, <1>7, RoomInBucket DEF Place
  <2>2. RootSlot # NoSlot
    BY <1>1, <2>1, RootSlotFacts, TypeParts DEF Shape
  <2> QED  BY <1>7, <2>2 DEF Place
<1>8. CASE TakeBucket
  <2>1. ~ Overflows
    BY <1>1, <1>3, <1>8, NeverOverflows DEF TakeBucket
  <2> QED  BY <1>8, <2>1 DEF TakeBucket
<1> QED  BY <1>6, <1>7, <1>8

LEMMA BrokenInductive ==
    ASSUME IInv, Broken, NumBlocks <= BucketSlots, [Next]_vars
    PROVE  Broken'
<1>1. failed \in BOOLEAN /\ Shape
  BY DEF IInv, Shape, TypeOK
<1>2. CASE ServerThread
  <2>1. failed' = failed
    BY <1>2 DEF ServerThread, clientVars
  <2>2. CASE failed
    <3>1. conn = "down" /\ resp = NoMsg
      BY <2>2 DEF Broken
    <3>2. resp' = resp /\ conn' = "down"
      BY <1>2, <3>1 DEF ServerThread, StartHandleRequests, HandleAccess, HandleClearPath, ClearSlot, AckClearPath,
             HandleReadBucket, HandleWriteSlot, HandleQuit, ServerRecvThrows, DestroyServer, Answer, Refuse,
             SendReply
    <3> QED  BY <3>1, <3>2 DEF Broken
  <2> QED  BY <1>1, <2>1, <2>2 DEF Broken
<1>3. CASE Stopper \/ NetworkNext \/ UNCHANGED vars
  BY <1>3 DEF Broken, Stopper, Stop, NetworkNext, ConnectionLost, vars, clientVars
<1>4. CASE Caller
  BY <1>4 DEF Broken, Caller, DestroyClient, Access
<1>5. CASE RecvThrows
  BY <1>5 DEF Broken, RecvThrows, MayThrow
<1>6. CASE TakeSum \/ PathCleared \/ RootWritten \/ SlotWritten \/ Return
  <2>1. conn' = conn /\ (resp' = resp \/ resp' = NoMsg) /\ failed' = failed
    BY <1>6 DEF TakeSum, PathCleared, RootWritten, SlotWritten, Return, EndOfCall
  <2> QED  BY <2>1 DEF Broken
<1>7. CASE SelectSlots \/ Place \/ TakeBucket
  <2>1. conn' = conn /\ (resp' = resp \/ resp' = NoMsg)
    BY <1>7 DEF SelectSlots, Place, TakeBucket
  <2>2. ~ failed => ~ failed'
    BY <1>7, OnlyRecvThrows
  <2> QED  BY <2>1, <2>2 DEF Broken
<1> QED  BY <1>2, <1>3, <1>4, <1>5, <1>6, <1>7 DEF Next, ClientWork, Terminated

\* RefinesRAM, with no more blocks than a bucket has slots: nothing but the loss
\* of the connection makes a call throw, and no later call pretends to have
\* worked.  With more blocks it is false: an eviction may overflow a bucket on a
\* connection that goes on, and later reads are wrong.
THEOREM FewBlocksImplementRAM ==
    ASSUME NumBlocks <= BucketSlots
    PROVE  Spec => RefinesRAM
<1>1. Init => Memory!RAMInit /\ Broken
  BY Constants DEF Init, ConstructClient, Memory!RAMInit, Broken
<1>2. IInv /\ Broken /\ [Next]_vars => Broken'
  BY BrokenInductive
<1>3. IInv /\ Broken /\ [Next]_vars => [Memory!RAMNext]_(Memory!ramVars)
  <2>1. IInv /\ Broken => ~ failed \/ resp = NoMsg
    BY DEF Broken
  <2> QED  BY <2>1, RAMSteps DEF Memory!ramVars
<1> QED  BY <1>1, <1>2, <1>3, InvariantHolds, PTL DEF Spec, RefinesRAM, Memory!RAMSpec
=============================================================================
