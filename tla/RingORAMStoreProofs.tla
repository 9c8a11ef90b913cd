------------------------ MODULE RingORAMStoreProofs -------------------------
(***************************************************************************)
(* The Ring ORAM server as a store whose slots are read once, for any      *)
(* tree, any Z and S and any faults.                                       *)
(***************************************************************************)
EXTENDS RingORAMStore, FoundationsLemmas, FiniteSetTheorems

LEMMA Constants ==
    /\ TreeHeight \in Nat /\ Z \in Nat \ {0} /\ S \in Nat \ {0} /\ NumBlocks \in Nat \ {0}
    /\ Zero \in Data /\ 0 \in Addr /\ 0 \in Slots /\ 0 \in Leaves
    /\ NumTreeNodes \in Nat
<1>1. /\ Pow2(TreeHeight) \in Nat /\ Pow2(TreeHeight) >= 1
      /\ Pow2(TreeHeight + 1) = 2 * Pow2(TreeHeight)
  BY TreeHeightAssumption, Pow2Step
<1> QED
  BY <1>1, TreeHeightAssumption, RingBlocksAssumption
     DEF NumLeaves, NumTreeNodes, Leaves, Addr, Slots

LEMMA FreshFacts ==
    \A b \in FreshBuckets : b \in Buckets /\ b.count = 0 /\ b.valids = Slots
<1> DEFINE blocks == <<[addr |-> 0, leaf |-> 0, data |-> Zero]>>
           ptrs   == <<0>>
           e(i)   == [addr |-> blocks[i].addr, leaf |-> blocks[i].leaf,
                      ptr |-> ptrs[i], data |-> blocks[i].data]
           b      == [count |-> 0, valids |-> Slots, entries |-> [i \in 1 .. Len(blocks) |-> e(i)]]
<1>1. FreshBuckets = {b}
  BY DEF FreshBuckets, ResetWithBlocks
<1>2. Len(blocks) = 1 /\ \A i \in 1 .. Len(blocks) : e(i) \in Entries
  BY Constants DEF Entries
<1> HIDE DEF blocks, e
<1>3. [i \in 1 .. Len(blocks) |-> e(i)] \in Seq(Entries)
  BY <1>2
<1>4. b \in Buckets /\ b.count = 0 /\ b.valids = Slots
  BY <1>3 DEF Buckets
<1> QED  BY <1>1, <1>4

LEMMA SlotSets ==
    ASSUME NEW T \in SUBSET Slots
    PROVE  /\ IsFiniteSet(T) /\ Cardinality(T) \in Nat
           /\ \A s \in Slots \ T : Cardinality(T \cup {s}) = Cardinality(T) + 1
<1>1. IsFiniteSet(Slots)
  <2>1. 0 \in Int /\ Z + S - 1 \in Int
    BY Constants
  <2> QED  BY <2>1, FS_Interval DEF Slots
<1>2. IsFiniteSet(T)
  BY <1>1, FS_Subset
<1> QED  BY <1>2, FS_CardinalityType, FS_AddElement

LEMMA SlotDataType ==
    ASSUME NEW b \in Buckets, NEW slot
    PROVE  SlotData(b, slot) \in Data
<1> DEFINE Points(i) == i \in 1 .. Len(b.entries) /\ b.entries[i].ptr = slot
           i == CHOOSE i \in 1 .. Len(b.entries) : b.entries[i].ptr = slot
<1>1. b.entries \in Seq(Entries)
  BY DEF Buckets
<1>2. CASE \E k \in 1 .. Len(b.entries) : b.entries[k].ptr = slot
  <2>1. i \in 1 .. Len(b.entries)
    BY <1>2
  <2>2. SlotData(b, slot) = b.entries[i].data
    BY <1>2 DEF SlotData
  <2> HIDE DEF i
  <2>3. b.entries[i] \in Entries
    BY <1>1, <2>1
  <2> QED  BY <2>2, <2>3 DEF Entries
<1>3. CASE ~ \E k \in 1 .. Len(b.entries) : b.entries[k].ptr = slot
  BY <1>3, Constants DEF SlotData
<1> QED  BY <1>2, <1>3

LEMMA InvalidateType ==
    ASSUME NEW b \in Buckets, NEW slot
    PROVE  /\ Invalidate(b, slot) \in Buckets
           /\ Invalidate(b, slot).count = b.count + 1
           /\ Invalidate(b, slot).valids = b.valids \ {slot}
BY DEF Invalidate, Buckets

LEMMA NoMsgFacts == NoMsg.cmd = "none" /\ WellFormed(NoMsg)
BY DEF NoMsg, WellFormed

\* Whatever a client sends is what the server relies on in a request.
LEMMA SentWellFormed == \A m \in SentRequests : WellFormed(m)
<1> SUFFICES ASSUME NEW m \in SentRequests PROVE WellFormed(m)
  OBVIOUS
<1> DEFINE B == FreshBuckets \cup {NoBucket}
<1>1. SentTrees \subseteq Seq(B)
  <2>1. \A b \in B : [k \in 1 .. NumTreeNodes |-> b] \in Seq(B)
    <3> HIDE DEF B
    <3> QED  BY Constants
  <2>2. <<NoBucket>> \in Seq(B)
    OBVIOUS
  <2> HIDE DEF B
  <2> QED  BY <2>1, <2>2 DEF SentTrees, B
<1>2. CASE m \in [cmd : {"I"}, buckets : SentTrees]
  <2>1. m.cmd = "I" /\ m.buckets \in Seq(B)
    BY <1>1, <1>2
  <2> QED  BY <2>1 DEF WellFormed
<1>3. CASE m \in [cmd : {"W"}, node : Nodes \cup {NoSuchNode}, bucket : FreshBuckets \cup {NoBucket}]
  BY <1>3 DEF WellFormed
<1>4. CASE m.cmd \in {"M", "X", "B", "T", "S", "Q", "?"}
  BY <1>4 DEF WellFormed
<1> QED  BY <1>2, <1>3, <1>4 DEF SentRequests

-----------------------------------------------------------------------------
LEMMA InitStoreInv == Init => StoreInv
<1> SUFFICES ASSUME Init PROVE StoreInv
  OBVIOUS
<1>1. /\ tree = [n \in Nodes |-> NoBucket] /\ taken = [n \in Nodes |-> {}]
      /\ picked = << >> /\ spc = "constructed" /\ req = NoMsg
  BY DEF Init, ConstructServer
<1>2. /\ tree \in [Nodes -> Buckets \cup {NoBucket}] /\ taken \in [Nodes -> SUBSET Slots]
      /\ picked \in Seq(Data)
  BY <1>1
<1> QED  BY <1>1, <1>2, NoMsgFacts DEF StoreInv, CountsWhatWasTaken, ServerPoints

\* A step that changes no bucket and hands out no slot.
LEMMA QuietStep ==
    ASSUME StoreInv, tree' = tree, taken' = taken, picked' = picked \/ picked' = << >>,
           req' = req \/ req' = NoMsg,
           \/ spc' = spc /\ req' = req
           \/ spc' = "recv" /\ spc \in {"init", "xor"}
           \/ spc' = "recv" /\ spc = "recv"
           \/ spc' = "xor" /\ spc = "recv" /\ req'.cmd = "X"
           \/ spc' \in {"left", "destroyed"}
    PROVE  StoreInv'
<1>1. /\ tree' \in [Nodes -> Buckets \cup {NoBucket}] /\ taken' \in [Nodes -> SUBSET Slots]
      /\ picked' \in Seq(Data)
  <2>1. picked \in Seq(Data) /\ << >> \in Seq(Data)
    BY DEF StoreInv
  <2>2. picked' \in Seq(Data)
    BY <2>1
  <2> QED  BY <2>2 DEF StoreInv
<1>2. WellFormed(req)'
  <2>1. WellFormed(req')
    BY NoMsgFacts DEF StoreInv
  <2> QED  BY <2>1 DEF WellFormed
<1>3. CountsWhatWasTaken'
  BY DEF StoreInv, CountsWhatWasTaken
<1>4. spc' \in ServerPoints /\ (spc' = "init" => req'.cmd = "I") /\ (spc' = "xor" => req'.cmd = "X")
  BY DEF StoreInv, ServerPoints
<1>5. spc' = "constructed" => \A n \in Nodes : tree'[n] = NoBucket
  BY DEF StoreInv
<1> QED  BY <1>1, <1>2, <1>3, <1>4, <1>5 DEF StoreInv

\* The client and the network change only what is on the wire.
LEMMA ClientKeeps ==
    ASSUME StoreInv, Ask \/ TakeReply \/ HangUp
    PROVE  StoreInv'
<1>1. CASE Ask
  <2>1. /\ tree' = tree /\ taken' = taken /\ picked' = picked /\ spc' = spc
        /\ req = NoMsg /\ (req' = NoMsg \/ req' \in SentRequests)
    BY <1>1 DEF Ask, serverVars, SendRequest
  <2>2. WellFormed(req)'
    <3>1. WellFormed(req')
      BY <2>1, SentWellFormed, NoMsgFacts
    <3> QED  BY <3>1 DEF WellFormed
  <2>3. spc \notin {"init", "xor"}
    BY <2>1, NoMsgFacts DEF StoreInv
  <2> QED  BY <2>1, <2>2, <2>3 DEF StoreInv, CountsWhatWasTaken
<1>2. CASE TakeReply \/ HangUp
  <2>1. /\ tree' = tree /\ taken' = taken /\ picked' = picked /\ spc' = spc /\ req' = req
    BY <1>2 DEF TakeReply, HangUp, serverVars, ConnectionLost
  <2> QED  BY <2>1, QuietStep
<1> QED  BY <1>1, <1>2

\* The owner of the server and the thread that stops it.
LEMMA OwnerKeeps ==
    ASSUME StoreInv, Owner \/ StopCalled
    PROVE  StoreInv'
<1>1. CASE StartHandleRequests /\ Owner
  <2>1. /\ tree' = tree /\ taken' = taken /\ picked' = picked /\ req' = req
        /\ spc = "constructed" /\ spc' = "recv"
    BY <1>1 DEF Owner, StartHandleRequests
  <2>2. WellFormed(req)'
    BY <2>1 DEF StoreInv, WellFormed
  <2> QED  BY <2>1, <2>2 DEF StoreInv, CountsWhatWasTaken, ServerPoints
<1>2. CASE DestroyServer /\ Owner
  <2>1. /\ tree' = tree /\ taken' = taken /\ picked' = picked /\ req' = req
        /\ spc' = "destroyed"
    BY <1>2 DEF Owner, DestroyServer
  <2> QED  BY <2>1, QuietStep
<1>3. CASE StopCalled
  <2>1. /\ tree' = tree /\ taken' = taken /\ picked' = picked /\ req' = req /\ spc' = spc
    BY <1>3 DEF StopCalled, Stop
  <2> QED  BY <2>1, QuietStep
<1> QED  BY <1>1, <1>2, <1>3 DEF Owner

\* The handlers that write no bucket; HandleXorPathSlots before its loop and
\* after it.
LEMMA QuietHandlersKeep ==
    ASSUME StoreInv, Serve,
           \/ AckInit \/ HandleReadPathMetadata \/ HandleXorPathSlots \/ AnswerXor
           \/ HandleReadBucket \/ HandleReadBucketCount \/ HandleReadStats
           \/ HandleQuit \/ ServerRecvThrows
    PROVE  StoreInv'
<1>1. /\ tree' = tree
      /\ picked' = picked \/ picked' = << >>
      /\ req' = req \/ req' = NoMsg
      /\ \/ spc \in {"recv", "init", "xor"} /\ spc' = "recv"
         \/ spc = "recv" /\ spc' = "xor" /\ req' = req /\ req.cmd = "X"
         \/ spc' = "left"
  BY DEF AckInit, HandleReadPathMetadata, HandleXorPathSlots, AnswerXor, HandleReadBucket,
     HandleReadBucketCount, HandleReadStats, HandleQuit, ServerRecvThrows,
     Answer, Consume, Leave, NextTurn, Command
<1>2. ~ Picks
  <2>1. Len(picked) \in Nat
    BY DEF StoreInv
  <2> QED  BY <1>1, <2>1 DEF Picks
<1>3. CASE ServerRecvThrows
  <2>1. spc' = "left" /\ req' = NoMsg /\ picked' = picked
    BY <1>3 DEF ServerRecvThrows, Leave, Consume
  <2>2. taken' \in [Nodes -> SUBSET Slots]
    BY <1>2 DEF Serve, StoreInv
  <2>3. WellFormed(req)'
    BY <2>1, NoMsgFacts DEF WellFormed
  <2> QED  BY <1>1, <2>1, <2>2, <2>3 DEF StoreInv, CountsWhatWasTaken, ServerPoints
<1>4. CASE ~ ServerRecvThrows
  <2>1. /\ spc = "init" => req.buckets = << >> /\ req.cmd = "I"
        /\ req.cmd # "W"
    BY <1>4 DEF AckInit, HandleReadPathMetadata, HandleXorPathSlots, AnswerXor, HandleReadBucket,
       HandleReadBucketCount, HandleReadStats, HandleQuit, Command, Commands, StoreInv
  <2>2. taken' = taken
    BY <1>2, <2>1 DEF Serve
  <2> QED  BY <1>1, <2>2, QuietStep
<1> QED  BY <1>3, <1>4

\* The tree is thrown away before the new one comes.
LEMMA HandleInitKeeps ==
    ASSUME StoreInv, Serve, HandleInit
    PROVE  StoreInv'
<1>1. /\ spc = "recv" /\ req.cmd = "I" /\ picked' = picked /\ spc' \in {"init", "left"}
      /\ tree' = tree \/ tree' = [n \in Nodes |-> NoBucket]
      /\ (req' = NoMsg /\ spc' = "left") \/ req' = req
  BY DEF HandleInit, Command, Consume, Leave
<1>2. taken' = taken
  <2>1. ~ Picks
    <3>1. Len(picked) \in Nat
      BY DEF StoreInv
    <3> QED  BY <1>1, <3>1 DEF Picks
  <2> QED  BY <1>1, <2>1 DEF Serve
<1>3. WellFormed(req)'
  <2>1. WellFormed(req')
    BY <1>1, NoMsgFacts DEF StoreInv
  <2> QED  BY <2>1 DEF WellFormed
<1>4. tree' \in [Nodes -> Buckets \cup {NoBucket}]
  BY <1>1 DEF StoreInv
<1>5. CountsWhatWasTaken'
  BY <1>1, <1>2 DEF CountsWhatWasTaken, StoreInv
<1> QED  BY <1>1, <1>2, <1>3, <1>4, <1>5 DEF StoreInv, ServerPoints

\* What WriteBucketToDisk leaves in the file of bucket n, whether it throws or not.
LEMMA WriteEffect ==
    ASSUME NEW n, NEW b, tree \in [Nodes -> Buckets \cup {NoBucket}],
           Writable(n, b) => b \in Buckets,
           WriteBucketToDisk(n, b) \/ WriteBucketThrows(n, b) \/ tree' = tree
    PROVE  /\ tree' \in [Nodes -> Buckets \cup {NoBucket}]
           /\ \A i \in Nodes : i # n => tree'[i] = tree[i]
           /\ WriteBucketToDisk(n, b) => n \in Nodes /\ tree'[n] \in {b, NoBucket}
<1>1. \/ tree' = tree
      \/ n \in Nodes /\ b \in Buckets /\ tree' = [tree EXCEPT ![n] = b]
      \/ n \in Nodes /\ tree' = [tree EXCEPT ![n] = NoBucket]
  BY DEF WriteBucketToDisk, WriteBucketThrows, Writable
<1> QED  BY <1>1 DEF WriteBucketToDisk, Writable

LEMMA InitBucketKeeps ==
    ASSUME StoreInv, Serve, InitBucket
    PROVE  StoreInv'
<1> DEFINE n == NumTreeNodes - Len(req.buckets)
           b == Head(req.buckets)
<1>1. /\ spc = "init" /\ req.cmd = "I" /\ req.buckets # << >> /\ picked' = picked
      /\ req.buckets \in Seq(FreshBuckets \cup {NoBucket})
      /\ tree \in [Nodes -> Buckets \cup {NoBucket}] /\ taken \in [Nodes -> SUBSET Slots]
      /\ picked \in Seq(Data)
      /\ CountsWhatWasTaken
  BY DEF InitBucket, StoreInv, WellFormed
<1>2. taken' = [taken EXCEPT ![n] = {}]
  <2>1. ~ Picks
    BY <1>1 DEF Picks
  <2> QED  BY <1>1, <2>1 DEF Serve
<1>3. b \in FreshBuckets \cup {NoBucket} /\ Tail(req.buckets) \in Seq(FreshBuckets \cup {NoBucket})
  <2> DEFINE B == FreshBuckets \cup {NoBucket}
             s == req.buckets
  <2>1. s \in Seq(B) /\ s # << >>
    BY <1>1
  <2> HIDE DEF B, s
  <2>2. Head(s) \in B /\ Tail(s) \in Seq(B)
    BY <2>1
  <2> QED  BY <2>2 DEF B, s
<1>4. \/ WriteBucketToDisk(n, b) /\ req' = [cmd |-> "I", buckets |-> Tail(req.buckets)] /\ spc' = spc
      \/ WriteBucketThrows(n, b) /\ req' = NoMsg /\ spc' = "left"
  BY DEF InitBucket, Consume, Leave
<1>5. Writable(n, b) => b \in Buckets /\ b.count = 0 /\ b.valids = Slots
  BY <1>3, FreshFacts DEF Writable
<1> HIDE DEF n, b
<1>6. /\ tree' \in [Nodes -> Buckets \cup {NoBucket}]
      /\ \A i \in Nodes : i # n => tree'[i] = tree[i]
      /\ WriteBucketToDisk(n, b) => n \in Nodes /\ tree'[n] \in {b, NoBucket}
  BY <1>1, <1>4, <1>5, WriteEffect
<1>7. taken' \in [Nodes -> SUBSET Slots]
  BY <1>1, <1>2
<1>8. CASE WriteBucketToDisk(n, b) /\ req' = [cmd |-> "I", buckets |-> Tail(req.buckets)] /\ spc' = spc
  <2>1. WellFormed(req)'
    BY <1>3, <1>8 DEF WellFormed
  <2>2. CountsWhatWasTaken'
    <3> SUFFICES ASSUME NEW i \in Nodes, tree'[i] # NoBucket
                 PROVE  tree'[i].count = Cardinality(taken'[i]) /\ tree'[i].valids = Slots \ taken'[i]
      BY DEF CountsWhatWasTaken
    <3>1. CASE i = n
      <4>1. tree'[i] = b /\ taken'[i] = {} /\ Writable(n, b)
        BY <1>1, <1>2, <1>6, <1>8, <3>1 DEF WriteBucketToDisk
      <4> QED  BY <1>5, <4>1, FS_EmptySet
    <3>2. CASE i # n
      <4>1. tree'[i] = tree[i] /\ taken'[i] = taken[i]
        BY <1>1, <1>2, <1>6, <3>2
      <4> QED  BY <1>1, <4>1 DEF CountsWhatWasTaken
    <3> QED  BY <3>1, <3>2
  <2> QED  BY <1>1, <1>6, <1>7, <1>8, <2>1, <2>2 DEF StoreInv, ServerPoints
<1>9. CASE req' = NoMsg /\ spc' = "left"
  <2>1. WellFormed(req)'
    BY <1>9, NoMsgFacts DEF WellFormed
  <2> QED  BY <1>1, <1>6, <1>7, <1>9, <2>1 DEF StoreInv, CountsWhatWasTaken, ServerPoints
<1> QED  BY <1>4, <1>8, <1>9

LEMMA HandleWriteBucketKeeps ==
    ASSUME StoreInv, Serve, HandleWriteBucket
    PROVE  StoreInv'
<1> DEFINE n == req.node
           b == req.bucket
<1>1. /\ spc = "recv" /\ req.cmd = "W" /\ picked' = picked /\ req' = NoMsg
      /\ b \in FreshBuckets \cup {NoBucket}
      /\ tree \in [Nodes -> Buckets \cup {NoBucket}] /\ taken \in [Nodes -> SUBSET Slots]
      /\ picked \in Seq(Data)
      /\ CountsWhatWasTaken
  BY DEF HandleWriteBucket, StoreInv, WellFormed, Command, Answer, Consume
<1>2. taken' = IF n \in Nodes THEN [taken EXCEPT ![n] = {}] ELSE taken
  <2>1. ~ Picks
    BY <1>1 DEF Picks
  <2> QED  BY <1>1, <2>1 DEF Serve
<1>3. \/ WriteBucketToDisk(n, b) /\ spc' \in {"recv", "left"}
      \/ (WriteBucketThrows(n, b) \/ tree' = tree) /\ spc' = "left"
  BY DEF HandleWriteBucket, Answer, Leave, NextTurn
<1>4. Writable(n, b) => b \in Buckets /\ b.count = 0 /\ b.valids = Slots
  BY <1>1, FreshFacts DEF Writable
<1> HIDE DEF n, b
<1>5. /\ tree' \in [Nodes -> Buckets \cup {NoBucket}]
      /\ \A i \in Nodes : i # n => tree'[i] = tree[i]
      /\ WriteBucketToDisk(n, b) => n \in Nodes /\ tree'[n] \in {b, NoBucket}
  BY <1>1, <1>3, <1>4, WriteEffect
<1>6. taken' \in [Nodes -> SUBSET Slots]
  BY <1>1, <1>2
<1>7. WellFormed(req)'
  BY <1>1, NoMsgFacts DEF WellFormed
<1>8. CASE WriteBucketToDisk(n, b)
  <2>1. CountsWhatWasTaken'
    <3> SUFFICES ASSUME NEW i \in Nodes, tree'[i] # NoBucket
                 PROVE  tree'[i].count = Cardinality(taken'[i]) /\ tree'[i].valids = Slots \ taken'[i]
      BY DEF CountsWhatWasTaken
    <3>1. CASE i = n
      <4>1. tree'[i] = b /\ taken'[i] = {} /\ Writable(n, b)
        BY <1>1, <1>2, <1>5, <1>8, <3>1 DEF WriteBucketToDisk
      <4> QED  BY <1>4, <4>1, FS_EmptySet
    <3>2. CASE i # n
      <4>1. tree'[i] = tree[i] /\ taken'[i] = taken[i]
        BY <1>1, <1>2, <1>5, <3>2
      <4> QED  BY <1>1, <4>1 DEF CountsWhatWasTaken
    <3> QED  BY <3>1, <3>2
  <2>2. spc' \in {"recv", "left"}
    BY <1>3
  <2> QED  BY <1>1, <1>5, <1>6, <1>7, <2>1, <2>2 DEF StoreInv, ServerPoints
<1>9. CASE spc' = "left"
  BY <1>1, <1>5, <1>6, <1>7, <1>9 DEF StoreInv, CountsWhatWasTaken, ServerPoints
<1> QED  BY <1>3, <1>8, <1>9

\* A turn of the loop of HandleXorPathSlots that takes a slot.
LEMMA SlotTaken ==
    ASSUME StoreInv, Serve, XorSlot, Picks
    PROVE  /\ XorNode \in Nodes /\ XorOffset \in Slots \ taken[XorNode]
           /\ SlotIsValid(XorNode, XorOffset)
           /\ WriteBucketToDisk(XorNode, Invalidate(tree[XorNode], XorOffset))
           /\ picked' = Append(picked, SlotData(tree[XorNode], XorOffset))
           /\ spc' = spc /\ req' = req
<1>1. /\ SlotIsValid(XorNode, XorOffset)
      /\ WriteBucketToDisk(XorNode, Invalidate(tree[XorNode], XorOffset))
      /\ picked' = Append(picked, SlotData(tree[XorNode], XorOffset))
      /\ spc' = spc /\ req' = req
  <2>1. picked' # << >>
    <3>1. Len(picked) \in Nat
      BY DEF StoreInv
    <3> QED  BY <3>1 DEF Picks
  <2> QED  BY <2>1 DEF XorSlot, XorNode, XorOffset
<1>2. XorNode \in Nodes /\ tree[XorNode] # NoBucket /\ XorOffset \in tree[XorNode].valids
  BY <1>1 DEF SlotIsValid, Stored
<1>3. spc = "xor" /\ CountsWhatWasTaken
  BY DEF XorSlot, StoreInv
<1>4. tree[XorNode].valids = Slots \ taken[XorNode]
  BY <1>2, <1>3 DEF CountsWhatWasTaken
<1> QED  BY <1>1, <1>2, <1>4

LEMMA XorSlotKeeps ==
    ASSUME StoreInv, Serve, XorSlot
    PROVE  StoreInv'
<1> DEFINE n    == XorNode
           slot == XorOffset
           b    == Invalidate(tree[n], slot)
<1>1. /\ spc = "xor" /\ req.cmd = "X" /\ WellFormed(req)
      /\ tree \in [Nodes -> Buckets \cup {NoBucket}] /\ taken \in [Nodes -> SUBSET Slots]
      /\ picked \in Seq(Data) /\ Len(picked) \in Nat
      /\ CountsWhatWasTaken
  BY DEF XorSlot, StoreInv
<1>2. CASE Picks
  <2>1. /\ n \in Nodes /\ slot \in Slots \ taken[n] /\ tree[n] # NoBucket
        /\ WriteBucketToDisk(n, b)
        /\ picked' = Append(picked, SlotData(tree[n], slot))
        /\ spc' = spc /\ req' = req
    BY <1>2, SlotTaken DEF SlotIsValid, Stored
  <2>2. taken' = [taken EXCEPT ![n] = @ \cup {slot}]
    BY <1>2 DEF Serve
  <2>3. tree[n] \in Buckets
    BY <1>1, <2>1
  <2>4. b \in Buckets /\ b.count = tree[n].count + 1 /\ b.valids = tree[n].valids \ {slot}
    BY <2>3, InvalidateType
  <2>5. picked' \in Seq(Data)
    <3>1. SlotData(tree[n], slot) \in Data
      BY <2>3, SlotDataType
    <3> QED  BY <1>1, <2>1, <3>1
  <2> HIDE DEF n, slot, b
  <2>6. /\ tree' \in [Nodes -> Buckets \cup {NoBucket}]
        /\ \A i \in Nodes : i # n => tree'[i] = tree[i]
        /\ tree'[n] \in {b, NoBucket}
    BY <1>1, <2>1, <2>4, WriteEffect
  <2>7. taken[n] \in SUBSET Slots /\ taken' \in [Nodes -> SUBSET Slots]
    BY <1>1, <2>1, <2>2
  <2>8. CountsWhatWasTaken'
    <3> SUFFICES ASSUME NEW i \in Nodes, tree'[i] # NoBucket
                 PROVE  tree'[i].count = Cardinality(taken'[i]) /\ tree'[i].valids = Slots \ taken'[i]
      BY DEF CountsWhatWasTaken
    <3>1. CASE i = n
      <4>1. tree'[i] = b /\ taken'[i] = taken[n] \cup {slot}
        BY <1>1, <2>1, <2>2, <2>6, <3>1
      <4>2. tree[n].count = Cardinality(taken[n]) /\ tree[n].valids = Slots \ taken[n]
        BY <1>1, <2>1 DEF CountsWhatWasTaken
      <4>3. Cardinality(taken[n] \cup {slot}) = Cardinality(taken[n]) + 1
        BY <2>1, <2>7, SlotSets
      <4> QED  BY <2>4, <4>1, <4>2, <4>3
    <3>2. CASE i # n
      <4>1. tree'[i] = tree[i] /\ taken'[i] = taken[i]
        BY <1>1, <2>2, <2>6, <3>2
      <4> QED  BY <1>1, <4>1 DEF CountsWhatWasTaken
    <3> QED  BY <3>1, <3>2
  <2>9. WellFormed(req)'
    BY <1>1, <2>1 DEF WellFormed
  <2> QED  BY <1>1, <2>1, <2>5, <2>6, <2>7, <2>8, <2>9 DEF StoreInv, ServerPoints
<1>3. CASE ~ Picks
  <2>1. taken' = taken
    BY <1>1, <1>3 DEF Serve
  <2>2. /\ req' = NoMsg /\ spc' = "left" /\ picked' = << >>
        /\ \/ tree' = tree
           \/ SlotIsValid(n, slot) /\ WriteBucketThrows(n, b)
    <3>1. ~ (picked' = Append(picked, SlotData(tree[n], slot)))
      BY <1>1, <1>3 DEF Picks
    <3> QED  BY <3>1 DEF XorSlot, XorNode, XorOffset, Consume, Leave
  <2>3. tree' \in [Nodes -> Buckets \cup {NoBucket}]
    <3>1. CASE SlotIsValid(n, slot) /\ WriteBucketThrows(n, b)
      <4>1. tree[n] \in Buckets
        BY <1>1, <3>1 DEF SlotIsValid, Stored
      <4>2. b \in Buckets
        BY <4>1, InvalidateType
      <4> HIDE DEF n, b
      <4> QED  BY <1>1, <3>1, <4>2, WriteEffect
    <3> QED  BY <1>1, <2>2, <3>1
  <2>4. WellFormed(req)'
    BY <2>2, NoMsgFacts DEF WellFormed
  <2>5. picked' \in Seq(Data)
    BY <2>2
  <2> QED  BY <1>1, <2>1, <2>2, <2>3, <2>4, <2>5 DEF StoreInv, CountsWhatWasTaken, ServerPoints
<1> QED  BY <1>2, <1>3

-----------------------------------------------------------------------------
\* The invariant behind the two promises: while the server serves, what a
\* bucket file says of its slots is what has been handed out of it since it was
\* written, and the sequence of slots read is one of payloads.
THEOREM StoreInvInductive == Spec => []StoreInv
<1>1. Init => StoreInv
  BY InitStoreInv
<1>2. StoreInv /\ [Next]_vars => StoreInv'
  <2> SUFFICES ASSUME StoreInv, [Next]_vars PROVE StoreInv'
    OBVIOUS
  <2>1. CASE Ask \/ TakeReply \/ HangUp
    BY <2>1, ClientKeeps
  <2>2. CASE Serve
    BY <2>2, QuietHandlersKeep, HandleInitKeeps, InitBucketKeeps, HandleWriteBucketKeeps,
       XorSlotKeeps DEF Serve, ServerStep
  <2>3. CASE Owner \/ StopCalled
    BY <2>3, OwnerKeeps
  <2>4. CASE UNCHANGED vars
    BY <2>4, QuietStep DEF vars, serverVars
  <2> QED  BY <2>1, <2>2, <2>3, <2>4 DEF Next, Terminated
<1> QED  BY <1>1, <1>2, PTL DEF Spec

\* The count by which ReadPath decides to reshuffle a bucket is the number of
\* slots the server has handed out since the bucket was written.
THEOREM CountsAreTrue == Spec => []CountsWhatWasTaken
<1>1. StoreInv => CountsWhatWasTaken
  BY DEF StoreInv
<1> QED  BY <1>1, StoreInvInductive, PTL

\* HandleXorPathSlots hands out no slot twice between two writes of its bucket,
\* whatever offsets the client sends.
THEOREM SlotsReadOnce == Spec => NoSlotReadTwice
<1>1. StoreInv /\ [Next]_vars => [Picks => XorOffset \notin taken[XorNode]]_vars
  <2> SUFFICES ASSUME StoreInv, Next, Picks PROVE XorOffset \notin taken[XorNode]
    OBVIOUS
  <2>1. Len(picked) \in Nat
    BY DEF StoreInv
  <2>2. picked' # picked /\ picked' # << >>
    BY <2>1 DEF Picks
  <2>3. Serve
    BY <2>2 DEF Next, Ask, TakeReply, HangUp, ConnectionLost, Owner, StopCalled, Stop,
       StartHandleRequests, DestroyServer, Terminated, vars, serverVars
  <2>4. XorSlot
    BY <2>2, <2>3 DEF Serve, ServerStep, HandleInit, InitBucket, AckInit, HandleReadPathMetadata,
       HandleXorPathSlots, AnswerXor, HandleReadBucket, HandleWriteBucket,
       HandleReadBucketCount, HandleReadStats, HandleQuit, ServerRecvThrows
  <2> QED  BY <2>3, <2>4, SlotTaken
<1> QED  BY <1>1, StoreInvInductive, PTL DEF Spec, NoSlotReadTwice
=============================================================================
