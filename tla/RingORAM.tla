------------------------------ MODULE RingORAM ------------------------------
(***************************************************************************)
(* A Ring ORAM client and server joined by a connection that may be lost   *)
(* at any moment.                                                          *)
(***************************************************************************)
EXTENDS RingORAMServer, RingORAMClient

VARIABLE oracle     \* history: the value last written, as in the tests

vars == <<serverVars, clientVars, conn, req, resp, oracle>>

Init ==
    /\ ConstructServer
    /\ ConstructClient
    /\ conn = "up"
    /\ req = NoMsg
    /\ resp = NoMsg
    /\ oracle = [a \in Addr |-> Zero]

ServerNext ==
    /\ StartHandleRequests \/ ServerStep \/ Stop \/ DestroyServer
    /\ UNCHANGED <<clientVars, oracle>>

\* The oracle follows a write at the step that puts the block in the stash.
ClientNext ==
    /\ \/ /\ \/ \E c \in Calls : Access(c)
             \/ FetchServerStats \/ DestroyClient
             \/ InitializeServerStorage \/ Constructed \/ ConstructorThrows
             \/ SelectOffsets \/ TakeBlock
             \/ RequestBucket \/ ReadBucket \/ WriteBucket \/ BucketWritten
             \/ RequestCount \/ EarlyReshuffle \/ Return \/ StatsFetched \/ RecvThrows
          /\ UNCHANGED oracle
       \/ /\ PutBlock
          /\ oracle' = IF call.op = "WRITE" /\ result' # NoResult
                       THEN [oracle EXCEPT ![call.addr] = call.data] ELSE oracle
    /\ UNCHANGED serverVars

NetworkNext ==
    /\ "network" \in Faults
    /\ ConnectionLost
    /\ UNCHANGED <<serverVars, clientVars, oracle>>

\* Both ends have gone.
Terminated ==
    /\ cpc = "destroyed" /\ spc = "destroyed"
    /\ UNCHANGED vars

Next == ServerNext \/ ClientNext \/ NetworkNext \/ Terminated

Spec == Init /\ [][Next]_vars

\* The threads keep running: a handler, a constructor or a call that can take
\* a step takes it, and a server whose loop has ended is destroyed by the
\* thread that ran it.  Nothing makes the caller call, the network fail or Stop
\* be called.
Fairness ==
    /\ WF_vars(ServerNext /\ (StartHandleRequests \/ ServerStep))
    /\ WF_vars(ServerNext /\ DestroyServer)
    /\ WF_vars(ClientNext /\ CallStep)

FairSpec == Spec /\ Fairness

-----------------------------------------------------------------------------
Block   == [addr : Addr, leaf : Leaves, data : Data]
Entries == [addr : Addr, leaf : Leaves, ptr : Slots, data : Data]

\* The buckets the client writes, their real blocks in slots of their own, and
\* those the server makes of them.
Buckets ==
    {b \in [count : Nat, valids : SUBSET Slots, entries : Seq(Entries)] :
        /\ Len(b.entries) <= Z
        /\ \A i, j \in 1 .. Len(b.entries) : b.entries[i].ptr = b.entries[j].ptr => i = j}

FreshBuckets == {b \in Buckets : b.count = 0 /\ b.valids = Slots}

Requests ==
    {NoMsg, [cmd |-> "S"], [cmd |-> "Q"]}
    \cup [cmd : {"I"}, buckets : {b \in Seq(FreshBuckets) : Len(b) <= NumTreeNodes}]
    \cup [cmd : {"M"}, leaf : Leaves]
    \cup [cmd : {"X"}, leaf : Leaves, offsets : [1 .. TreeHeight + 1 -> Slots]]
    \cup [cmd : {"B", "T"}, node : Nodes]
    \cup [cmd : {"W"}, node : Nodes, bucket : FreshBuckets]

\* The types of the variables: above all, no bucket holds more than Z blocks and
\* no payload is garbage.
TypeOK ==
    /\ tree \in [Nodes -> Buckets \cup {NoBucket}]
    /\ nodeCount \in {0, NumTreeNodes}
    /\ running \in BOOLEAN
    /\ spc \in ServerPoints
    /\ xorReads \in 0 .. SizeTModulus - 1
    /\ lastSlots \in {0, TreeHeight + 1}
    /\ picked \in Seq(Data) /\ Len(picked) <= TreeHeight + 1
    /\ posMap \in [Addr -> Leaves]
    /\ stash = Malformed \/ stash \in Seq(Block)
    /\ round \in 0 .. A - 1
    /\ evictions \in 0 .. SizeTModulus - 1
    /\ readPaths \in 0 .. SizeTModulus - 1
    /\ cpc \in ClientPoints
    /\ call \in Calls \cup {NoCall}
    /\ oldLeaf \in Leaves
    /\ targets \subseteq 1 .. TreeHeight + 1
    /\ block \in Block \cup {NoBlock}
    /\ {reads, writes, checks} \subseteq Seq(Nodes)
    /\ result \in Data \cup {NoResult}
    /\ failed \in BOOLEAN
    /\ conn \in {"up", "down"}
    /\ req \in Requests
    /\ oracle \in [Addr -> Data]

-----------------------------------------------------------------------------
\* The client is between its constructor and its end, the server serves it, no
\* call has thrown, and no file of either side has been lost.  Otherwise the
\* call in progress, or the next one, will throw.
Working ==
    /\ cpc \notin {"build", "init", "destroyed"}
    /\ spc \in {"recv", "xor"} /\ conn = "up"
    /\ ~ failed
    /\ stash # Malformed
    /\ \A n \in Nodes : tree[n] # NoBucket

Among(n, s) == \E k \in 1 .. Len(s) : s[k] = n

\* The buckets the client has read and will write anew: what they hold is old.
Replaced == {n \in Nodes : /\ Among(n, writes) /\ ~ Among(n, reads)
                           /\ ~ (cpc = "ack" /\ n = Head(writes))}

\* What bucket n will hold once the request on its way has been served; NoBucket
\* if the disk has lost it.
Contents(n) ==
    CASE n \in Replaced -> ResetWithBlocks(<< >>, << >>)
      [] cpc = "ack" /\ req.cmd = "W" /\ n = Head(writes) -> req.bucket
      [] cpc = "init" /\ req.cmd = "I" /\ n >= NumTreeNodes - Len(req.buckets) ->
           req.buckets[n + Len(req.buckets) - NumTreeNodes + 1]
      [] OTHER -> tree[n]

Kept == {n \in Nodes : Contents(n) # NoBucket}

\* The slots the server has taken out of the buckets and the client has not
\* yet put together again.
InFlight ==
    IF cpc # "xor" THEN << >> ELSE IF resp.cmd = "xor" THEN resp.slots ELSE picked

\* The copies of an address among the elements of s with an index in K.
CopiesOf(s, K, place, n, a) == {<<place, n, k, s[k].data>> : k \in {j \in K : s[j].addr = a}}

ValidCopies(b, n, a) == CopiesOf(b.entries, ValidReals(b), "tree", n, a)

InStash(a)  == CopiesOf(stash, 1 .. Len(stash), "stash", 0, a)
InHand(a)   == IF block.addr = a /\ call.op = "READ" THEN {<<"hand", 0, 0, block.data>>} ELSE {}
OnTheWay(a) == IF call # NoCall /\ call.addr = a
               THEN {<<"way", 0, k, InFlight[k]>> : k \in targets \cap DOMAIN InFlight} ELSE {}
InTree(a)   == UNION {ValidCopies(Contents(n), n, a) : n \in Kept}

Copies(a) == InStash(a) \cup InHand(a) \cup OnTheWay(a) \cup InTree(a)

\* The block of a write is in hand: what it held before is gone.
Writing(a) == block.addr = a /\ call.op = "WRITE"

\* While nothing has gone wrong an address has one copy in the whole system,
\* with the value last written: in the stash, in a valid slot, or on its way
\* from one to the other.  A slot read twice, a stash that forgets too early or
\* an eviction that leaves a block in two buckets breaks it.
OneCurrentCopy ==
    Working =>
      \A a \in Addr :
        \/ \E c \in Copies(a) : Copies(a) = {c} /\ c[4] = oracle[a]
        \/ Writing(a) /\ Copies(a) = {}

\* A valid block lies in a bucket on the path to the leaf it carries, and that is
\* the leaf of the position map: the old one, until the client has the block.
LeafOf(a) == IF cpc \in {"metadata", "xor"} /\ a = call.addr THEN oldLeaf ELSE posMap[a]

Fits(n, b) ==
    \A i \in ValidReals(b) : /\ ResidesIn[n][b.entries[i].leaf]
                               /\ b.entries[i].leaf = LeafOf(b.entries[i].addr)

BlocksInPlace ==
    /\ \A n \in Kept : Fits(n, Contents(n))
    /\ \A k \in 1 .. Len(stash) : stash[k].leaf = LeafOf(stash[k].addr)

BlocksOnPath == Working => BlocksInPlace

\* A bucket counts the slots read since it was written, and until a call has
\* thrown none is read more than S times, S - 1 between two accesses: there is
\* a dummy left for the next read of each, and Z slots for the next reshuffle.
SlotBudget ==
    \A n \in Nodes : tree[n] # NoBucket =>
      /\ tree[n].count = Cardinality(Slots \ tree[n].valids)
      /\ ~ failed => tree[n].count <= S
      /\ cpc = "idle" /\ Working => tree[n].count < S

\* Where nothing fails nothing is thrown, by the client or by the server: a
\* valid dummy is always found, one slot at most is the block's, a full read
\* can always be padded and the server never sees an invalid slot.
NothingThrows ==
    Faults = {} => ~ failed /\ (spc \in {"left", "destroyed"} => cpc = "destroyed")

\* Every access costs one aggregated read of a whole path, as the two ends
\* count them and the statistics report.
OneXorReadPerAccess ==
    /\ cpc = "idle" /\ Working => xorReads = readPaths
    /\ resp.cmd = "stats" =>
         /\ resp.xorReads = readPaths
         /\ resp.slots # TreeHeight + 1 => resp.slots = 0 /\ readPaths = 0

-----------------------------------------------------------------------------
\* What a call holds between its steps: the block in hand and the loops still
\* to run belong to a point of the call, and a result is there once the block
\* has been put in the stash.  The stash of the constructor is not yet a file.
CallState ==
    /\ cpc = "build" => stash \in Seq(Block)
    /\ cpc \in {"build", "init", "idle", "stats", "destroyed"} => call = NoCall
    /\ cpc \in {"metadata", "xor", "put", "work", "bucket", "ack", "count"} => call \in Calls
    /\ cpc \notin {"work", "bucket", "ack", "count"} =>
         result = NoResult /\ reads = << >> /\ writes = << >> /\ checks = << >>
    /\ cpc \in {"work", "bucket", "ack", "count"} => result \in Data
    /\ IF cpc = "put" THEN block \in Block /\ block.addr = call.addr ELSE block = NoBlock
    /\ cpc = "bucket" => reads # << >>
    /\ cpc = "ack" => reads = << >> /\ writes # << >>
    /\ cpc = "count" => reads = << >> /\ writes = << >> /\ checks # << >>

Waiting(point, cmd, reply) ==
    cpc = point => /\ req = NoMsg \/ (req.cmd = cmd /\ resp = NoMsg)
                   /\ resp = NoMsg \/ resp.cmd = reply

\* At most one message is on its way, and it belongs to the step the client is
\* at.
InStep ==
    /\ cpc # "destroyed"
    /\ cpc \in {"build", "idle", "put", "work"} => req = NoMsg /\ resp = NoMsg
    /\ Waiting("init", "I", "ack") /\ Waiting("metadata", "M", "metadata")
    /\ Waiting("xor", "X", "xor") /\ Waiting("bucket", "B", "bucket")
    /\ Waiting("ack", "W", "ack") /\ Waiting("count", "T", "count")
    /\ Waiting("stats", "S", "stats")
    /\ req.cmd \in {"M", "X"} => req.leaf = oldLeaf
    /\ req.cmd = "B" => req.node = Head(reads)
    /\ req.cmd = "W" => req.node = Head(writes)
    /\ req.cmd = "T" => req.node = Head(checks)

\* Only a lost connection puts the two ends out of step, and then no reply
\* comes any more.
Conversation ==
    /\ \/ InStep
       \/ conn = "down" /\ resp = NoMsg /\ cpc \in {"idle", "metadata", "stats"}
       \/ conn = "down" /\ cpc = "destroyed" /\ resp.cmd \in {"none", "ack"}
    /\ req.cmd = "X" => failed \/ cpc = "xor"
    /\ spc = "init" => req.cmd = "I"
    /\ IF spc = "xor" THEN req.cmd = "X" ELSE picked = << >>

\* A reply still says what the tree holds when the client comes to use it.
RepliesAreTrue ==
    /\ resp.cmd = "metadata" =>
         /\ \A k \in 1 .. TreeHeight + 1 : tree[Paths[oldLeaf][k]] # NoBucket
         /\ resp.buckets = [k \in 1 .. TreeHeight + 1 |-> MetadataFromBucket(tree[Paths[oldLeaf][k]])]
    /\ resp.cmd = "bucket" => resp.bucket = tree[Head(reads)] /\ resp.bucket # NoBucket
    /\ resp.cmd = "count" => tree[Head(checks)] # NoBucket /\ resp.count = tree[Head(checks)].count
    /\ resp.cmd = "ack" /\ cpc = "ack" => tree[Head(writes)] \in FreshBuckets \cup {NoBucket}
    /\ resp.cmd = "stats" =>
         /\ resp.xorReads = readPaths
         /\ resp.slots # TreeHeight + 1 => resp.slots = 0 /\ readPaths = 0

\* While the server takes the slots of a path one by one, those still to be
\* taken are what the client saw in the metadata, and what was taken from a
\* bucket without the block is a zero dummy.
Dummies(slots) == \A k \in 1 .. Len(slots) : k \notin targets => slots[k] = Zero

SlotsAsAsked ==
    cpc = "xor" =>
      /\ req.cmd = "X" =>
           /\ Dummies(picked)
           /\ \A k \in Len(picked) + 1 .. TreeHeight + 1 :
                LET b == tree[Paths[oldLeaf][k]]
                IN  /\ b # NoBucket
                    /\ req.offsets[k] \in BlockOffsets(b, call.addr)
                    /\ k \in targets <=> Targets(b, call.addr) # {}
      /\ resp.cmd = "xor" =>
           resp.slots \in Seq(Data) /\ Len(resp.slots) = TreeHeight + 1 /\ Dummies(resp.slots)

\* The buckets whose last read of the S may just have been used: the rest of the
\* call will write them anew.
AwaitsReshuffle(n) ==
    \/ cpc = "xor" /\ \E k \in 1 .. TreeHeight + 1 :
                         n = Paths[oldLeaf][k] /\ (req.cmd = "X" => k <= Len(picked))
    \/ cpc = "put" /\ Among(n, Paths[oldLeaf])
    \/ cpc \in {"work", "bucket", "ack", "count"} /\ (Among(n, checks) \/ Among(n, writes))

CountInv ==
    \A n \in Nodes : tree[n] # NoBucket =>
      /\ tree[n].count = Cardinality(Slots \ tree[n].valids)
      /\ ~ failed => tree[n].count <= S /\ (tree[n].count = S => AwaitsReshuffle(n))

ReadsCounted ==
    /\ lastSlots = 0 => xorReads = 0
    /\ conn = "up" =>
         IF cpc = "xor" /\ resp.cmd # "xor"
         THEN req.cmd = "X" => (xorReads + 1) % SizeTModulus = readPaths
         ELSE xorReads = readPaths

\* The inductive invariant behind TypeOK, SlotBudget and OneXorReadPerAccess.
IInv ==
    /\ TypeOK /\ CallState /\ Conversation /\ RepliesAreTrue /\ SlotsAsAsked
    /\ CountInv /\ ReadsCounted

\* The loops of a call run over different buckets, and write what they read.
Distinct(s) == \A i, j \in 1 .. Len(s) : s[i] = s[j] => i = j

LoopState == Distinct(reads) /\ Distinct(writes) /\ \A k \in 1 .. Len(reads) : Among(reads[k], writes)

\* Requests that change the tree are made at one point of the client only, and a
\* server that is still there answers.  The constructor has all blocks in its
\* stash, and a call has its own block in hand.
CallInv ==
    /\ req.cmd = "W" => failed \/ cpc = "ack"
    /\ req.cmd = "I" => cpc \in {"init", "destroyed"}
    /\ cpc = "build" =>
         /\ stash = [k \in 1 .. NumBlocks |-> [addr |-> k - 1, leaf |-> posMap[k - 1], data |-> Zero]]
         /\ oracle = [a \in Addr |-> Zero]
    /\ cpc = "put" =>
         /\ block.leaf = posMap[block.addr]
         /\ call.op = "WRITE" => block.data = call.data
    /\ cpc \in {"xor", "ack"} /\ conn = "up" /\ spc \notin {"left", "destroyed"} =>
         req # NoMsg \/ resp # NoMsg

\* No call has thrown, and the request in progress may still be answered: what
\* there is of the blocks can be accounted for.
Accountable ==
    /\ cpc \notin {"build", "destroyed"} /\ ~ failed
    /\ stash # Malformed
    /\ cpc \in {"init", "xor", "ack"} => req # NoMsg \/ resp # NoMsg

\* A bucket lost by the disk was on the path of the address.
OnLostBucket(a) == \E n \in Nodes \ Kept : ResidesIn[n][LeafOf(a)]

\* An address has one copy, with the value last written, unless its block is
\* about to be written or was in a bucket that the disk has lost.
Accounted(a) ==
    /\ \A c \in Copies(a) : Copies(a) = {c} /\ c[4] = oracle[a]
    /\ Copies(a) = {} => Writing(a) \/ OnLostBucket(a)
    /\ Writing(a) => Copies(a) = {}

\* While the slots of a path are read the block is somewhere, and no longer in
\* the buckets the server has been to.
Taken(k) == req.cmd = "X" => k <= Len(picked)

BlockIsTaken ==
    cpc = "xor" =>
      /\ Copies(call.addr) # {}
      /\ \A k \in 1 .. TreeHeight + 1 :
           Taken(k) => LET b == tree[Paths[oldLeaf][k]] IN b = NoBucket \/ Targets(b, call.addr) = {}

CopiesInv == Accountable => BlocksInPlace /\ (\A a \in Addr : Accounted(a)) /\ BlockIsTaken

\* After an exception the connection is gone and stays gone.
ThrowsAreFinal ==
    "stash" \notin Faults =>
      /\ stash # Malformed
      /\ failed => conn = "down" /\ resp = NoMsg /\ cpc \in {"idle", "metadata", "stats", "destroyed"}

\* Where nothing fails the connection is up, the loop runs and the tree is whole
\* once the constructor has its acknowledgement.
Undisturbed ==
    Faults = {} =>
      /\ ~ failed
      /\ cpc # "destroyed" =>
           /\ conn = "up"
           /\ spc \in {"constructed", "recv", "init", "xor"}
           /\ spc # "constructed" => running
      /\ cpc = "init" /\ req.cmd = "I" =>
           IF spc = "init" THEN nodeCount = NumTreeNodes /\ \A n \in Nodes : n < NumTreeNodes - Len(req.buckets) => tree[n] # NoBucket
           ELSE Len(req.buckets) = NumTreeNodes
      /\ cpc \notin {"build", "init", "destroyed"} \/ (cpc = "init" /\ resp # NoMsg) =>
           nodeCount = NumTreeNodes /\ \A n \in Nodes : tree[n] # NoBucket

\* The inductive invariant behind OneCurrentCopy, BlocksOnPath, NothingThrows and
\* the refinement of RAM.
RInv == IInv /\ LoopState /\ CallInv /\ CopiesInv /\ ThrowsAreFinal /\ Undisturbed

\* Seen by its caller, the client is a RAM: reads give the last value written,
\* and once a call has thrown none succeeds again.
Memory == INSTANCE RAM WITH mem <- oracle
RefinesRAM == Memory!RAMSpec

\* What a call returns is the value last written, whatever calls have thrown
\* before it: the tests compare every read with an oracle.
ReadsGiveLastWrite ==
    [][result' # result /\ result' # NoResult => result' = oracle'[call.addr]]_vars

\* A call, and the constructor, return or throw.
CallsEnd == cpc \in {"metadata", "build"} ~> cpc \in {"idle", "destroyed"}

\* Once the client is gone the server thread ends, as the tests' join needs.
ServerEnds == cpc = "destroyed" ~> spc = "destroyed"
=============================================================================
