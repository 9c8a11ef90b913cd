-------------------------- MODULE OnionRingClient ---------------------------
(***************************************************************************)
(* The Onion Ring ORAM client.  It alone knows where the blocks are        *)
(* (idMap) and where they belong (posMap).  A call is split at every       *)
(* message it waits for.                                                   *)
(***************************************************************************)
EXTENDS OnionBuckets, NetIO

CONSTANTS A,           \* accesses per eviction, 0 for never
          NoResult     \* no payload: Access has not computed its result

\* The counters count for as long as anyone cares, as those of 64 bits do.
ASSUME OnionClientAssumption ==
    /\ A \in Nat
    /\ SizeTModulus % NumLeaves = 0
    /\ A # 0 => SizeTModulus % A = 0
    /\ NoResult \notin Data

VARIABLES posMap,        \* pos_map_
          idMap,         \* id_map_: the block of each slot
          accessCount,   \* access_count_
          evictions,     \* eviction_counter_
          cpc,           \* where the client is
          call,          \* the arguments of Access
          oldLeaf,       \* its old_leaf, while it is needed
          picks,         \* its selections, until the block is back in the root
          pathSum,       \* its path_sum, while it is needed
          result,        \* its result, once computed
          todo,          \* the buckets of the path that Evict is not done with
          fetched,       \* the buckets TripletEvict or LeafRefresh has read
          contents,      \* what it writes into buckets, one after the other
          cursor,        \* the bucket of these, and the slot, being written
          failed         \* history: some Access has thrown

clientVars == <<posMap, idMap, accessCount, evictions, cpc, call, oldLeaf, picks, pathSum,
                result, todo, fetched, contents, cursor, failed>>

\* The caller's turn; at work between two messages; waiting for an answer;
\* destroyed.
ClientPoints ==
    {"idle", "select", "place", "retry", "return",
     "sum", "clear", "root", "fetch", "write", "destroyed"}

Calls == [op : {"READ"}, addr : Addr, data : {Zero}] \cup [op : {"WRITE"}, addr : Addr, data : Data]

NoCall  == [op |-> "none"]
NoBlock == -1
Start   == <<1, 1>>

AllDummies == [s \in Slots |-> NoBlock]

ConstructClient ==
    /\ posMap \in [Addr -> Leaves]
    /\ idMap = [n \in Nodes |-> AllDummies]
    /\ accessCount = 0
    /\ evictions = 0
    /\ cpc = "idle"
    /\ call = NoCall
    /\ oldLeaf = 0
    /\ picks = << >>
    /\ pathSum = Zero
    /\ result = NoResult
    /\ todo = << >>
    /\ fetched = << >>
    /\ contents = << >>
    /\ cursor = Start
    /\ failed = FALSE

EndOfCall ==
    /\ cpc' = "idle"
    /\ call' = NoCall
    /\ oldLeaf' = 0
    /\ picks' = << >>
    /\ pathSum' = Zero
    /\ result' = NoResult
    /\ todo' = << >>
    /\ fetched' = << >>
    /\ contents' = << >>
    /\ cursor' = Start

\* An exception leaves Access.  Nothing is rolled back.
Throws == EndOfCall /\ failed' = TRUE

\* FindSlot: the first slot of a bucket with a block; NoSlot, its size, if none.
NoSlot == 0

FindSlot(ids, n, id) == SelectInSeq(ids[n], LAMBDA x : x = id)

\* Mutant: the dummy is looked for first.
DummyOrBlockSlot(ids, n, id) ==
    IF FindSlot(ids, n, NoBlock) # NoSlot THEN FindSlot(ids, n, NoBlock) ELSE FindSlot(ids, n, id)

\* The slot of the block, or else of the first dummy.
BlockOrDummySlot(ids, n, id) ==
    IF FindSlot(ids, n, id) # NoSlot THEN FindSlot(ids, n, id) ELSE FindSlot(ids, n, NoBlock)

Access(c) ==
    /\ cpc = "idle"
    /\ cpc' = "select"
    /\ call' = c
    /\ oldLeaf' = posMap[c.addr]
    /\ \E leaf \in Leaves : posMap' = [posMap EXCEPT ![c.addr] = leaf]
    /\ UNCHANGED <<idMap, accessCount, evictions, picks, pathSum, result, todo, fetched, contents,
                   cursor, failed, conn, req, resp>>

Selections == [k \in 1 .. TreeHeight + 1 |-> BlockOrDummySlot(idMap, Paths[oldLeaf][k], call.addr)]

\* Access up to the wait of FetchPathSum, unless a bucket has no slot to offer.
SelectSlots ==
    /\ cpc = "select"
    /\ IF \A k \in DOMAIN Selections : Selections[k] # NoSlot
       THEN /\ picks' = Selections
            /\ SendRequest([cmd |-> "A", leaf |-> oldLeaf, selections |-> Selections])
            /\ cpc' = "sum"
            /\ UNCHANGED <<call, oldLeaf, pathSum, result, todo, fetched, contents, cursor, failed>>
       ELSE Throws /\ UNCHANGED req
    /\ UNCHANGED <<posMap, idMap, accessCount, evictions, conn, resp>>

TakeSum ==
    /\ cpc = "sum"
    /\ resp.cmd = "sum"
    /\ resp' = NoMsg
    /\ pathSum' = resp.sum
    /\ SendRequest([cmd |-> "C", leaf |-> oldLeaf, selections |-> picks])
    /\ cpc' = "clear"
    /\ UNCHANGED <<posMap, idMap, accessCount, evictions, call, oldLeaf, picks, result, todo,
                   fetched, contents, cursor, failed, conn>>

ExpectAck == resp.cmd = "K"

\* The ids of the path with the selected slots set to dummies.
IdsWithoutPicks ==
    [n \in Nodes |->
        [s \in Slots |->
            IF \E k \in DOMAIN picks : Paths[oldLeaf][k] = n /\ picks[k] = s THEN NoBlock ELSE idMap[n][s]]]

PathCleared ==
    /\ cpc = "clear"
    /\ ExpectAck
    /\ resp' = NoMsg
    /\ idMap' = IdsWithoutPicks
    /\ result' = IF call.op = "WRITE" THEN call.data ELSE pathSum
    /\ oldLeaf' = 0
    /\ pathSum' = Zero
    /\ cpc' = "place"
    /\ UNCHANGED <<posMap, accessCount, evictions, call, picks, todo, fetched, contents, cursor,
                   failed, conn, req>>

\* Evict up to the first wait of its first bucket, the root.
EvictionLeaf == ReverseBits(evictions % NumLeaves, TreeHeight)

Evict ==
    /\ evictions' = (evictions + 1) % SizeTModulus
    /\ todo' = Paths[EvictionLeaf]
    /\ fetched' = << >>
    /\ SendRequest([cmd |-> "R", node |-> 0])
    /\ cpc' = "fetch"

RootSlot == BlockOrDummySlot(idMap, 0, call.addr)

\* The block goes back into the root, after an eviction if there is no room;
\* then once more, and if there is still no room the call throws.
Place ==
    /\ cpc \in {"place", "retry"}
    /\ IF RootSlot # NoSlot
       THEN /\ SendRequest([cmd |-> "U", node |-> 0, slot |-> RootSlot, data |-> result])
            /\ cpc' = "root"
            /\ UNCHANGED <<call, oldLeaf, picks, pathSum, result, todo, fetched, contents, cursor,
                           failed, evictions>>
       ELSE IF cpc = "place"
       THEN Evict /\ UNCHANGED <<call, oldLeaf, picks, pathSum, result, contents, cursor, failed>>
       ELSE Throws /\ UNCHANGED <<req, evictions>>
    /\ UNCHANGED <<posMap, idMap, accessCount, conn, resp>>

\* Mutant: one access late.
EvictionDueLate == A # 0 /\ accessCount % A = 0 /\ accessCount # 0

EvictionDue == A # 0 /\ (accessCount + 1) % A = 0

RootWritten ==
    /\ cpc = "root"
    /\ ExpectAck
    /\ resp' = NoMsg
    /\ idMap' = [idMap EXCEPT ![0][RootSlot] = call.addr]
    /\ accessCount' = (accessCount + 1) % SizeTModulus
    /\ picks' = << >>
    /\ IF EvictionDue THEN Evict ELSE cpc' = "return" /\ UNCHANGED <<evictions, todo, fetched, req>>
    /\ UNCHANGED <<posMap, call, oldLeaf, pathSum, result, contents, cursor, failed, conn>>

-----------------------------------------------------------------------------
\* TripletEvict and LeafRefresh, for the bucket Evict has come to.
Source   == Head(todo)
Involved == IF Len(todo) = 1 THEN <<Source>> ELSE <<Source, 2 * Source + 1, 2 * Source + 2>>
Received == Append(fetched, resp.slots)

\* Mutant: the bit of the root's children, at every level.
GoesRightAtRoot(id) == ShiftRight(posMap[id], TreeHeight - 1) % 2 = 1

GoesRight(id) == ShiftRight(posMap[id], TreeHeight - GetNodeLevel(Source) - 1) % 2 = 1

\* The slots with a block in the k-th bucket involved, and those whose blocks go
\* into the left child and into the right one.
Occupied(k) == {k} \X {s \in Slots : idMap[Involved[k]][s] # NoBlock}
LeftInput   == {p \in Occupied(1) : ~ GoesRight(idMap[Source][p[2]])} \cup Occupied(2)
RightInput  == {p \in Occupied(1) : GoesRight(idMap[Source][p[2]])} \cup Occupied(3)
Overflows   == Len(todo) > 1 /\ (Cardinality(LeftInput) > BucketSlots \/ Cardinality(RightInput) > BucketSlots)

\* Every way to shuffle the contents of some slots, padded with dummies: where
\* the contents of each new slot come from.
Padding == <<0, 0>>

Shuffled(input) ==
    {from \in [Slots -> input \cup {Padding}] :
        \A p \in input : \E s \in Slots : from[s] = p /\ \A t \in Slots : from[t] = p => t = s}

Moved(from) ==
    [s \in Slots |->
        LET p == from[s]
        IN  IF p = Padding THEN [id |-> NoBlock, data |-> Zero]
            ELSE [id |-> idMap[Involved[p[1]]][p[2]], data |-> Received[p[1]][p[2]]]]

\* What the buckets involved will hold, in the order they are written: the two
\* children and then the source, or the leaf with its slots in a new order.
NewContents ==
    IF Len(todo) = 1
    THEN {<<Moved(from)>> : from \in Shuffled({1} \X Slots)}
    ELSE {<<Moved(left), Moved(right), Moved([s \in Slots |-> Padding])>> :
             left \in Shuffled(LeftInput), right \in Shuffled(RightInput)}

\* Mutant: the children are counted from the wrong end.
WriteOrderOffByOne == IF Len(todo) = 1 THEN <<Source>> ELSE <<2 * Source + 2, 2 * Source + 3, Source>>

WriteOrder == IF Len(todo) = 1 THEN <<Source>> ELSE <<2 * Source + 1, 2 * Source + 2, Source>>

\* WriteBackSlot, for a slot of a bucket that is rewritten.
WriteOf(new, k, s) == [cmd |-> "U", node |-> WriteOrder[k], slot |-> s, data |-> new[k][s].data]

\* A bucket arrives.  After the last of those involved their new contents are
\* chosen and the first slot is sent, unless a child would overflow.
TakeBucket ==
    /\ cpc = "fetch"
    /\ resp.cmd = "bucket"
    /\ resp' = NoMsg
    /\ IF Len(Received) < Len(Involved)
       THEN /\ fetched' = Received
            /\ SendRequest([cmd |-> "R", node |-> Involved[Len(Received) + 1]])
            /\ UNCHANGED <<cpc, call, oldLeaf, picks, pathSum, result, todo, contents, cursor, failed>>
       ELSE IF Overflows
       THEN Throws /\ UNCHANGED req
       ELSE /\ \E new \in NewContents : contents' = new /\ SendRequest(WriteOf(new, 1, 1))
            /\ cursor' = Start
            /\ fetched' = << >>
            /\ cpc' = "write"
            /\ UNCHANGED <<call, oldLeaf, picks, pathSum, result, todo, failed>>
    /\ UNCHANGED <<posMap, idMap, accessCount, evictions, conn>>

\* The ids of the buckets that are rewritten, when they are.
InstallIds ==
    [n \in Nodes |->
        IF \E k \in DOMAIN contents : WriteOrder[k] = n
        THEN [s \in Slots |-> contents[CHOOSE k \in DOMAIN contents : WriteOrder[k] = n][s].id]
        ELSE idMap[n]]

NextSlot == IF cursor[2] < BucketSlots THEN <<cursor[1], cursor[2] + 1>> ELSE <<cursor[1] + 1, 1>>

\* A slot has been written.  After the last one the ids are noted, and Evict goes
\* on to the next bucket of its path or is done.
SlotWritten ==
    /\ cpc = "write"
    /\ ExpectAck
    /\ resp' = NoMsg
    /\ \/ /\ cursor # <<Len(contents), BucketSlots>>
          /\ cursor' = NextSlot
          /\ SendRequest(WriteOf(contents, NextSlot[1], NextSlot[2]))
          /\ UNCHANGED <<idMap, cpc, todo, contents>>
       \/ /\ cursor = <<Len(contents), BucketSlots>>
          /\ idMap' = InstallIds
          /\ contents' = << >>
          /\ cursor' = Start
          /\ todo' = Tail(todo)
          /\ IF todo' # << >>
             THEN cpc' = "fetch" /\ SendRequest([cmd |-> "R", node |-> Head(todo')])
             ELSE cpc' = (IF picks = << >> THEN "return" ELSE "retry") /\ UNCHANGED req
    /\ UNCHANGED <<posMap, accessCount, evictions, call, oldLeaf, picks, pathSum, result, fetched,
                   failed, conn>>

-----------------------------------------------------------------------------
Return ==
    /\ cpc = "return"
    /\ EndOfCall
    /\ UNCHANGED <<posMap, idMap, accessCount, evictions, failed, conn, req, resp>>

\* A send or a receive throws.
RecvThrows ==
    /\ cpc \in {"sum", "clear", "root", "fetch", "write"}
    /\ MayThrow
    /\ resp' = NoMsg
    /\ Throws
    /\ UNCHANGED <<posMap, idMap, accessCount, evictions, conn, req>>

\* The destructor tells the server to quit, and the socket is closed.
DestroyClient ==
    /\ cpc = "idle"
    /\ cpc' = "destroyed"
    /\ SendRequest([cmd |-> "Q"])
    /\ conn' = "down"
    /\ UNCHANGED <<posMap, idMap, accessCount, evictions, call, oldLeaf, picks, pathSum, result,
                   todo, fetched, contents, cursor, failed, resp>>
=============================================================================
