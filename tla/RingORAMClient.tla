--------------------------- MODULE RingORAMClient ---------------------------
(***************************************************************************)
(* The Ring ORAM client.  A call is split at every message it sends or     *)
(* waits for and at every write of the stash file, which is the only stash *)
(* there is: each helper loads it, changes it and saves it again.          *)
(***************************************************************************)
EXTENDS RingBlocks, NetIO, SequencesExt

CONSTANTS A,             \* accesses per eviction
          Malformed,     \* a stash file that does not parse
          Garbage,       \* a payload decrypted with the wrong keystream
          NoResult       \* no payload: Access has not computed its result

ASSUME RingClientAssumption ==
    /\ A \in Nat \ {0}
    /\ SizeTModulus % NumLeaves = 0
    /\ NoResult \notin Data /\ Garbage \notin Data
    /\ Malformed \notin Seq([addr : Addr, leaf : Leaves, data : Data])

VARIABLES posMap,       \* position_map_
          stash,        \* the stash file
          round,        \* round_
          evictions,    \* eviction_counter_
          readPaths,    \* read_path_count_
          cpc,          \* where the client is
          call,         \* the arguments of Access
          oldLeaf,      \* its old_leaf
          targets,      \* ReadPath's target_flags, as indices into the path
          block,        \* its block, between leaving and re-entering the stash
          reads,        \* the buckets EvictPath or EarlyReshuffle will read,
          writes,       \* then write,
          checks,       \* and those EarlyReshuffle will then ask about
          result,       \* the result of Access, once computed
          failed        \* history: some Access has thrown

clientVars == <<posMap, stash, round, evictions, readPaths, cpc, call, oldLeaf, targets,
                block, reads, writes, checks, result, failed>>

\* Inside the constructor; the caller's turn; at work between two messages;
\* with the block in hand; waiting for an answer; destroyed.
ClientPoints ==
    {"build", "init", "idle", "work", "put",
     "metadata", "xor", "bucket", "ack", "count", "stats", "destroyed"}

Calls == [op : {"READ"}, addr : Addr, data : {Zero}] \cup [op : {"WRITE"}, addr : Addr, data : Data]

NoCall  == [op |-> "none"]
NoBlock == [addr |-> -1]

\* The constructor as far as position map and stash, every block in it.
ConstructClient ==
    /\ posMap \in [Addr -> Leaves]
    /\ stash = [k \in 1 .. NumBlocks |-> [addr |-> k - 1, leaf |-> posMap[k - 1], data |-> Zero]]
    /\ round = 0
    /\ evictions = 0
    /\ readPaths = 0
    /\ cpc = "build"
    /\ call = NoCall
    /\ oldLeaf = 0
    /\ targets = {}
    /\ block = NoBlock
    /\ reads = << >>
    /\ writes = << >>
    /\ checks = << >>
    /\ result = NoResult
    /\ failed = FALSE

\* LoadStashFromDisk succeeds.
Loaded == stash # Malformed

\* SaveStashToDisk returns; what was still in the stream's buffer may be lost.
SaveStash(s) == stash' = s \/ ("stash" \in Faults /\ stash' = Malformed)

\* Loading or saving the stash throws.
StashThrows == IF Loaded THEN "stash" \in Faults /\ stash' \in {stash, Malformed} ELSE UNCHANGED stash

EndOfCall ==
    /\ cpc' = "idle"
    /\ call' = NoCall
    /\ oldLeaf' = 0
    /\ targets' = {}
    /\ block' = NoBlock
    /\ reads' = << >>
    /\ writes' = << >>
    /\ checks' = << >>
    /\ result' = NoResult

\* An exception leaves Access.  Nothing is rolled back.
Throws == EndOfCall /\ failed' = TRUE

\* BuildInitialPlainTree: the stash before each bucket is filled, the last
\* node first, and the buckets, given where their blocks go.
Remaining ==
    LET r[k \in 0 .. NumTreeNodes] ==
          IF k = 0 THEN stash ELSE Unselected(r[k - 1], NumTreeNodes - k)
    IN  r

InitialBlocks(n) == Selected(Remaining[NumTreeNodes - 1 - n], n)

InitialLayouts ==
    {ptrs \in [Nodes -> UNION {Layouts(InitialBlocks(n)) : n \in Nodes}] :
        \A n \in Nodes : ptrs[n] \in Layouts(InitialBlocks(n))}

InitializeServerStorage ==
    /\ cpc = "build"
    /\ cpc' = "init"
    /\ \E ptrs \in InitialLayouts :
          SendRequest([cmd     |-> "I",
                       buckets |-> [k \in 1 .. NumTreeNodes |-> ResetWithBlocks(InitialBlocks(k - 1), ptrs[k - 1])]])
    /\ SaveStash(Remaining[NumTreeNodes])
    /\ UNCHANGED <<posMap, round, evictions, readPaths, call, oldLeaf, targets, block,
                   reads, writes, checks, result, failed, conn, resp>>

\* Mutant: the acknowledgement is not waited for.
ExpectNothing == TRUE

ExpectAck == resp.cmd = "ack"

\* The constructor returns.
Constructed ==
    /\ cpc = "init"
    /\ ExpectAck
    /\ resp' = NoMsg
    /\ cpc' = "idle"
    /\ UNCHANGED <<posMap, stash, round, evictions, readPaths, call, oldLeaf, targets, block,
                   reads, writes, checks, result, failed, conn, req>>

\* The constructor throws; the socket it had opened is closed.
ConstructorThrows ==
    /\ \/ cpc = "build" /\ StashThrows
       \/ cpc = "init" /\ MayThrow /\ UNCHANGED stash
    /\ cpc' = "destroyed"
    /\ conn' = "down"
    /\ UNCHANGED <<posMap, round, evictions, readPaths, call, oldLeaf, targets, block,
                   reads, writes, checks, result, failed, req, resp>>

\* Access up to the wait of FetchPathMetadata.
Access(c) ==
    /\ cpc = "idle"
    /\ cpc' = "metadata"
    /\ call' = c
    /\ oldLeaf' = posMap[c.addr]
    /\ \E leaf \in Leaves : posMap' = [posMap EXCEPT ![c.addr] = leaf]
    /\ SendRequest([cmd |-> "M", leaf |-> oldLeaf'])
    /\ UNCHANGED <<stash, round, evictions, readPaths, targets, block, reads, writes, checks,
                   result, failed, conn, resp>>

\* The rest of ReadPath, up to the wait of FetchXorPath: one slot of each
\* bucket, the block's if it is there, else a random dummy, if there is one.
SelectOffsets ==
    /\ cpc = "metadata"
    /\ resp.cmd = "metadata"
    /\ resp' = NoMsg
    /\ LET slots == [k \in DOMAIN resp.buckets |-> BlockOffsets(resp.buckets[k], call.addr)]
       IN  \/ /\ \E offsets \in [DOMAIN slots -> Slots] :
                    /\ \A k \in DOMAIN slots : offsets[k] \in slots[k]
                    /\ SendRequest([cmd |-> "X", leaf |-> oldLeaf, offsets |-> offsets])
              /\ targets' = {k \in DOMAIN slots : Targets(resp.buckets[k], call.addr) # {}}
              /\ readPaths' = (readPaths + 1) % SizeTModulus
              /\ cpc' = "xor"
              /\ UNCHANGED <<call, oldLeaf, block, reads, writes, checks, result, failed>>
           \/ /\ \E k \in DOMAIN slots : slots[k] = {}
              /\ Throws
              /\ UNCHANGED <<readPaths, req>>
    /\ UNCHANGED <<posMap, stash, round, evictions, conn>>

\* Mutant: the dummies stay in the aggregate.
DecryptedAggregate(slots) == IF Len(slots) = 1 THEN slots[1] ELSE Garbage

\* FetchXorPath takes the dummies out of the aggregate again: what is left
\* decrypts if every other slot was a zero dummy.
Decrypted(slots) ==
    LET k == CHOOSE i \in targets : TRUE
    IN  IF \A j \in DOMAIN slots \ {k} : slots[j] = Zero THEN slots[k] ELSE Garbage

\* Mutant: the block keeps the leaf it had.
BlockWithOldLeaf(data) == [addr |-> call.addr, leaf |-> oldLeaf, data |-> data]

\* The block as it will be put in the stash.
AccessedBlock(data) ==
    [addr |-> call.addr, leaf |-> posMap[call.addr],
     data |-> IF call.op = "WRITE" THEN call.data ELSE data]

\* Access has its block: from the path, from the stash, or a fresh one.
TakeBlock ==
    /\ cpc = "xor"
    /\ resp.cmd = "xor"
    /\ resp' = NoMsg
    /\ LET mine == {k \in 1 .. Len(stash) : stash[k].addr = call.addr}
           data == IF targets # {} THEN Decrypted(resp.slots)
                   ELSE IF mine # {} THEN stash[CHOOSE k \in mine : \A j \in mine : k <= j].data
                   ELSE Zero
       IN  \/ /\ Cardinality(targets) <= 1
              /\ Loaded
              /\ IF mine # {} THEN SaveStash(Without(stash, call.addr)) ELSE UNCHANGED stash
              /\ block' = AccessedBlock(data)
              /\ cpc' = "put"
              /\ UNCHANGED <<call, oldLeaf, targets, reads, writes, checks, result, failed>>
           \/ /\ \/ Cardinality(targets) > 1 /\ UNCHANGED stash
                 \/ Cardinality(targets) <= 1 /\ ~ Loaded /\ UNCHANGED stash
                 \/ Cardinality(targets) <= 1 /\ Loaded /\ mine # {} /\ StashThrows
              /\ Throws
    /\ UNCHANGED <<posMap, round, evictions, readPaths, conn, req>>

EvictionLeaf == evictions % NumLeaves

\* PutBlockInStash and what decides whether this access evicts; EvictPath
\* takes its leaf from a counter.
PutBlock ==
    /\ cpc = "put"
    /\ \/ /\ Loaded
          /\ SaveStash(Put(stash, block))
          /\ cpc' = "work"
          /\ block' = NoBlock
          /\ result' = block.data
          /\ checks' = Paths[oldLeaf]
          /\ round' = (round + 1) % A
          /\ IF round' = 0
             THEN /\ evictions' = (evictions + 1) % SizeTModulus
                  /\ reads' = Paths[EvictionLeaf]
                  /\ writes' = Reverse(Paths[EvictionLeaf])
             ELSE UNCHANGED <<evictions, reads, writes>>
          /\ UNCHANGED <<call, oldLeaf, targets, failed>>
       \/ /\ StashThrows
          /\ Throws
          /\ UNCHANGED <<round, evictions>>
    /\ UNCHANGED <<posMap, readPaths, conn, req, resp>>

RequestBucket ==
    /\ cpc = "work"
    /\ reads # << >>
    /\ cpc' = "bucket"
    /\ SendRequest([cmd |-> "B", node |-> Head(reads)])
    /\ UNCHANGED <<posMap, stash, round, evictions, readPaths, call, oldLeaf, targets, block,
                   reads, writes, checks, result, failed, conn, resp>>

\* The stash after the first k blocks of a bucket have been put in it.
StashAfter(blocks, k) ==
    LET s[j \in 0 .. k] == IF j = 0 THEN stash ELSE Put(s[j - 1], blocks[j])
    IN  s[k]

\* The rest of ReadBucket: the blocks that are still valid go to the stash,
\* one save each, and dummies make the read up to Z slots.
ReadBucket ==
    /\ cpc = "bucket"
    /\ resp.cmd = "bucket"
    /\ resp' = NoMsg
    /\ LET blocks == BlocksRead(resp.bucket)
           all    == Len(blocks)
       IN  \/ /\ PadsToZ(resp.bucket)
              /\ IF blocks = << >> THEN UNCHANGED stash
                 ELSE Loaded /\ SaveStash(StashAfter(blocks, all))
              /\ cpc' = "work"
              /\ reads' = Tail(reads)
              /\ UNCHANGED <<call, oldLeaf, targets, block, writes, checks, result, failed>>
           \/ /\ \/ blocks # << >> /\ ~ Loaded /\ UNCHANGED stash
                 \/ blocks # << >> /\ Loaded /\ "stash" \in Faults
                       /\ \E k \in 0 .. all - 1 : stash' \in {StashAfter(blocks, k), Malformed}
                 \/ ~ PadsToZ(resp.bucket)
                       /\ IF blocks = << >> THEN UNCHANGED stash
                          ELSE Loaded /\ stash' = StashAfter(blocks, all)
              /\ Throws
    /\ UNCHANGED <<posMap, round, evictions, readPaths, conn, req>>

\* WriteBucket up to the wait of ExpectAck: the stash file has lost the blocks
\* before the server has them.
WriteBucket ==
    /\ cpc = "work"
    /\ reads = << >> /\ writes # << >>
    /\ LET n == Head(writes)
       IN  \/ /\ Loaded
              /\ \E ptrs \in Layouts(Selected(stash, n)) :
                    SendRequest([cmd    |-> "W",
                                 node   |-> n,
                                 bucket |-> ResetWithBlocks(Selected(stash, n), ptrs)])
              /\ SaveStash(Unselected(stash, n))
              /\ cpc' = "ack"
              /\ UNCHANGED <<call, oldLeaf, targets, block, reads, writes, checks, result, failed>>
           \/ /\ StashThrows
              /\ Throws
              /\ UNCHANGED req
    /\ UNCHANGED <<posMap, round, evictions, readPaths, conn, resp>>

BucketWritten ==
    /\ cpc = "ack"
    /\ ExpectAck
    /\ resp' = NoMsg
    /\ cpc' = "work"
    /\ writes' = Tail(writes)
    /\ UNCHANGED <<posMap, stash, round, evictions, readPaths, call, oldLeaf, targets, block,
                   reads, checks, result, failed, conn, req>>

\* EarlyReshuffle asks for the count of the next bucket of the path just read.
RequestCount ==
    /\ cpc = "work"
    /\ reads = << >> /\ writes = << >> /\ checks # << >>
    /\ cpc' = "count"
    /\ SendRequest([cmd |-> "T", node |-> Head(checks)])
    /\ UNCHANGED <<posMap, stash, round, evictions, readPaths, call, oldLeaf, targets, block,
                   reads, writes, checks, result, failed, conn, resp>>

\* Mutant: one read too many is let through.
ReshuffleTooLate(count) == count > S

NeedsReshuffle(count) == count >= S

\* A bucket that has been read S times is read and written anew.
EarlyReshuffle ==
    /\ cpc = "count"
    /\ resp.cmd = "count"
    /\ resp' = NoMsg
    /\ cpc' = "work"
    /\ IF NeedsReshuffle(resp.count) THEN reads' = <<Head(checks)>> /\ writes' = <<Head(checks)>>
       ELSE UNCHANGED <<reads, writes>>
    /\ checks' = Tail(checks)
    /\ UNCHANGED <<posMap, stash, round, evictions, readPaths, call, oldLeaf, targets, block,
                   result, failed, conn, req>>

Return ==
    /\ cpc = "work"
    /\ reads = << >> /\ writes = << >> /\ checks = << >>
    /\ EndOfCall
    /\ UNCHANGED <<posMap, stash, round, evictions, readPaths, failed, conn, req, resp>>

\* ServerXorPathReadCount and ServerLastXorPathSlotCount.
FetchServerStats ==
    /\ cpc = "idle"
    /\ cpc' = "stats"
    /\ SendRequest([cmd |-> "S"])
    /\ UNCHANGED <<posMap, stash, round, evictions, readPaths, call, oldLeaf, targets, block,
                   reads, writes, checks, result, failed, conn, resp>>

\* FetchServerStats returns or throws.
StatsFetched ==
    /\ cpc = "stats"
    /\ resp.cmd = "stats" \/ MayThrow
    /\ resp' = NoMsg
    /\ cpc' = "idle"
    /\ UNCHANGED <<posMap, stash, round, evictions, readPaths, call, oldLeaf, targets, block,
                   reads, writes, checks, result, failed, conn, req>>

\* An exception of NetIO leaves Access.
RecvThrows ==
    /\ cpc \in {"metadata", "xor", "bucket", "ack", "count"}
    /\ MayThrow
    /\ resp' = NoMsg
    /\ Throws
    /\ UNCHANGED <<posMap, stash, round, evictions, readPaths, conn, req>>

\* The destructor tells the server to quit, and the socket is closed.
DestroyClient ==
    /\ cpc = "idle"
    /\ cpc' = "destroyed"
    /\ SendRequest([cmd |-> "Q"])
    /\ conn' = "down"
    /\ UNCHANGED <<posMap, stash, round, evictions, readPaths, call, oldLeaf, targets, block,
                   reads, writes, checks, result, failed, resp>>

\* What the client does once its constructor or a call has been entered.
CallStep ==
    \/ InitializeServerStorage \/ Constructed \/ ConstructorThrows
    \/ SelectOffsets \/ TakeBlock \/ PutBlock
    \/ RequestBucket \/ ReadBucket \/ WriteBucket \/ BucketWritten
    \/ RequestCount \/ EarlyReshuffle \/ Return \/ StatsFetched \/ RecvThrows
=============================================================================
