--------------------------- MODULE PathORAMServer ---------------------------
(***************************************************************************)
(* The Path ORAM server: a tree of bucket files and a loop that serves one *)
(* client.  HandleWritePath stores the buckets of a path one at a time, so *)
(* each turn of that loop is a step; the other handlers touch the disk at  *)
(* most once and are one step each.                                        *)
(***************************************************************************)
EXTENDS Tree, Blocks, NetIO

CONSTANTS SizeTModulus,   \* 2^64 in the code: the width of the counters
          Faults          \* what may go wrong: "disk", a bucket file fails to open
                          \* or write; "torn", a failed write may leave some bytes;
                          \* "stop", another thread calls Stop; "network"

ASSUME ServerAssumption ==
    /\ SizeTModulus \in Nat \ {0}
    /\ Faults \subseteq {"disk", "torn", "stop", "network"}

VARIABLES tree,        \* the bucket files; << >> is one missing or without its
                       \* eight bytes of count, Torn one cut off after them
          nodeCount,   \* node_count_: 0 until Init has run
          running,     \* running_
          spc,         \* where the server thread is
          stats        \* request_stats_, by command

serverVars == <<tree, nodeCount, running, spc, stats>>

Commands == {"R", "W", "P", "T"}

\* The thread has constructed the server; waits for a command; is inside
\* HandleWritePath; has left HandleRequests; has destroyed the server.
ServerPoints == {"constructed", "recv", "writing", "left", "destroyed"}

\* The tree that PathORAMServer::Init stores for the given initial blocks.
InitialTree(blocks) ==
    [n \in Nodes |->
        LET leaf == n - LeafOffset
        IN  FillBucketWithDummies(
                IF n >= LeafOffset /\ leaf < Len(blocks) THEN <<blocks[leaf + 1]>> ELSE << >>)]

\* A file cut off after its count stands for no block that can be relied on.
Torn == [k \in 1 .. BucketSize + 1 |-> Dummy]

\* What a write that fails can leave of a file it had opened.
Truncated == {<< >>} \cup (IF "torn" \in Faults THEN {Torn} ELSE {})

\* What WriteBucketToDisk can leave when it returns: it looks at the stream
\* before the destructor flushes it, and nobody sees that flush fail.
Written(bucket) == {bucket} \cup (IF "disk" \in Faults THEN Truncated ELSE {})

\* What writing the buckets of t one after the other can leave.
WrittenTrees(t) ==
    {w \in [Nodes -> UNION {Written(t[n]) : n \in Nodes}] : \A n \in Nodes : w[n] \in Written(t[n])}

\* Mutant: the directory is kept as it is.
NotCleared == tree

\* The directory of the bucket files after remove_all.
Cleared == [n \in Nodes |-> << >>]

\* The constructor: nothing is stored yet.
ConstructServer ==
    /\ tree = [n \in Nodes |-> << >>]
    /\ nodeCount = 0
    /\ running = FALSE
    /\ spc = "constructed"
    /\ stats = [c \in Commands |-> 0]

\* PathORAMServer::Init.  node_count_ is set before the first bucket is written,
\* so an Init that throws half way leaves a server that passes for initialised.
InitServer(blocks) ==
    /\ spc = "constructed"
    /\ Len(blocks) <= NumLeaves
    /\ nodeCount' = NumTreeNodes
    /\ \E written \in WrittenTrees(InitialTree(blocks)) :
         \/ tree' = written
         \/ /\ "disk" \in Faults
            /\ \E failing \in Nodes, left \in Truncated :
                 tree' = [n \in Nodes |-> IF n < failing THEN written[n]
                                         ELSE IF n = failing THEN left
                                         ELSE Cleared[n]]
    /\ UNCHANGED <<running, spc, stats, conn, req, resp>>

\* Init throws before that: remove_all with some files gone, or
\* create_directories with no directory left, which ValidateInitialized refuses
\* as it refuses a server that was never initialised.
InitServerClearFails ==
    /\ spc = "constructed"
    /\ "disk" \in Faults
    /\ \/ /\ \E gone \in SUBSET Nodes :
               tree' = [n \in Nodes |-> IF n \in gone THEN << >> ELSE tree[n]]
          /\ UNCHANGED nodeCount
       \/ tree' = Cleared /\ nodeCount' = 0
    /\ UNCHANGED <<running, spc, stats, conn, req, resp>>

Initialized == nodeCount = NumTreeNodes

\* Bucket n can be read; reading it may throw, or must.
Stored(n)       == n < nodeCount /\ tree[n] # << >>
ReadMayThrow(n) == ~ Stored(n) \/ "disk" \in Faults

\* What ReadBucketFromDisk can return for a stored bucket.  DeserializeBucket
\* reads past the end of a file cut off after its count, whose buckets are
\* whatever the memory there holds.
BucketsRead(n) == IF tree[n] = Torn THEN Buckets ELSE {DeserializeBucket(tree[n])}

\* WriteBucketToDisk returns, or throws with the file as it was or truncated.
WriteBucketToDisk(n, bucket) ==
    /\ n < nodeCount
    /\ \E file \in Written(bucket) : tree' = [tree EXCEPT ![n] = file]

WriteBucketThrows(n) ==
    \/ n >= nodeCount /\ UNCHANGED tree
    \/ /\ n < nodeCount
       /\ "disk" \in Faults
       /\ tree' \in {tree} \cup {[tree EXCEPT ![n] = file] : file \in Truncated}

Count(c) == stats' = [stats EXCEPT ![c] = (@ + 1) % SizeTModulus]

\* Mutant: an exception is logged and the loop goes on, or it looks at no flag.
KeepServing == spc' = "recv" /\ running' = running

\* Every way out of the loop of HandleRequests, and its normal turn.
Leave    == spc' = "left" /\ running' = FALSE
NextTurn == IF running THEN spc' = "recv" /\ UNCHANGED running ELSE Leave

Command(c) == spc = "recv" /\ req.cmd = c
Consume    == req' = NoMsg

\* A request refused before its end has been received leaves the rest in the
\* stream, where the loop would take its first byte for a command.
Rest            == [cmd |-> "rest"]
LeaveRest(part) == req' = IF part = << >> THEN NoMsg ELSE Rest

StartHandleRequests ==
    /\ spc = "constructed"
    /\ running' = TRUE
    /\ spc' = "recv"
    /\ UNCHANGED <<tree, nodeCount, stats, conn, req, resp>>

HandleReadBucket ==
    /\ Command("R")
    /\ Consume
    /\ \/ ~ Initialized /\ Leave /\ UNCHANGED <<stats, resp>>
       \/ /\ Initialized
          /\ Count("R")
          /\ \/ /\ Stored(req.node)
                /\ \E bucket \in BucketsRead(req.node) : SendReply([cmd |-> "bucket", bucket |-> bucket])
                /\ NextTurn
             \/ /\ ReadMayThrow(req.node) \/ MayThrow
                /\ Leave
                /\ UNCHANGED resp
    /\ UNCHANGED <<tree, nodeCount, conn>>

\* There is no acknowledgement, and a request whose end never arrives leaves
\* the bucket alone.
HandleWriteBucket ==
    /\ Command("W")
    /\ \/ ~ Initialized /\ req' = Rest /\ Leave /\ UNCHANGED <<tree, stats>>
       \/ /\ Initialized
          /\ Consume
          /\ Count("W")
          /\ \/ WriteBucketToDisk(req.node, DeserializeBucket(req.bucket)) /\ NextTurn
             \/ WriteBucketThrows(req.node) /\ Leave
             \/ MayThrow /\ Leave /\ UNCHANGED tree
    /\ UNCHANGED <<nodeCount, conn, resp>>

\* A handler that throws part of the way through its answer leaves the client
\* with an answer it can never finish receiving, so no answer is modelled.
HandleReadPath ==
    /\ Command("P")
    /\ \/ /\ \/ ~ Initialized /\ req' = Rest
             \/ Initialized /\ Len(req.path) # TreeHeight + 1 /\ LeaveRest(req.path)
          /\ Leave
          /\ UNCHANGED <<stats, resp>>
       \/ /\ Initialized /\ Len(req.path) = TreeHeight + 1
          /\ Consume
          /\ Count("P")
          /\ \/ /\ \A k \in DOMAIN req.path : Stored(req.path[k])
                /\ \E buckets \in [1 .. Len(req.path) -> UNION {BucketsRead(req.path[k]) : k \in DOMAIN req.path}] :
                     /\ \A k \in DOMAIN req.path : buckets[k] \in BucketsRead(req.path[k])
                     /\ SendReply([cmd |-> "path", buckets |-> buckets])
                /\ NextTurn
             \/ /\ MayThrow \/ \E k \in DOMAIN req.path : ReadMayThrow(req.path[k])
                /\ Leave
                /\ UNCHANGED resp
    /\ UNCHANGED <<tree, nodeCount, conn>>

\* HandleWritePath up to its loop; the entries stay in the stream until read.
HandleWritePath ==
    /\ Command("T")
    /\ \/ /\ Initialized /\ Len(req.entries) = TreeHeight + 1
          /\ spc' = "writing"
          /\ UNCHANGED <<req, running>>
       \/ /\ \/ ~ Initialized /\ req' = Rest
             \/ Initialized /\ Len(req.entries) # TreeHeight + 1 /\ LeaveRest(req.entries)
          /\ Leave
    /\ UNCHANGED <<tree, nodeCount, stats, conn, resp>>

\* Mutant: the count of buckets left to read never goes down.
WritePathBucketForEver ==
    /\ spc = "writing"
    /\ req.entries # << >>
    /\ LET entry == Head(req.entries)
       IN  WriteBucketToDisk(entry.node, DeserializeBucket(entry.bucket))
    /\ UNCHANGED <<nodeCount, running, spc, stats, conn, req, resp>>

\* One turn of its loop.
WritePathBucket ==
    /\ spc = "writing"
    /\ req.entries # << >>
    /\ LET entry == Head(req.entries)
       IN  \/ /\ WriteBucketToDisk(entry.node, DeserializeBucket(entry.bucket))
              /\ req' = [cmd |-> "T", entries |-> Tail(req.entries)]
              /\ UNCHANGED <<spc, running>>
           \/ /\ WriteBucketThrows(entry.node)
              /\ LeaveRest(Tail(req.entries))
              /\ Leave
    /\ UNCHANGED <<nodeCount, stats, conn, resp>>

\* Mutant: the acknowledgement does not wait for the buckets.
AckWritePathEarly ==
    /\ spc = "writing"
    /\ Consume
    /\ Count("T")
    /\ \/ SendReply([cmd |-> "ack"]) /\ NextTurn
       \/ MayThrow /\ Leave /\ UNCHANGED resp
    /\ UNCHANGED <<tree, nodeCount, conn>>

\* The rest of HandleWritePath.
AckWritePath ==
    /\ spc = "writing"
    /\ req.entries = << >>
    /\ Consume
    /\ Count("T")
    /\ \/ SendReply([cmd |-> "ack"]) /\ NextTurn
       \/ MayThrow /\ Leave /\ UNCHANGED resp
    /\ UNCHANGED <<tree, nodeCount, conn>>

HandleQuit ==
    /\ Command("Q")
    /\ Consume
    /\ Leave
    /\ UNCHANGED <<tree, nodeCount, stats, conn, resp>>

\* An unknown command is logged and the loop goes on.
HandleUnknown ==
    /\ spc = "recv"
    /\ req.cmd \notin Commands \cup {"Q", "none"}
    /\ Consume
    /\ NextTurn
    /\ UNCHANGED <<tree, nodeCount, stats, conn, resp>>

\* RecvData throws: end of stream, or a reset that discards what was buffered.
ServerRecvThrows ==
    /\ spc \in {"recv", "writing"}
    /\ MayThrow
    /\ Consume
    /\ Leave
    /\ UNCHANGED <<tree, nodeCount, stats, conn, resp>>

\* Stop is called from another thread; the loop looks at the flag only after
\* a command.
Stop ==
    /\ "stop" \in Faults
    /\ spc \in {"constructed", "recv", "writing"}
    /\ running' = FALSE
    /\ UNCHANGED <<tree, nodeCount, spc, stats, conn, req, resp>>

\* The owner of the server destroys it once HandleRequests has returned; the
\* socket is closed only then.
DestroyServer ==
    /\ spc = "left"
    /\ spc' = "destroyed"
    /\ conn' = "down"
    /\ UNCHANGED <<tree, nodeCount, running, stats, req, resp>>

\* What the thread running HandleRequests does.
ServerStep ==
    \/ HandleReadBucket \/ HandleWriteBucket \/ HandleReadPath
    \/ HandleWritePath \/ WritePathBucket \/ AckWritePath
    \/ HandleQuit \/ HandleUnknown \/ ServerRecvThrows
=============================================================================
