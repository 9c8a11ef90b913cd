--------------------------- MODULE RingORAMServer ---------------------------
(***************************************************************************)
(* The Ring ORAM server: a tree of bucket files that knows which slots of  *)
(* each bucket are still valid, and a loop that serves one client.  The    *)
(* initial tree and the slots of a path are handled one bucket at a time,  *)
(* each turn of those loops being a step.                                  *)
(***************************************************************************)
EXTENDS RingBlocks, NetIO

CONSTANT NoBucket    \* bytes that do not parse as a bucket of the right shape

ASSUME RingServerAssumption ==
    NoBucket \notin [count : Nat, valids : SUBSET Slots,
                     entries : Seq([addr : Addr, leaf : Leaves, ptr : Slots, data : Data])]

VARIABLES tree,        \* the bucket files; NoBucket is a missing or truncated one
          nodeCount,   \* node_count_: 0 until HandleInit has run
          running,     \* running_
          spc,         \* where the server thread is
          xorReads,    \* xor_path_read_count_
          lastSlots,   \* last_xor_path_slot_count_
          picked       \* HandleXorPathSlots: the slots read so far

serverVars == <<tree, nodeCount, running, spc, xorReads, lastSlots, picked>>

Commands == {"I", "M", "X", "B", "W", "T", "S"}

ServerPoints == {"constructed", "recv", "init", "xor", "left", "destroyed"}

ConstructServer ==
    /\ tree = [n \in Nodes |-> NoBucket]
    /\ nodeCount = 0
    /\ running = FALSE
    /\ spc = "constructed"
    /\ xorReads = 0
    /\ lastSlots = 0
    /\ picked = << >>

Initialized == nodeCount = NumTreeNodes

\* Bucket n can be read, once the server is initialised.
Stored(n)       == Initialized /\ n \in Nodes /\ tree[n] # NoBucket
ReadMayThrow(n) == ~ Stored(n) \/ "disk" \in Faults

\* Mutant: an exception is swallowed and the loop goes on.
KeepServing == spc' = "recv" /\ running' = running

\* Every way out of the loop of HandleRequests, and its normal turn.
Leave    == spc' = "left" /\ running' = FALSE
NextTurn == IF running THEN spc' = "recv" /\ UNCHANGED running ELSE Leave

Command(c) == spc = "recv" /\ req.cmd = c
Consume    == req' = NoMsg

\* Read handlers: the answer goes out, or something on the way throws.
Answer(m, possible, mayThrow) ==
    /\ Consume
    /\ \/ possible /\ SendReply(m) /\ NextTurn
       \/ (mayThrow \/ MayThrow) /\ Leave /\ UNCHANGED resp

\* WriteBucketToDisk.  A failure to open leaves the file alone and throws; a
\* failure to write truncates it, and throws unless the bucket was still in
\* the stream's buffer, which the destructor flushes without looking back.
Writable(n, b) == n \in Nodes /\ n < nodeCount /\ b # NoBucket

WriteBucketToDisk(n, b) ==
    /\ Writable(n, b)
    /\ \/ tree' = [tree EXCEPT ![n] = b]
       \/ "disk" \in Faults /\ tree' = [tree EXCEPT ![n] = NoBucket]

WriteBucketThrows(n, b) ==
    \/ ~ Writable(n, b) /\ UNCHANGED tree
    \/ /\ Writable(n, b)
       /\ "disk" \in Faults
       /\ tree' \in {tree, [tree EXCEPT ![n] = NoBucket]}

StartHandleRequests ==
    /\ spc = "constructed"
    /\ running' = TRUE
    /\ spc' = "recv"
    /\ UNCHANGED <<tree, nodeCount, xorReads, lastSlots, picked, conn, req, resp>>

\* HandleInit up to its loop: the old tree is removed, and the server passes
\* for initialised from here on.
HandleInit ==
    /\ Command("I")
    /\ \/ /\ Len(req.buckets) = NumTreeNodes
          /\ tree' = [n \in Nodes |-> NoBucket]
          /\ nodeCount' = NumTreeNodes
          /\ spc' = "init"
          /\ UNCHANGED <<running, req>>
       \/ /\ Len(req.buckets) # NumTreeNodes
          /\ Consume
          /\ Leave
          /\ UNCHANGED <<tree, nodeCount>>
    /\ UNCHANGED <<xorReads, lastSlots, picked, conn, resp>>

\* One turn of its loop: the buckets come in the order of the nodes.
InitBucket ==
    /\ spc = "init"
    /\ req.buckets # << >>
    /\ LET n == NumTreeNodes - Len(req.buckets)
           b == Head(req.buckets)
       IN  \/ /\ WriteBucketToDisk(n, b)
              /\ req' = [cmd |-> "I", buckets |-> Tail(req.buckets)]
              /\ UNCHANGED <<spc, running>>
           \/ /\ WriteBucketThrows(n, b)
              /\ Consume
              /\ Leave
    /\ UNCHANGED <<nodeCount, xorReads, lastSlots, picked, conn, resp>>

AckInit ==
    /\ spc = "init"
    /\ req.buckets = << >>
    /\ Answer([cmd |-> "ack"], TRUE, FALSE)
    /\ UNCHANGED <<tree, nodeCount, xorReads, lastSlots, picked, conn>>

HandleReadPathMetadata ==
    /\ Command("M")
    /\ IF req.leaf \in Leaves
       THEN LET path == Paths[req.leaf]
            IN  Answer([cmd     |-> "metadata",
                        buckets |-> [k \in DOMAIN path |-> MetadataFromBucket(tree[path[k]])]],
                       \A k \in DOMAIN path : Stored(path[k]),
                       \E k \in DOMAIN path : ReadMayThrow(path[k]))
       ELSE Consume /\ Leave /\ UNCHANGED resp
    /\ UNCHANGED <<tree, nodeCount, xorReads, lastSlots, picked, conn>>

\* HandleXorPathSlots up to its loop; the request stays in hand until answered.
HandleXorPathSlots ==
    /\ Command("X")
    /\ IF Initialized /\ req.leaf \in Leaves /\ Len(req.offsets) = TreeHeight + 1
       THEN spc' = "xor" /\ UNCHANGED <<running, req>>
       ELSE Consume /\ Leave
    /\ picked' = << >>
    /\ UNCHANGED <<tree, nodeCount, xorReads, lastSlots, conn, resp>>

\* Mutant: any slot will do.
AnySlot(n, slot) == Stored(n) /\ slot \in Slots

SlotIsValid(n, slot) == Stored(n) /\ slot \in tree[n].valids

\* Mutant: the loop does not move on.
XorSlotAgain ==
    /\ spc = "xor"
    /\ Len(picked) < TreeHeight + 1
    /\ SlotIsValid(Paths[req.leaf][1], req.offsets[1])
    /\ UNCHANGED <<tree, nodeCount, running, spc, xorReads, lastSlots, picked, conn, req, resp>>

\* One turn of its loop: a valid slot is taken and marked invalid on disk.
XorSlot ==
    /\ spc = "xor"
    /\ Len(picked) < TreeHeight + 1
    /\ LET n    == Paths[req.leaf][Len(picked) + 1]
           slot == req.offsets[Len(picked) + 1]
       IN  \/ /\ SlotIsValid(n, slot)
              /\ WriteBucketToDisk(n, Invalidate(tree[n], slot))
              /\ picked' = Append(picked, SlotData(tree[n], slot))
              /\ UNCHANGED <<spc, running, req>>
           \/ /\ \/ (ReadMayThrow(n) \/ ~ SlotIsValid(n, slot)) /\ UNCHANGED tree
                 \/ SlotIsValid(n, slot) /\ WriteBucketThrows(n, Invalidate(tree[n], slot))
              /\ Consume
              /\ Leave
              /\ picked' = << >>
    /\ UNCHANGED <<nodeCount, xorReads, lastSlots, conn, resp>>

CountXorRead == xorReads' = (xorReads + 1) % SizeTModulus

\* The rest: the aggregate and the initialisation vectors, from which the client
\* can take the slots apart again, are sent as the sequence of slots.
AnswerXor ==
    /\ spc = "xor"
    /\ Len(picked) = TreeHeight + 1
    /\ CountXorRead
    /\ lastSlots' = Len(picked)
    /\ picked' = << >>
    /\ Answer([cmd |-> "xor", slots |-> picked], TRUE, FALSE)
    /\ UNCHANGED <<tree, nodeCount, conn>>

HandleReadBucket ==
    /\ Command("B")
    /\ Answer([cmd |-> "bucket", bucket |-> IF req.node \in Nodes THEN tree[req.node] ELSE NoBucket],
              Stored(req.node), ReadMayThrow(req.node))
    /\ UNCHANGED <<tree, nodeCount, xorReads, lastSlots, picked, conn>>

HandleWriteBucket ==
    /\ Command("W")
    /\ \/ /\ Initialized
          /\ WriteBucketToDisk(req.node, req.bucket)
          /\ Answer([cmd |-> "ack"], TRUE, FALSE)
       \/ /\ IF Initialized THEN WriteBucketThrows(req.node, req.bucket) ELSE UNCHANGED tree
          /\ Consume
          /\ Leave
          /\ UNCHANGED resp
    /\ UNCHANGED <<nodeCount, xorReads, lastSlots, picked, conn>>

HandleReadBucketCount ==
    /\ Command("T")
    /\ Answer([cmd |-> "count", count |-> IF Stored(req.node) THEN tree[req.node].count ELSE 0],
              Stored(req.node), ReadMayThrow(req.node))
    /\ UNCHANGED <<tree, nodeCount, xorReads, lastSlots, picked, conn>>

HandleReadStats ==
    /\ Command("S")
    /\ Answer([cmd |-> "stats", xorReads |-> xorReads, slots |-> lastSlots], TRUE, FALSE)
    /\ UNCHANGED <<tree, nodeCount, xorReads, lastSlots, picked, conn>>

\* A request to quit, or one of an unknown kind, which throws.
HandleQuit ==
    /\ spc = "recv"
    /\ req.cmd \notin Commands \cup {"none"}
    /\ Consume
    /\ Leave
    /\ UNCHANGED <<tree, nodeCount, xorReads, lastSlots, picked, conn, resp>>

\* RecvData throws: end of stream, or a reset that discards what was buffered.
\* HandleXorPathSlots has its whole request before its loop starts.
ServerRecvThrows ==
    /\ spc \in {"recv", "init"}
    /\ MayThrow
    /\ Consume
    /\ Leave
    /\ UNCHANGED <<tree, nodeCount, xorReads, lastSlots, picked, conn, resp>>

\* Stop is called from another thread; the loop looks at the flag only after
\* a command.
Stop ==
    /\ "stop" \in Faults
    /\ spc \in {"constructed", "recv", "init", "xor"}
    /\ running' = FALSE
    /\ UNCHANGED <<tree, nodeCount, spc, xorReads, lastSlots, picked, conn, req, resp>>

\* The thread that ran HandleRequests destroys the server, and the socket is
\* closed.
DestroyServer ==
    /\ spc = "left"
    /\ spc' = "destroyed"
    /\ conn' = "down"
    /\ UNCHANGED <<tree, nodeCount, running, xorReads, lastSlots, picked, req, resp>>

ServerStep ==
    \/ HandleInit \/ InitBucket \/ AckInit
    \/ HandleReadPathMetadata \/ HandleXorPathSlots \/ XorSlot \/ AnswerXor
    \/ HandleReadBucket \/ HandleWriteBucket \/ HandleReadBucketCount
    \/ HandleReadStats \/ HandleQuit \/ ServerRecvThrows
=============================================================================
