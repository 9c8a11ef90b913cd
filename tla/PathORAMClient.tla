--------------------------- MODULE PathORAMClient ---------------------------
(***************************************************************************)
(* The Path ORAM client.  Access is one call split at the points where it  *)
(* waits for the server and at the turns of its two loops: over the        *)
(* buckets of the path it read, and over the stash it evicts.              *)
(***************************************************************************)
EXTENDS Tree, Blocks, NetIO

CONSTANT NoResult      \* no payload: Access has not computed its result

ASSUME ClientAssumption == NoResult \notin Data

VARIABLES posMap,       \* position_map_
          stash,        \* stash_
          cpc,          \* where Access is
          call,         \* its arguments
          oldLeaf,      \* its old_leaf
          incoming,     \* ReadPath's path_buckets not yet moved to the stash
          rest,         \* EvictBlocksToPath's stash_copy not yet visited
          pathBuckets,  \* WritePath's path_buckets, by distance from the leaf
          result,       \* its result, once computed
          failed        \* history: some Access has thrown

clientVars == <<posMap, stash, cpc, call, oldLeaf, incoming, rest, pathBuckets, result, failed>>

\* The caller's turn; waiting for the path; moving it to the stash; evicting;
\* waiting for the acknowledgement; destroyed.
ClientPoints == {"idle", "readPath", "push", "evict", "writePath", "destroyed"}

Calls == [op : {"READ"}, addr : Addr, data : {Zero}] \cup [op : {"WRITE"}, addr : Addr, data : Data]

NoCall   == [op |-> "none"]
NoPath   == [i \in Levels |-> << >>]

\* The constructor, InitializePositionMap having replaced the random positions
\* or not.
ConstructClient(positions) ==
    /\ posMap = positions
    /\ stash = << >>
    /\ cpc = "idle"
    /\ call = NoCall
    /\ oldLeaf = 0
    /\ incoming = << >>
    /\ rest = << >>
    /\ pathBuckets = NoPath
    /\ result = NoResult
    /\ failed = FALSE

\* Mutant: the leaf is looked up after the remapping.
AccessLooksUpTooLate(c) ==
    /\ cpc = "idle"
    /\ cpc' = "readPath"
    /\ call' = c
    /\ \E leaf \in Leaves : posMap' = [posMap EXCEPT ![c.addr] = leaf]
    /\ oldLeaf' = posMap'[c.addr]
    /\ SendRequest([cmd |-> "P", path |-> GetPathIndices(oldLeaf')])
    /\ UNCHANGED <<stash, incoming, rest, pathBuckets, result, failed, conn, resp>>

\* Steps 1 and 2 of Access, and the request of step 3.
Access(c) ==
    /\ cpc = "idle"
    /\ cpc' = "readPath"
    /\ call' = c
    /\ oldLeaf' = posMap[c.addr]
    /\ \E leaf \in Leaves : posMap' = [posMap EXCEPT ![c.addr] = leaf]
    /\ SendRequest([cmd |-> "P", path |-> GetPathIndices(oldLeaf')])
    /\ UNCHANGED <<stash, incoming, rest, pathBuckets, result, failed, conn, resp>>

\* ReadPathFromServer returns.
ReadPathFromServer ==
    /\ cpc = "readPath"
    /\ resp.cmd = "path"
    /\ Len(resp.buckets) = TreeHeight + 1
    /\ cpc' = "push"
    /\ incoming' = [k \in 1 .. Len(resp.buckets) |-> DeserializeBucket(resp.buckets[k])]
    /\ resp' = NoMsg
    /\ UNCHANGED <<posMap, stash, call, oldLeaf, rest, pathBuckets, result, failed, conn, req>>

\* ReadPath: the real blocks of the next bucket join the stash.
ReadPath ==
    /\ cpc = "push"
    /\ incoming # << >>
    /\ stash' = stash \o WithoutId(Head(incoming), DummyId)
    /\ incoming' = Tail(incoming)
    /\ UNCHANGED <<posMap, cpc, call, oldLeaf, rest, pathBuckets, result, failed, conn, req, resp>>

\* Mutant: a write does not remove the old block first.
AccessStashKeepsOld ==
    /\ cpc = "push"
    /\ incoming = << >>
    /\ cpc' = "evict"
    /\ \/ /\ call.op = "READ"
          /\ result' = DataOf(stash, call.addr)
          /\ rest' = stash
       \/ /\ call.op = "WRITE"
          /\ result' = call.data
          /\ rest' = Append(stash, [id |-> call.addr, data |-> call.data])
    /\ stash' = << >>
    /\ UNCHANGED <<posMap, call, oldLeaf, incoming, pathBuckets, failed, conn, req, resp>>

\* Step 4 of Access, and the start of EvictBlocksToPath, which works on a copy
\* of the stash it has emptied.
AccessStash ==
    /\ cpc = "push"
    /\ incoming = << >>
    /\ cpc' = "evict"
    /\ \/ /\ call.op = "READ"
          /\ result' = DataOf(stash, call.addr)
          /\ rest' = stash
       \/ /\ call.op = "WRITE"
          /\ result' = call.data
          /\ rest' = Append(WithoutId(stash, call.addr), [id |-> call.addr, data |-> call.data])
    /\ stash' = << >>
    /\ UNCHANGED <<posMap, call, oldLeaf, incoming, pathBuckets, failed, conn, req, resp>>

\* The buckets of the path that can take a block mapped to the given leaf.
Fits(leaf) ==
    {i \in Levels : Len(pathBuckets[i]) < BucketSize /\ CanPlaceInBucket(leaf, oldLeaf, i)}

\* Mutant: a block that fits nowhere does not go back into the stash.
EvictBlockOrDrop ==
    /\ cpc = "evict"
    /\ rest # << >>
    /\ LET block == Head(rest)
           fits  == Fits(posMap[block.id])
       IN  IF fits = {}
           THEN UNCHANGED pathBuckets
           ELSE \E i \in fits : pathBuckets' = [pathBuckets EXCEPT ![i] = Append(@, block)]
    /\ rest' = Tail(rest)
    /\ UNCHANGED <<posMap, stash, cpc, call, oldLeaf, incoming, result, failed, conn, req, resp>>

\* EvictBlocksToPath: the next block goes into the deepest bucket that can
\* take it, or back into the stash.
EvictBlock ==
    /\ cpc = "evict"
    /\ rest # << >>
    /\ LET block == Head(rest)
           fits  == Fits(posMap[block.id])
       IN  \/ /\ fits = {}
              /\ stash' = Append(stash, block)
              /\ UNCHANGED pathBuckets
           \/ \E i \in fits :
                 /\ \A j \in fits : i <= j
                 /\ pathBuckets' = [pathBuckets EXCEPT ![i] = Append(@, block)]
                 /\ UNCHANGED stash
    /\ rest' = Tail(rest)
    /\ UNCHANGED <<posMap, cpc, call, oldLeaf, incoming, result, failed, conn, req, resp>>

\* Mutant: the buckets are numbered from the root.
WritePathEntriesFromRoot(leaf, buckets) ==
    [k \in 1 .. TreeHeight + 1 |->
        [node   |-> PathNode(leaf, k - 1),
         bucket |-> FillBucketWithDummies(buckets[TreeHeight + 1 - k])]]

\* The entries of WritePathToServer, leaf first.
WritePathEntries(leaf, buckets) ==
    [k \in 1 .. TreeHeight + 1 |->
        [node   |-> PathNode(leaf, k - 1),
         bucket |-> FillBucketWithDummies(buckets[k - 1])]]

\* The rest of WritePath, up to the wait of WritePathToServer.
WritePath ==
    /\ cpc = "evict"
    /\ rest = << >>
    /\ cpc' = "writePath"
    /\ SendRequest([cmd |-> "T", entries |-> WritePathEntries(oldLeaf, pathBuckets)])
    /\ UNCHANGED <<posMap, stash, call, oldLeaf, incoming, rest, pathBuckets, result, failed, conn, resp>>

EndOfCall ==
    /\ cpc' = "idle"
    /\ call' = NoCall
    /\ oldLeaf' = 0
    /\ pathBuckets' = NoPath
    /\ result' = NoResult
    /\ resp' = NoMsg

\* The acknowledgement arrives and Access returns its result.
Return ==
    /\ cpc = "writePath"
    /\ resp.cmd = "ack"
    /\ EndOfCall
    /\ UNCHANGED <<posMap, stash, incoming, rest, failed, conn, req>>

\* An exception of NetIO, or of the count and acknowledgement checks, leaves
\* Access.  What it has already changed stays changed: nothing is rolled back.
Throw ==
    /\ \/ cpc = "readPath" /\ (MayThrow \/ (resp.cmd = "path" /\ Len(resp.buckets) # TreeHeight + 1))
       \/ cpc = "writePath" /\ (MayThrow \/ resp.cmd \notin {"none", "ack"})
    /\ EndOfCall
    /\ failed' = TRUE
    /\ UNCHANGED <<posMap, stash, incoming, rest, conn, req>>

\* The destructor tells the server to quit, and the socket is closed.
DestroyClient ==
    /\ cpc = "idle"
    /\ cpc' = "destroyed"
    /\ SendRequest([cmd |-> "Q"])
    /\ conn' = "down"
    /\ UNCHANGED <<posMap, stash, call, oldLeaf, incoming, rest, pathBuckets, result, failed, resp>>

\* What a call does once it has been made.
CallStep ==
    \/ ReadPathFromServer \/ ReadPath \/ AccessStash
    \/ EvictBlock \/ WritePath \/ Return \/ Throw
=============================================================================
