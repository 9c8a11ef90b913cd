------------------------------ MODULE PathORAM ------------------------------
(***************************************************************************)
(* A Path ORAM client and server joined by a connection that may be lost   *)
(* at any moment.                                                          *)
(***************************************************************************)
EXTENDS PathORAMServer, PathORAMClient

VARIABLE oracle     \* history: the value last written, as in the tests

vars == <<serverVars, clientVars, conn, req, resp, oracle>>

\* Init(initial_blocks) has stored block i at leaf i for the first n addresses,
\* InitializePositionMap has said so to the client, and the other positions
\* are random.  The tests use n = 0.  Init has returned, which does not say that
\* every bucket reached its file.
Init ==
    \E n \in 0 .. NumBlocks :
      /\ n <= NumLeaves
      /\ oracle \in [Addr -> Data]
      /\ \A a \in Addr : a >= n => oracle[a] = Zero
      /\ tree \in WrittenTrees(InitialTree([k \in 1 .. n |-> [id |-> k - 1, data |-> oracle[k - 1]]]))
      /\ nodeCount = NumTreeNodes
      /\ running = FALSE
      /\ spc = "constructed"
      /\ stats = [c \in Commands |-> 0]
      /\ \E positions \in [Addr -> Leaves] :
           /\ \A a \in 0 .. n - 1 : positions[a] = a
           /\ ConstructClient(positions)
      /\ conn = "up"
      /\ req = NoMsg
      /\ resp = NoMsg

ServerNext ==
    /\ StartHandleRequests \/ ServerStep \/ Stop \/ DestroyServer
    /\ UNCHANGED <<clientVars, oracle>>

\* The oracle follows a write at the step that changes the stash.
ClientNext ==
    /\ \/ /\ \/ \E c \in Calls : Access(c)
             \/ ReadPathFromServer \/ ReadPath \/ EvictBlock \/ WritePath
             \/ Return \/ Throw \/ DestroyClient
          /\ UNCHANGED oracle
       \/ /\ AccessStash
          /\ oracle' = IF call.op = "WRITE" THEN [oracle EXCEPT ![call.addr] = call.data] ELSE oracle
    /\ UNCHANGED serverVars

NetworkNext ==
    /\ "network" \in Faults
    /\ ConnectionLost
    /\ UNCHANGED <<serverVars, clientVars, oracle>>

\* Both ends have gone.
Terminated ==
    /\ cpc = "destroyed" /\ spc = "destroyed"
    /\ UNCHANGED vars

Next == ServerNext \/ ClientNext \/ NetworkNext \/ Terminated

Spec == Init /\ [][Next]_vars

\* The threads keep running: a handler or a call that can take a step takes
\* it, and the owner of a server whose loop has ended destroys it.  Nothing
\* makes the caller call, the network fail or Stop be called.
Fairness ==
    /\ WF_vars(ServerNext /\ (StartHandleRequests \/ ServerStep \/ DestroyServer))
    /\ WF_vars(ClientNext /\ CallStep)

FairSpec == Spec /\ Fairness

-----------------------------------------------------------------------------
Entries == [node : Nodes, bucket : Buckets]

Requests ==
    {NoMsg, Rest, [cmd |-> "Q"]}
    \cup [cmd : {"P"}, path : {GetPathIndices(leaf) : leaf \in Leaves}]
    \cup [cmd : {"T"}, entries : Seq(Entries)]

Replies ==
    {NoMsg, [cmd |-> "ack"]}
    \cup [cmd : {"path"}, buckets : {b \in Seq(Buckets) : Len(b) = TreeHeight + 1}]

\* The types of the variables, the messages in transit among them.
TypeOK ==
    /\ tree \in [Nodes -> Buckets \cup Truncated]
    /\ nodeCount = NumTreeNodes
    /\ running \in BOOLEAN
    /\ spc \in ServerPoints
    /\ stats \in [Commands -> 0 .. SizeTModulus - 1]
    /\ posMap \in [Addr -> Leaves]
    /\ stash \in Seq(Block)
    /\ cpc \in ClientPoints
    /\ call \in Calls \cup {NoCall}
    /\ oldLeaf \in Leaves
    /\ incoming \in Seq(Buckets)
    /\ rest \in Seq(Block)
    /\ pathBuckets \in [Levels -> Seq(Block)]
    /\ \A i \in Levels : Len(pathBuckets[i]) <= BucketSize
    /\ result \in Data \cup {NoResult}
    /\ failed \in BOOLEAN
    /\ conn \in {"up", "down"}
    /\ req \in Requests
    /\ resp \in Replies
    /\ oracle \in [Addr -> Data]

-----------------------------------------------------------------------------
\* During an access the old path still holds the block being accessed, whose
\* position has already changed, until the server has overwritten the bucket.
AwaitsOverwrite(n) ==
    /\ cpc \in {"readPath", "push", "evict", "writePath"}
    /\ OnPath(n, oldLeaf)
    /\ resp.cmd # "ack"
    /\ spc = "writing" => \E k \in 1 .. Len(req.entries) : req.entries[k].node = n

\* The invariant Path ORAM rests on: a block in the tree lies on the path to
\* the leaf the position map gives it, or it is the block of the access in
\* progress in a bucket that is about to be overwritten.  Access remaps before
\* it reads and EvictBlocksToPath decides with shifts of the new positions, so
\* a wrong shift, order or leaf would strand a block where no read finds it.
PathInvariant ==
    ~ failed =>
      \A n \in Nodes : \A k \in 1 .. Len(tree[n]) :
        LET id == tree[n][k].id
        IN  \/ id = DummyId
            \/ OnPath(n, posMap[id])
            \/ AwaitsOverwrite(n) /\ id = call.addr

\* Who is waiting for what: at most one message is in transit, it belongs to
\* the access in progress, and a reply is that of the request just served.
\* After an exception the connection is gone and stays gone.
Conversation ==
    /\ failed => conn = "down"
    /\ spc = "writing" => req.cmd = "T"
    /\ req = Rest => spc \in {"left", "destroyed"}
    /\ ~ failed =>
         /\ cpc \in {"idle", "push", "evict"} => req = NoMsg /\ resp = NoMsg
         /\ cpc = "destroyed" => req.cmd \in {"none", "Q"} /\ resp = NoMsg
         /\ cpc = "readPath" =>
              /\ req = NoMsg \/ (req = [cmd |-> "P", path |-> GetPathIndices(oldLeaf)] /\ resp = NoMsg)
              /\ resp.cmd \in {"none", "path"}
              /\ resp.cmd = "path" =>
                   \A k \in 1 .. TreeHeight + 1 :
                     tree[PathNode(oldLeaf, k - 1)] \in {resp.buckets[k], Torn}
         /\ cpc = "writePath" =>
              /\ \/ req = NoMsg
                 \/ req.cmd = "T" /\ resp = NoMsg
                 \/ req = Rest /\ resp = NoMsg
              /\ resp.cmd \in {"none", "ack"}
         /\ cpc \notin {"evict", "writePath"} => pathBuckets = NoPath

Placed(node, bucket) ==
    \A k \in 1 .. Len(bucket) : bucket[k].id = DummyId \/ OnPath(node, posMap[bucket[k].id])

\* What is on its way into the tree is where the position map says: the
\* buckets being filled, and those of the request, which covers the old path.
PlacedInTransit ==
    ~ failed =>
      /\ \A i \in Levels : Placed(PathNode(oldLeaf, i), pathBuckets[i])
      /\ req.cmd = "T" =>
           /\ \A k \in 1 .. Len(req.entries) : Placed(req.entries[k].node, req.entries[k].bucket)
           /\ spc # "writing" =>
                \A n \in Nodes : OnPath(n, oldLeaf) =>
                   \E k \in 1 .. Len(req.entries) : req.entries[k].node = n

\* The inductive invariant behind PathInvariant.
IInv == TypeOK /\ Conversation /\ PlacedInTransit /\ PathInvariant

CopiesIn(s, place, i, a) ==
    {<<place, i, k, s[k].data>> : k \in {j \in 1 .. Len(s) : s[j].id = a}}

\* The copies in a row of sequences, those with an index in D.
CopiesInRow(rows, D, place, a) == UNION {CopiesIn(rows[i], place, i, a) : i \in D}

\* The client has the blocks of the old path; what the tree holds there is
\* about to be overwritten.
PathInHand == cpc \in {"push", "evict", "writePath"}
Counted    == {n \in Nodes : ~ (PathInHand /\ OnPath(n, oldLeaf))}

LiveCopies(a) ==
    CopiesIn(stash, "stash", 0, a)
    \cup CopiesIn(rest, "rest", 0, a)
    \cup CopiesInRow(incoming, 1 .. Len(incoming), "incoming", a)
    \cup CopiesInRow(pathBuckets, Levels, "path", a)
    \cup CopiesInRow(tree, Counted, "tree", a)

\* Where the copies of an address are: on the old path, until the stash has
\* been read or changed, when the address is being accessed.
LeafOf(a) == IF cpc \in {"readPath", "push"} /\ call.addr = a THEN oldLeaf ELSE posMap[a]

\* A bucket on the way to an address never reached its file.
OnLostBucket(a) == \E n \in Nodes : tree[n] = << >> /\ OnPath(n, LeafOf(a))

\* While no call has thrown, an address has at most one live copy in the whole
\* system and it holds the value last written; an address with none was never
\* written, or the path to it has a bucket that reading will refuse.  A block
\* lost by a full bucket, kept twice by an eviction, left behind in a bucket
\* that was not rewritten or lost in a file whose loss a later write hides
\* breaks it.
OneCurrentCopy ==
    ~ failed =>
      \A a \in Addr :
        \/ LiveCopies(a) = {} /\ (oracle[a] = Zero \/ OnLostBucket(a))
        \/ \E copy \in LiveCopies(a) : LiveCopies(a) = {copy} /\ copy[4] = oracle[a]

\* What the client holds between the steps of a call: loops that have ended
\* leave nothing behind, and a result is there once the stash has been read or
\* changed.  After an exception no call gets further than its request.
CallState ==
    /\ cpc # "push" => incoming = << >>
    /\ cpc # "evict" => rest = << >>
    /\ cpc \in {"idle", "destroyed"} => call = NoCall /\ result = NoResult
    /\ cpc \in {"readPath", "push"} => call \in Calls /\ result = NoResult
    /\ cpc \in {"evict", "writePath"} => call \in Calls /\ result \in Data
    /\ failed => cpc \in {"idle", "readPath", "destroyed"} /\ resp = NoMsg

\* Until the accessed block is taken out of the stash, every copy of it in the
\* tree is on the old path, although its position has changed already.
AccessedOnOldPath ==
    ~ failed /\ cpc \in {"readPath", "push"} =>
      \A n \in Nodes : \A k \in 1 .. Len(tree[n]) : tree[n][k].id = call.addr => OnPath(n, oldLeaf)

\* A path the client has read had all its buckets, so that no lost bucket is
\* ever overwritten: the loss stays on the path of the blocks it took.
PathReadWasThere ==
    ~ failed =>
      /\ cpc \in {"push", "evict"} \/ resp.cmd = "path" =>
           \A i \in Levels : tree[PathNode(oldLeaf, i)] # << >>
      /\ cpc = "writePath" /\ req.cmd = "T" =>
           \A k \in 1 .. Len(req.entries) : tree[req.entries[k].node] # << >>

\* While the server writes a path, a bucket is stored as the client filled it,
\* lost, or still in the request, which holds each of them once; with the
\* acknowledgement none is left there.
PathBeingWritten ==
    ~ failed /\ cpc = "writePath" =>
      /\ req.cmd = "T" =>
           \A k \in 1 .. Len(req.entries) : \E i \in Levels :
             /\ req.entries[k].node = PathNode(oldLeaf, i)
             /\ req.entries[k].bucket = FillBucketWithDummies(pathBuckets[i])
      /\ req.cmd = "T" =>
           \A j, k \in 1 .. Len(req.entries) : req.entries[j].node = req.entries[k].node => j = k
      /\ spc = "writing" \/ resp.cmd = "ack" =>
           \A i \in Levels :
             \/ tree[PathNode(oldLeaf, i)] \in {FillBucketWithDummies(pathBuckets[i]), << >>}
             \/ /\ req.cmd = "T"
                /\ \E k \in 1 .. Len(req.entries) : req.entries[k].node = PathNode(oldLeaf, i)

\* The inductive invariant behind OneCurrentCopy and the refinement of RAM.
RInv ==
    /\ IInv /\ CallState /\ AccessedOnOldPath
    /\ PathReadWasThere /\ PathBeingWritten /\ OneCurrentCopy

\* A call that gives its caller a result gives the value last written to the
\* address, whatever became of the bucket files: they are read, or refused as
\* missing or malformed.
ReadsGiveLastWrite ==
    [][result' # result /\ result' # NoResult => result' = oracle'[call.addr]]_vars

\* Seen by its caller, the client is a RAM: reads give the last value written,
\* and once a call has thrown (its blocks may be gone) none succeeds again.
Memory == INSTANCE RAM WITH mem <- oracle
RefinesRAM == Memory!RAMSpec

\* A call returns or throws: the server answers, or leaves its loop and is
\* destroyed, or the connection is lost.
CallsEnd == cpc = "readPath" ~> cpc = "idle"
=============================================================================
