--------------------------- MODULE PathORAMStore ----------------------------
(***************************************************************************)
(* The Path ORAM server alone, as the store of buckets it is for whatever  *)
(* client talks to it: the client may use all four commands of the wire    *)
(* protocol, send a request the server refuses, or go away.                *)
(***************************************************************************)
EXTENDS PathORAMServer

VARIABLE image       \* history: the buckets as the requests served made them

vars == <<serverVars, conn, req, resp, image>>

\* The buckets a client sends, one of them over capacity; none is empty.
SentBuckets ==
    {<<block>> : block \in AnyBlock} \cup {[k \in 1 .. BucketSize + 1 |-> block] : block \in Block}

\* A node outside the tree, which a request may name all the same.
NoSuchNode == NumTreeNodes

SentPaths ==
    {GetPathIndices(leaf) : leaf \in Leaves}
    \cup {<<NoSuchNode>>, [k \in 1 .. TreeHeight + 1 |-> IF k = 1 THEN 0 ELSE NoSuchNode]}

SentRequests ==
    [cmd : {"R"}, node : Nodes \cup {NoSuchNode}]
    \cup [cmd : {"W"}, node : Nodes \cup {NoSuchNode}, bucket : SentBuckets]
    \cup [cmd : {"P"}, path : SentPaths]
    \cup {[cmd     |-> "T",
           entries |-> [k \in DOMAIN path |-> [node |-> path[k], bucket |-> bucket]]] :
            path \in SentPaths, bucket \in SentBuckets}
    \cup {[cmd |-> "Q"], [cmd |-> "X"]}

\* What a request asks the tree to become.
Requested(m, t) ==
    IF m.cmd = "W" /\ m.node \in Nodes
    THEN [t EXCEPT ![m.node] = DeserializeBucket(m.bucket)]
    ELSE IF m.cmd = "T"
    THEN [n \in Nodes |->
            IF \E k \in DOMAIN m.entries : m.entries[k].node = n
            THEN DeserializeBucket(
                   m.entries[CHOOSE k \in DOMAIN m.entries : m.entries[k].node = n].bucket)
            ELSE t[n]]
    ELSE t

Init ==
    /\ ConstructServer
    /\ conn = "up"
    /\ req = NoMsg
    /\ resp = NoMsg
    /\ image = tree

\* Init is called, once or again, and returns or throws: what it was asked to
\* store is what a read must show.
InitAny ==
    /\ \E n \in 0 .. NumBlocks, data \in [Addr -> Data] :
         LET blocks == [k \in 1 .. n |-> [id |-> k - 1, data |-> data[k - 1]]]
         IN  InitServer(blocks) /\ image' = InitialTree(blocks)

InitClearFails ==
    /\ InitServerClearFails
    /\ UNCHANGED image

Ask ==
    /\ req = NoMsg /\ resp = NoMsg
    /\ \E m \in SentRequests : SendRequest(m)
    /\ UNCHANGED <<serverVars, conn, resp, image>>

TakeReply ==
    /\ resp # NoMsg
    /\ resp' = NoMsg
    /\ UNCHANGED <<serverVars, conn, req, image>>

HangUp ==
    /\ "network" \in Faults
    /\ ConnectionLost
    /\ UNCHANGED <<serverVars, image>>

Serve ==
    /\ ServerStep
    /\ image' = IF spc = "recv" /\ Initialized THEN Requested(req, image) ELSE image

StopCalled ==
    /\ Stop
    /\ UNCHANGED image

Owner ==
    /\ StartHandleRequests \/ DestroyServer
    /\ UNCHANGED image

\* The server has gone; the client may be waiting for ever.
Terminated == spc = "destroyed" /\ UNCHANGED vars

Next == InitAny \/ InitClearFails \/ Ask \/ TakeReply \/ HangUp \/ Serve \/ StopCalled \/ Owner \/ Terminated

Spec == Init /\ [][Next]_vars

\* The server's own threads keep running; the client need not do anything.
FairSpec == Spec /\ WF_vars(Serve) /\ WF_vars(Owner)

-----------------------------------------------------------------------------
\* A bucket sent is the one asked for as the requests made it, or its file was
\* cut off in the middle and nothing is known of what is sent.
Whole(n, bucket) == bucket = image[n] \/ tree[n] = Torn

\* An answer to a read shows what Init was asked to store and every write served
\* before it, and no part of a write that failed: HandleWritePath leaves a path
\* half written when a bucket file cannot be, and only leaving the loop keeps
\* that from being read; Init leaves a tree half written, and only removing the
\* old files keeps those from being read.
ReadsSeeWholeWrites ==
    [][/\ resp' # resp /\ resp'.cmd = "bucket" => Whole(req.node, resp'.bucket)
       /\ resp' # resp /\ resp'.cmd = "path" =>
            \A k \in 1 .. TreeHeight + 1 : Whole(req.path[k], resp'.buckets[k])]_vars

\* What docs/plans/2026-05-01-path-oram-batched-rtt-design.md says of the
\* acknowledgement: the server stores every bucket, then sends it.  That is so
\* where the disk does not fail: a flush that does goes unnoticed.
AckMeansStored == resp.cmd = "ack" => tree = image

\* No bucket file is older than the requests served: it holds what was asked for,
\* or is missing or cut off.
UpToDate == \A n \in Nodes : tree[n] \in Written(image[n])

\* What the acknowledgement of HandleWritePath does mean: no bucket of the path
\* still has what it had before, to be read as if it were the one written.
AckMeansWritten == resp.cmd = "ack" => UpToDate

\* Where the loop reads a command, the stream is at the start of a request: a
\* handler that refuses a request leaves the rest of it unread, and the loop has
\* to be left with it.
CommandsAreCommands == spc = "recv" => req # Rest

\* What the server may rely on in a request: node indices, but perhaps of no
\* node, buckets, but perhaps too long, and one bucket for a node.
WellFormed(m) ==
    /\ m.cmd \in {"R", "W"} => m.node \in Nat
    /\ m.cmd = "W" => m.bucket \in Seq(AnyBlock)
    /\ m.cmd = "P" => m.path \in Seq(Nat)
    /\ m.cmd = "T" =>
         /\ m.entries \in Seq([node : Nat, bucket : Seq(AnyBlock)])
         /\ \A k, l \in 1 .. Len(m.entries) :
              m.entries[k].node = m.entries[l].node => m.entries[k].bucket = m.entries[l].bucket

\* Part of the way through a path, a bucket is as the request wants it or still
\* in the request.
HalfWritten ==
    /\ req.cmd = "T" /\ nodeCount = NumTreeNodes
    /\ \A k \in 1 .. Len(req.entries) : req.entries[k].node \in Nodes =>
         image[req.entries[k].node] = DeserializeBucket(req.entries[k].bucket)
    /\ \A n \in Nodes :
         \/ tree[n] \in Written(image[n])
         \/ \E k \in 1 .. Len(req.entries) : req.entries[k].node = n

\* The inductive invariant behind AckMeansWritten, ReadsSeeWholeWrites and
\* CommandsAreCommands.
StoreInv ==
    /\ tree \in [Nodes -> Buckets \cup Truncated] /\ image \in [Nodes -> Buckets]
    /\ nodeCount \in {0, NumTreeNodes}
    /\ spc \in ServerPoints
    /\ WellFormed(req)
    /\ resp # NoMsg => req = NoMsg
    /\ spc \in {"constructed", "recv"} => UpToDate
    /\ spc = "writing" => HalfWritten
    /\ AckMeansWritten
    /\ req = Rest => spc \in {"left", "destroyed"}

\* Stop, called while the loop runs, ends it with the request in hand or the next
\* to come, even from the middle of a path: running_ is looked at only between
\* two commands, and StartHandleRequests sets it again.
StopIsSeen ==
    (spc \in {"recv", "writing"} /\ ~ running /\ req # NoMsg) ~> spc \in {"left", "destroyed"}

\* Once the client has gone, at whatever point of the protocol, the server thread
\* ends and the server is destroyed, as the tests' join needs.
ServerEnds == conn = "down" ~> spc = "destroyed"

\* Every request is taken out of the connection and served or refused, unless
\* the server is gone: the loop over the buckets of a path ends, and a request
\* the server refuses does not leave it waiting for the rest.
NoRequestHangsTheLoop == req # NoMsg ~> (req = NoMsg \/ spc = "destroyed")
=============================================================================
