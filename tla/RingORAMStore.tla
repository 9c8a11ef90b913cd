--------------------------- MODULE RingORAMStore ----------------------------
(***************************************************************************)
(* The Ring ORAM server alone, against a client that may send any of its   *)
(* seven commands with arguments the server must refuse, and go away.      *)
(***************************************************************************)
EXTENDS RingORAMServer

VARIABLE taken     \* history: the slots of each bucket handed out since it was written

vars == <<serverVars, conn, req, resp, taken>>

\* Outside the tree, the leaves and the slots.
NoSuchNode == NumTreeNodes
NoSuchLeaf == NumLeaves
NoSuchSlot == Z + S

\* A freshly written bucket, with a block in its first slot.
FreshBuckets == {ResetWithBlocks(<<[addr |-> 0, leaf |-> 0, data |-> Zero]>>, <<0>>)}

SentTrees ==
    {[k \in 1 .. NumTreeNodes |-> b] : b \in FreshBuckets \cup {NoBucket}} \cup {<<NoBucket>>}

SentRequests ==
    [cmd : {"I"}, buckets : SentTrees]
    \cup [cmd : {"M"}, leaf : Leaves \cup {NoSuchLeaf}]
    \cup [cmd : {"X"}, leaf : Leaves \cup {NoSuchLeaf},
          offsets : [1 .. TreeHeight + 1 -> Slots \cup {NoSuchSlot}] \cup {<< >>}]
    \cup [cmd : {"B", "T"}, node : Nodes \cup {NoSuchNode}]
    \cup [cmd : {"W"}, node : Nodes \cup {NoSuchNode}, bucket : FreshBuckets \cup {NoBucket}]
    \cup {[cmd |-> "S"], [cmd |-> "Q"], [cmd |-> "?"]}

Init ==
    /\ ConstructServer
    /\ conn = "up"
    /\ req = NoMsg
    /\ resp = NoMsg
    /\ taken = [n \in Nodes |-> {}]

Ask ==
    /\ req = NoMsg /\ resp = NoMsg
    /\ \E m \in SentRequests : SendRequest(m)
    /\ UNCHANGED <<serverVars, conn, resp, taken>>

TakeReply ==
    /\ resp # NoMsg
    /\ resp' = NoMsg
    /\ UNCHANGED <<serverVars, conn, req, taken>>

HangUp ==
    /\ "network" \in Faults
    /\ ConnectionLost
    /\ UNCHANGED <<serverVars, taken>>

\* The node and the slot HandleXorPathSlots is at.
XorNode   == Paths[req.leaf][Len(picked) + 1]
XorOffset == req.offsets[Len(picked) + 1]
Picks     == Len(picked') > Len(picked)

Serve ==
    /\ ServerStep
    /\ taken' =
         IF Picks THEN [taken EXCEPT ![XorNode] = @ \cup {XorOffset}]
         ELSE IF spc = "init" /\ req.buckets # << >> THEN [taken EXCEPT ![NumTreeNodes - Len(req.buckets)] = {}]
         ELSE IF req.cmd = "W" /\ req.node \in Nodes THEN [taken EXCEPT ![req.node] = {}]
         ELSE taken

Owner ==
    /\ StartHandleRequests \/ DestroyServer
    /\ UNCHANGED taken

StopCalled == Stop /\ UNCHANGED taken

\* The server has gone; the client may be waiting for ever.
Terminated == spc = "destroyed" /\ UNCHANGED vars

Next == Ask \/ TakeReply \/ HangUp \/ Serve \/ Owner \/ StopCalled \/ Terminated

Spec == Init /\ [][Next]_vars

\* The server's own thread keeps running; the client need not do anything.
FairSpec == Spec /\ WF_vars(Serve) /\ WF_vars(Owner)

-----------------------------------------------------------------------------
\* No slot is handed out twice between two writes of its bucket, whatever the
\* client asks, and although HandleXorPathSlots may fail after it has marked
\* part of a path.
NoSlotReadTwice == [][Picks => XorOffset \notin taken[XorNode]]_vars

\* The count the client decides a reshuffle by is that of the slots handed out
\* since the bucket was written.
CountsWhatWasTaken ==
    spc \in {"recv", "init", "xor"} =>
      \A n \in Nodes : tree[n] # NoBucket =>
        tree[n].count = Cardinality(taken[n]) /\ tree[n].valids = Slots \ taken[n]

\* What the server may rely on in a request: a bucket that is sent is fresh, or
\* refused.
WellFormed(m) ==
    /\ m.cmd = "W" => m.bucket \in FreshBuckets \cup {NoBucket}
    /\ m.cmd = "I" => m.buckets \in Seq(FreshBuckets \cup {NoBucket})

Entries == [addr : Addr, leaf : Leaves, ptr : Slots, data : Data]
Buckets == [count : Nat, valids : SUBSET Slots, entries : Seq(Entries)]

\* The inductive invariant behind CountsWhatWasTaken and NoSlotReadTwice.
StoreInv ==
    /\ tree \in [Nodes -> Buckets \cup {NoBucket}]
    /\ taken \in [Nodes -> SUBSET Slots]
    /\ picked \in Seq(Data)
    /\ spc \in ServerPoints
    /\ WellFormed(req)
    /\ spc = "constructed" => \A n \in Nodes : tree[n] = NoBucket
    /\ spc = "init" => req.cmd = "I"
    /\ spc = "xor" => req.cmd = "X"
    /\ CountsWhatWasTaken

\* Every request is taken out of the connection and served or refused, unless
\* the server is gone.
NoRequestHangsTheLoop == req # NoMsg ~> (req = NoMsg \/ spc = "destroyed")
=============================================================================
