--------------------------- MODULE OnionRingStore ---------------------------
(***************************************************************************)
(* The Onion Ring ORAM server alone, against a client that may send any of *)
(* its six commands, with arguments the server must refuse among them, and *)
(* go away.  The repository's own client never sends the commands that     *)
(* evict a triplet or refresh a leaf under encryption.                     *)
(***************************************************************************)
EXTENDS OnionRingServer

VARIABLES asked,     \* history: the request last sent, until its answer is taken
          before     \* history: the tree when it was sent

vars == <<serverVars, conn, req, resp, asked, before>>

\* Outside the tree and the slots, and a leaf with higher bits, which count for
\* nothing.
NoSuchNode == NumTreeNodes
NoSuchSlot == BucketSlots + 1
LongLeaf   == NumLeaves + 1

Selections(slots) == [1 .. TreeHeight + 1 -> slots]
SentSelections    == Selections(Slots) \cup {[s EXCEPT ![k] = NoSuchSlot] : s \in Selections({1}), k \in 1 .. TreeHeight + 1}

\* What may be asked of a child: some slots of the source, some of its own, a
\* permutation of them all, sent as the bits for it; perm itself the server does
\* not see.  The refused ones name a slot that does not exist, make more than a
\* bucket full, or come without the bits.
Update(source, child, p) ==
    [sourceSlots |-> source, childSlots |-> child, perm |-> p, bits |-> GenerateSwapBits(p)]

GoodUpdates ==
    {Update(chosen[1], chosen[2], p) :
        chosen \in {<< << >>, <<BucketSlots>> >>, << <<1>>, <<BucketSlots>> >>, << <<BucketSlots, 1>>, << >> >>},
        p \in Shuffles}

BadUpdates ==
    {Update(<<NoSuchSlot>>, << >>, CHOOSE p \in Shuffles : TRUE),
     Update(<<1>>, [s \in Slots |-> s], CHOOSE p \in Shuffles : TRUE),
     [Update(<< >>, << >>, CHOOSE p \in Shuffles : TRUE) EXCEPT !.bits = << >>]}

Triplets ==
    [cmd : {"T"}, source : {0}, left : {1}, right : {2},
     updates : (GoodUpdates \X (GoodUpdates \cup BadUpdates)) \cup {<<u, u>> : u \in BadUpdates}]
    \cup [cmd : {"T"}, source : {NoSuchNode}, left : {1}, right : {2}, updates : {<< >>}]

\* The payload of a leaf refresh; the node is the one asked for before.
Refreshes(n) ==
    {[cmd |-> "F", node |-> n, slots |-> slots, perm |-> p, bits |-> GenerateSwapBits(p)] :
        slots \in [Slots -> Data], p \in Shuffles}
    \cup {[cmd |-> "F", node |-> n, slots |-> ClearedBucket, perm |-> CHOOSE p \in Shuffles : TRUE, bits |-> << >>]}

SentRequests ==
    [cmd : {"A", "C"}, leaf : {0, LongLeaf}, selections : SentSelections]
    \cup [cmd : {"R", "L"}, node : Nodes \cup {NoSuchNode}]
    \cup [cmd : {"U"}, node : Nodes \cup {NoSuchNode}, slot : Slots \cup {NoSuchSlot}, data : Data]
    \cup Triplets
    \cup {[cmd |-> "Q"], [cmd |-> "?"]}

Init ==
    /\ ConstructServer
    /\ conn = "up"
    /\ req = NoMsg
    /\ resp = NoMsg
    /\ asked = NoMsg
    /\ before = tree

\* After the bucket of a leaf refresh its payload is expected; anything else is
\* refused.
Ask ==
    /\ req = NoMsg /\ resp = NoMsg /\ asked.cmd \in {"none", "L"}
    /\ \E m \in IF asked.cmd = "L" THEN Refreshes(asked.node) \cup {[cmd |-> "Q"]} ELSE SentRequests :
          SendRequest(m) /\ asked' = m
    /\ before' = tree
    /\ UNCHANGED <<serverVars, conn, resp>>

TakeReply ==
    /\ resp # NoMsg
    /\ resp' = NoMsg
    /\ asked' = IF asked.cmd = "L" THEN asked ELSE NoMsg
    /\ before' = tree
    /\ UNCHANGED <<serverVars, conn, req>>

HangUp ==
    /\ "network" \in Faults
    /\ ConnectionLost
    /\ UNCHANGED <<serverVars, asked, before>>

Serve ==
    /\ ServerStep
    /\ UNCHANGED <<asked, before>>

Owner ==
    /\ StartHandleRequests \/ DestroyServer
    /\ UNCHANGED <<asked, before>>

StopCalled == Stop /\ UNCHANGED <<asked, before>>

\* The server has gone; the client may be waiting for ever.
Terminated == spc = "destroyed" /\ UNCHANGED vars

Next == Ask \/ TakeReply \/ HangUp \/ Serve \/ Owner \/ StopCalled \/ Terminated

Spec == Init /\ [][Next]_vars

\* The thread that runs the server and then destroys it keeps running; the
\* client need not do anything.
FairSpec == Spec /\ WF_vars(Serve \/ Owner)

-----------------------------------------------------------------------------
\* What the commands are for, said of whole trees.
Cleared(t, leaf, selections, k) ==
    [n \in Nodes |-> [s \in Slots |->
        IF \E i \in 1 .. k : Paths[leaf % NumLeaves][i] = n /\ selections[i] = s THEN Zero ELSE t[n][s]]]

\* A child's new contents: slot d gets the perm[d]-th of what was assembled.
ChildAfter(t, source, child, update) ==
    LET chosen == [k \in DOMAIN update.sourceSlots |-> t[source][update.sourceSlots[k]]]
                  \o [k \in DOMAIN update.childSlots |-> t[child][update.childSlots[k]]]
    IN  [d \in Slots |-> IF update.perm[d] <= Len(chosen) THEN chosen[update.perm[d]] ELSE Zero]

WithLeft(t, m)  == [t EXCEPT ![m.left] = ChildAfter(t, m.source, m.left, m.updates[1])]
WithBoth(t, m)  == [WithLeft(t, m) EXCEPT ![m.right] = ChildAfter(t, m.source, m.right, m.updates[2])]
Evicted(t, m)   == [WithBoth(t, m) EXCEPT ![m.source] = ClearedBucket]

Done(t, m) ==
    CASE m.cmd = "C" -> Cleared(t, m.leaf, m.selections, TreeHeight + 1)
      [] m.cmd = "U" -> [t EXCEPT ![m.node][m.slot] = m.data]
      [] m.cmd = "T" -> Evicted(t, m)
      [] m.cmd = "F" -> [t EXCEPT ![m.node] = [d \in Slots |-> m.slots[m.perm[d]]]]
      [] OTHER       -> t

\* The sum of the selected slots of a path, added up from the leaf to the root.
SumOf(t, m) ==
    LET slot(k) == t[Paths[m.leaf % NumLeaves][k]][m.selections[k]]
        sum[k \in 0 .. TreeHeight + 1] ==
          IF k = 0 THEN Zero ELSE Plus(slot(TreeHeight + 2 - k), sum[k - 1])
    IN  sum[TreeHeight + 1]

\* An acknowledgement means that the whole command has been carried out, the
\* permutations hidden in the swap bits included, and an answer tells the tree as
\* it was and still is.
AnswersAreTrue ==
    /\ resp.cmd = "K" => asked.cmd \in {"C", "U", "T", "F"} /\ tree = Done(before, asked)
    /\ resp.cmd \in {"sum", "bucket", "B"} => tree = before
    /\ resp.cmd = "sum" => asked.cmd = "A" /\ resp.sum = SumOf(before, asked)
    /\ resp.cmd = "bucket" => asked.cmd = "R" /\ resp.slots = before[asked.node]
    /\ resp.cmd = "B" => asked.cmd = "L" /\ resp.slots = before[asked.node]

\* A command that is refused or cut off half way leaves the tree as it was or
\* with the first of its effects: path slots cleared from the root down; the left
\* child of a triplet, then the right one.  The source of a triplet is cleared
\* only when both children have their blocks, so that an eviction that fails
\* loses none.
HalfDoneLosesNothing ==
    \/ tree = before
    \/ asked.cmd # "T" /\ Done(before, asked) = tree
    \/ asked.cmd = "C" /\ \E k \in 1 .. TreeHeight : tree = Cleared(before, asked.leaf, asked.selections, k)
    \/ asked.cmd = "T" /\ asked.updates[1] \notin BadUpdates /\ tree = WithLeft(before, asked)
    \/ /\ asked.cmd = "T" /\ {asked.updates[1], asked.updates[2]} \cap BadUpdates = {}
       /\ tree \in {WithBoth(before, asked), Evicted(before, asked)}

\* Every request is taken out of the connection and served or refused, unless
\* the server is gone.
NoRequestHangsTheLoop == req # NoMsg ~> (req = NoMsg \/ spc = "destroyed")
=============================================================================
