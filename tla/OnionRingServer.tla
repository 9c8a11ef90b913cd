-------------------------- MODULE OnionRingServer ---------------------------
(***************************************************************************)
(* The Onion Ring ORAM server: a tree of ciphertexts in memory and a loop  *)
(* that serves one client.  Commands that arrive piece by piece, and act   *)
(* on the pieces before the last has come, take several steps.  Init has   *)
(* been called before HandleRequests, as in the tests.                     *)
(***************************************************************************)
EXTENDS OnionBuckets, SwapNetwork, NetIO

VARIABLES tree,      \* tree_
          running,   \* running_
          spc,       \* where the server thread is
          bucket     \* the bucket index of HandleLeafRefresh

serverVars == <<tree, running, spc, bucket>>

Commands == {"A", "C", "R", "U", "T", "L"}

ServerPoints == {"constructed", "recv", "clear", "triplet", "refresh", "left", "destroyed"}

ConstructServer ==
    /\ tree = [n \in Nodes |-> ClearedBucket]
    /\ running = FALSE
    /\ spc = "constructed"
    /\ bucket = 0

\* Mutant: an exception is swallowed and the loop goes on.
KeepServing == spc' = "recv" /\ running' = running

\* Every way out of the loop of HandleRequests, and its normal turn.
Leave    == spc' = "left" /\ running' = FALSE
NextTurn == IF running THEN spc' = "recv" /\ UNCHANGED running ELSE Leave

Command(c) == spc = "recv" /\ req.cmd = c
Consume    == req' = NoMsg

\* The answer goes out, or sending it throws.
Answer(m) ==
    /\ Consume
    /\ \/ SendReply(m) /\ NextTurn
       \/ MayThrow /\ Leave /\ UNCHANGED resp

Ack == [cmd |-> "K"]

\* A handler throws on what it has received.
Refuse == Consume /\ Leave /\ UNCHANGED resp

\* Only the low bits of the leaf are looked at, whatever the client sends.
PathOf(leaf) == Paths[leaf % NumLeaves]

StartHandleRequests ==
    /\ spc = "constructed"
    /\ running' = TRUE
    /\ spc' = "recv"
    /\ UNCHANGED <<tree, bucket, conn, req, resp>>

\* The sum of the slots at the front of a path, level by level.
PathSum(path, selections) ==
    LET sum[k \in 0 .. Len(path)] ==
          IF k = 0 THEN Zero ELSE Plus(sum[k - 1], tree[path[k]][selections[k]])
    IN  sum[Len(path)]

HandleAccess ==
    /\ Command("A")
    /\ IF \A k \in DOMAIN req.selections : req.selections[k] \in Slots
       THEN Answer([cmd |-> "sum", sum |-> PathSum(PathOf(req.leaf), req.selections)])
       ELSE Refuse
    /\ UNCHANGED <<tree, bucket, conn>>

\* HandleClearPath: the selections not yet received stay in the request.
HandleClearPath ==
    /\ Command("C")
    /\ spc' = "clear"
    /\ UNCHANGED <<tree, running, bucket, conn, req, resp>>

\* Mutant: the root is left as it is.
ClearAllButRoot ==
    /\ spc = "clear"
    /\ req.selections # << >>
    /\ LET path == PathOf(req.leaf)
           node == path[Len(path) - Len(req.selections) + 1]
       IN  tree' = IF node = 0 THEN tree ELSE [tree EXCEPT ![node][Head(req.selections)] = Zero]
    /\ req' = [req EXCEPT !.selections = Tail(@)]
    /\ UNCHANGED <<spc, running, bucket, conn, resp>>

\* Mutant: the loop does not move on.
ClearSlotAgain ==
    /\ spc = "clear"
    /\ req.selections # << >>
    /\ UNCHANGED serverVars /\ UNCHANGED <<conn, req, resp>>

\* One turn of its loop: a slot is cleared as soon as its index has come.
ClearSlot ==
    /\ spc = "clear"
    /\ req.selections # << >>
    /\ LET path == PathOf(req.leaf)
           node == path[Len(path) - Len(req.selections) + 1]
           slot == Head(req.selections)
       IN  IF slot \in Slots
           THEN /\ tree' = [tree EXCEPT ![node][slot] = Zero]
                /\ req' = [req EXCEPT !.selections = Tail(@)]
                /\ UNCHANGED <<spc, running, resp>>
           ELSE Refuse /\ UNCHANGED tree
    /\ UNCHANGED <<bucket, conn>>

AckClearPath ==
    /\ spc = "clear"
    /\ req.selections = << >>
    /\ Answer(Ack)
    /\ UNCHANGED <<tree, bucket, conn>>

HandleReadBucket ==
    /\ Command("R")
    /\ IF req.node \in Nodes THEN Answer([cmd |-> "bucket", slots |-> tree[req.node]]) ELSE Refuse
    /\ UNCHANGED <<tree, bucket, conn>>

HandleWriteSlot ==
    /\ Command("U")
    /\ IF req.node \in Nodes /\ req.slot \in Slots
       THEN tree' = [tree EXCEPT ![req.node][req.slot] = req.data] /\ Answer(Ack)
       ELSE Refuse /\ UNCHANGED tree
    /\ UNCHANGED <<bucket, conn>>

\* Mutant: the source is cleared before the children have its blocks.
ClearSourceFirst ==
    /\ Command("T")
    /\ IF {req.source, req.left, req.right} \subseteq Nodes
       THEN spc' = "triplet" /\ tree' = [tree EXCEPT ![req.source] = ClearedBucket] /\ UNCHANGED <<running, req, resp>>
       ELSE Refuse /\ UNCHANGED tree
    /\ UNCHANGED <<bucket, conn>>

\* HandleEvictTriplet; the updates of the two children not yet received stay in
\* the request.
HandleEvictTriplet ==
    /\ Command("T")
    /\ IF {req.source, req.left, req.right} \subseteq Nodes
       THEN spc' = "triplet" /\ UNCHANGED <<running, req, resp>>
       ELSE Refuse
    /\ UNCHANGED <<tree, bucket, conn>>

\* AssembleChildSlots: chosen slots of the source, then of the child, padded.
Chosen(n, slots) == [k \in DOMAIN slots |-> tree[n][slots[k]]]

AssembleChildSlots(source, child, update) ==
    LET chosen == Chosen(source, update.sourceSlots) \o Chosen(child, update.childSlots)
    IN  chosen \o SubSeq(ClearedBucket, Len(chosen) + 1, BucketSlots)

\* ReplaceBucket throws unless as many ciphertexts come as the bucket has slots.
UpdateAccepted(source, child, update) ==
    /\ \A k \in DOMAIN update.sourceSlots : update.sourceSlots[k] \in Slots
    /\ \A k \in DOMAIN update.childSlots : update.childSlots[k] \in Slots
    /\ LET assembled == AssembleChildSlots(source, child, update)
       IN  ~ EvalThrows(assembled, update.bits) /\ Len(assembled) = BucketSlots

\* receive_child_update, for the left child and then for the right one.
ChildUpdate ==
    /\ spc = "triplet"
    /\ req.updates # << >>
    /\ LET child  == IF Len(req.updates) = 2 THEN req.left ELSE req.right
           update == Head(req.updates)
       IN  IF UpdateAccepted(req.source, child, update)
           THEN /\ tree' = [tree EXCEPT ![child] =
                              EvalWaksman(AssembleChildSlots(req.source, child, update), update.bits)]
                /\ req' = [req EXCEPT !.updates = Tail(@)]
                /\ UNCHANGED <<spc, running, resp>>
           ELSE Refuse /\ UNCHANGED tree
    /\ UNCHANGED <<bucket, conn>>

\* The source is cleared when both children have their new contents.
ClearSource ==
    /\ spc = "triplet"
    /\ req.updates = << >>
    /\ tree' = [tree EXCEPT ![req.source] = ClearedBucket]
    /\ Answer(Ack)
    /\ UNCHANGED <<bucket, conn>>

\* HandleLeafRefresh, as far as the bucket it sends; then it waits for it to
\* come back.
HandleLeafRefresh ==
    /\ Command("L")
    /\ IF req.node \in Nodes
       THEN /\ Consume
            /\ bucket' = req.node
            /\ \/ /\ SendReply([cmd |-> "B", slots |-> tree[req.node]])
                  /\ spc' = "refresh"
                  /\ UNCHANGED running
               \/ MayThrow /\ Leave /\ UNCHANGED resp
       ELSE Refuse /\ UNCHANGED bucket
    /\ UNCHANGED <<tree, conn>>

RefreshLeaf ==
    /\ spc = "refresh"
    /\ req.cmd # "none"
    /\ IF req.cmd = "F" /\ ~ EvalThrows(req.slots, req.bits)
       THEN tree' = [tree EXCEPT ![bucket] = EvalWaksman(req.slots, req.bits)] /\ Answer(Ack)
       ELSE Refuse /\ UNCHANGED tree
    /\ UNCHANGED <<bucket, conn>>

\* A request to quit, or one of an unknown kind, which throws.
HandleQuit ==
    /\ spc = "recv"
    /\ req.cmd \notin Commands \cup {"none"}
    /\ Refuse
    /\ UNCHANGED <<tree, bucket, conn>>

\* RecvData throws: end of stream, or a reset that discards what was buffered.
ServerRecvThrows ==
    /\ spc \in {"recv", "clear", "triplet", "refresh"}
    /\ MayThrow
    /\ Refuse
    /\ UNCHANGED <<tree, bucket, conn>>

\* Stop is called from another thread; the loop looks at the flag only after
\* a command.
Stop ==
    /\ "stop" \in Faults
    /\ spc \notin {"left", "destroyed"}
    /\ running' = FALSE
    /\ UNCHANGED <<tree, spc, bucket, conn, req, resp>>

\* The thread that ran HandleRequests destroys the server, and the socket is
\* closed.
DestroyServer ==
    /\ spc = "left"
    /\ spc' = "destroyed"
    /\ conn' = "down"
    /\ UNCHANGED <<tree, running, bucket, req, resp>>

ServerStep ==
    \/ HandleAccess \/ HandleClearPath \/ ClearSlot \/ AckClearPath
    \/ HandleReadBucket \/ HandleWriteSlot
    \/ HandleEvictTriplet \/ ChildUpdate \/ ClearSource
    \/ HandleLeafRefresh \/ RefreshLeaf
    \/ HandleQuit \/ ServerRecvThrows
=============================================================================
