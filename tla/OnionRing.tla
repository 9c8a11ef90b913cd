------------------------------ MODULE OnionRing -----------------------------
(***************************************************************************)
(* An Onion Ring ORAM client and server joined by a connection that may be *)
(* lost at any moment.                                                     *)
(***************************************************************************)
EXTENDS OnionRingServer, OnionRingClient

VARIABLE oracle     \* history: the value last written, as in the tests

vars == <<serverVars, clientVars, conn, req, resp, oracle>>

Init ==
    /\ ConstructServer
    /\ ConstructClient
    /\ conn = "up"
    /\ req = NoMsg
    /\ resp = NoMsg
    /\ oracle = [a \in Addr |-> Zero]

\* The thread of the server: HandleRequests, with the commands this client sends,
\* and then the destructor.
ServerThread ==
    /\ \/ StartHandleRequests
       \/ HandleAccess \/ HandleClearPath \/ ClearSlot \/ AckClearPath
       \/ HandleReadBucket \/ HandleWriteSlot \/ HandleQuit \/ ServerRecvThrows
       \/ DestroyServer
    /\ UNCHANGED <<clientVars, oracle>>

Stopper ==
    /\ Stop
    /\ UNCHANGED <<clientVars, oracle>>

\* The oracle follows a write at the step that computes the call's result.
ClientWork ==
    /\ \/ /\ \/ SelectSlots \/ TakeSum \/ Place \/ RootWritten
             \/ TakeBucket \/ SlotWritten \/ Return \/ RecvThrows
          /\ UNCHANGED oracle
       \/ /\ PathCleared
          /\ oracle' = IF call.op = "WRITE" THEN [oracle EXCEPT ![call.addr] = call.data] ELSE oracle
    /\ UNCHANGED serverVars

Caller ==
    /\ DestroyClient \/ \E c \in Calls : Access(c)
    /\ UNCHANGED <<serverVars, oracle>>

NetworkNext ==
    /\ "network" \in Faults
    /\ ConnectionLost
    /\ UNCHANGED <<serverVars, clientVars, oracle>>

\* Both ends have gone.
Terminated ==
    /\ cpc = "destroyed" /\ spc = "destroyed"
    /\ UNCHANGED vars

Next == ServerThread \/ Stopper \/ ClientWork \/ Caller \/ NetworkNext \/ Terminated

Spec == Init /\ [][Next]_vars

\* The threads keep running: a handler or a call that can take a step takes it,
\* and a server whose loop has ended is destroyed.  Nothing makes the caller
\* call, the network fail or Stop be called.
Fairness == WF_vars(ServerThread) /\ WF_vars(ClientWork)

FairSpec == Spec /\ Fairness

-----------------------------------------------------------------------------
Contents == [Slots -> Data]
Ids      == [Slots -> Addr \cup {NoBlock}]
Entries  == [id : Addr \cup {NoBlock}, data : Data]

\* What the client sends and what the server answers.
Requests ==
    [cmd : {"A"}, leaf : Leaves, selections : [1 .. TreeHeight + 1 -> Slots]]
    \cup [cmd : {"C"}, leaf : Leaves, selections : Seq(Slots)]
    \cup [cmd : {"R"}, node : Nodes]
    \cup [cmd : {"U"}, node : Nodes, slot : Slots, data : Data]
    \cup [cmd : {"Q"}]

Replies == [cmd : {"sum"}, sum : Data] \cup [cmd : {"bucket"}, slots : Contents] \cup {Ack}

\* The types of the variables: above all, every slot of the server holds a
\* ciphertext, the id map has an id, or none, for every slot of the tree, and the
\* client asks for no slot that does not exist.
TypeOK ==
    /\ tree \in [Nodes -> Contents]
    /\ running \in BOOLEAN
    /\ spc \in ServerPoints
    /\ bucket = 0
    /\ posMap \in [Addr -> Leaves]
    /\ idMap \in [Nodes -> Ids]
    /\ accessCount \in 0 .. SizeTModulus - 1
    /\ evictions \in 0 .. SizeTModulus - 1
    /\ cpc \in ClientPoints
    /\ call \in Calls \cup {NoCall}
    /\ oldLeaf \in Leaves
    /\ picks \in Seq(Slots)
    /\ pathSum \in Data
    /\ result \in Data \cup {NoResult}
    /\ todo \in Seq(Nodes)
    /\ fetched \in Seq(Contents)
    /\ contents \in Seq([Slots -> Entries])
    /\ cursor \in (1 .. 3) \X Slots
    /\ failed \in BOOLEAN
    /\ conn \in {"up", "down"}
    /\ req \in Requests \cup {NoMsg}
    /\ resp \in Replies \cup {NoMsg}
    /\ oracle \in [Addr -> Data]

-----------------------------------------------------------------------------
\* No call has thrown; otherwise nothing more is promised.
Working == ~ failed /\ cpc # "destroyed" /\ conn = "up" /\ spc \notin {"left", "destroyed"}

AfterCursor(k, s) == k > cursor[1] \/ (k = cursor[1] /\ s > cursor[2])

\* The tree and the id map as they will be when the writes under way are done,
\* the one in the connection and those that the client has still to send.
TreeToBe ==
    LET next == IF req.cmd = "U" THEN [tree EXCEPT ![req.node][req.slot] = req.data] ELSE tree
    IN  [n \in Nodes |-> [s \in Slots |->
            IF \E k \in DOMAIN contents : WriteOrder[k] = n /\ AfterCursor(k, s)
            THEN contents[CHOOSE k \in DOMAIN contents : WriteOrder[k] = n][s].data
            ELSE next[n][s]]]

IdsToBe ==
    IF cpc = "root" THEN [idMap EXCEPT ![0][RootSlot] = call.addr] ELSE InstallIds

\* The slots HandleClearPath is at: cleared already or not yet.
BeingCleared ==
    IF cpc = "clear" THEN {<<Paths[oldLeaf][k], picks[k]>> : k \in DOMAIN picks} ELSE {}

Places(id) == {p \in Nodes \X Slots : IdsToBe[p[1]][p[2]] = id}

\* What the client believes of the server's slots is true, or will be when the
\* writes under way are done: a slot without a block holds zero, so that it adds
\* nothing to a path sum, and a slot with one its current value; a block has at
\* most one slot, on the path to its position unless it is being accessed; and
\* one without a slot was never written, or is in the client's hands.
IdMapTellsTheTruth ==
    Working =>
      /\ \A p \in (Nodes \X Slots) \ BeingCleared :
           LET id == IdsToBe[p[1]][p[2]]
           IN  TreeToBe[p[1]][p[2]] = IF id = NoBlock THEN Zero ELSE oracle[id]
      /\ \A a \in Addr :
           LET inHand == call # NoCall /\ call.addr = a
           IN  /\ Cardinality(Places(a)) <= 1
               /\ \A p \in Places(a) :
                    OnPath(p[1], IF inHand /\ cpc \in {"select", "sum", "clear"} THEN oldLeaf ELSE posMap[a])
               /\ Places(a) = {} => oracle[a] = Zero \/ (inHand /\ picks # << >> /\ result = oracle[a])

\* Every eviction empties the root, so that between two of them it has a slot
\* left for each access, and the eviction in Access that is to make room for a
\* block already taken from the tree is never needed.
RootBudget ==
    Working /\ A # 0 =>
      /\ cpc = "idle" => Cardinality({s \in Slots : idMap[0][s] # NoBlock}) <= accessCount % A
      /\ cpc # "retry"

\* Seen by its caller, the client is a RAM: reads give the last value written,
\* and once a call has thrown none succeeds again.
Memory == INSTANCE RAM WITH mem <- oracle
RefinesRAM == Memory!RAMSpec

\* What a call returns is the value last written, whatever calls have thrown
\* before it: the tests compare every read with an oracle.
ReadsGiveLastWrite ==
    [][result' # result /\ result' # NoResult => result' = oracle'[call.addr]]_vars

\* A call returns or throws, with its whole eviction.
CallsEnd == cpc = "select" ~> cpc \in {"idle", "destroyed"}

\* Once the client is gone the server thread ends, as the tests' join needs.
ServerEnds == cpc = "destroyed" ~> spc = "destroyed"
=============================================================================
