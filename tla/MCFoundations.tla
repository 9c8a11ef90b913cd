---------------------------- MODULE MCFoundations ---------------------------
(***************************************************************************)
(* What the ORAM classes are built on, each part on its own: a behaviour   *)
(* climbs two paths of the tree side by side, or puts a permutation        *)
(* through the swap network, or increments a counter, or sends vectors     *)
(* through a connection.                                                   *)
(***************************************************************************)
EXTENDS Tree, SwapNetwork, NetIOStream

CONSTANTS Sizes,        \* of swap networks
          Increments    \* of the AES counter

\* The constructor of WaksmanNetwork throws on a smaller size.
ASSUME SizesAssumption == Sizes \subseteq Nat \ {0, 1}

ASSUME IncrementsAssumption == Increments \subseteq Nat

VARIABLE example

vars == <<streamVars, example>>

Climbs   == [part : {"paths"}, leaf : Leaves, other : Leaves, level : {0}]
Shuffles == {[part |-> "network", perm |-> p] :
               p \in {q \in UNION {[1 .. n -> 1 .. n] : n \in Sizes} : IsPermutation(q, Len(q))}}
Counters == [part : {"counter"}, iv : [1 .. Width + 1 -> Byte], increment : Increments]

\* Vectors of sizes with one byte that counts, with two, and with none.
Vectors == {<< >>, <<Base - 1>>, [k \in 1 .. Base |-> k - 1]}

Init ==
    \/ example \in Climbs \cup Shuffles \cup Counters /\ StreamInit(<< >>)
    \/ example = [part |-> "stream"] /\ \E vs \in [1 .. 2 -> Vectors] : StreamInit(vs)

Climb ==
    /\ example.part = "paths" /\ example.level < TreeHeight
    /\ example' = [example EXCEPT !.level = @ + 1]
    /\ UNCHANGED streamVars

Stream ==
    /\ example.part = "stream"
    /\ StreamNext
    /\ UNCHANGED example

\* There is nothing left to do; a client whose server threw retries for ever.
Done ==
    /\ \/ example.part \in {"network", "counter"}
       \/ example.part = "paths" /\ example.level = TreeHeight
       \/ example.part = "stream" /\ server \in {"done", "threw"} /\ client \in {"done", "threw", "retry"}
    /\ UNCHANGED vars

Next == Climb \/ Stream \/ Done

Spec == Init /\ [][Next]_vars /\ StreamFairness

-----------------------------------------------------------------------------
\* The shift by which CanPlaceInBucket decides and the (i - 1) / 2 by which
\* GetPathIndices climbs agree: a block may go into a bucket of the path
\* exactly when that bucket is on the block's own path.
PathsMeetWhereShiftsDo ==
    example.part = "paths" =>
      (CanPlaceInBucket(example.other, example.leaf, example.level)
         <=> OnPath(PathNode(example.leaf, example.level), example.other))

\* GetBucketIndex, which walks down from the root by the bits of the leaf, and
\* GetPathIndices, which climbs, name the same bucket; the climb never leaves
\* the tree and reaches the root by its last step; and IsBucketOnLeafPath, which
\* combines a climb with a descent, accepts the buckets of the path only.
DownAgreesWithUp ==
    example.part = "paths" =>
      LET node == GetPathIndices(example.leaf)[example.level + 1]
      IN  /\ GetBucketIndex(example.leaf, TreeHeight - example.level) = node
          /\ PathFromRoot(example.leaf)[TreeHeight - example.level + 1] = node
          /\ node \in Nodes
          /\ example.level = TreeHeight => node = 0
          /\ GetNodeLevel(node) = TreeHeight - example.level
          /\ IsBucketOnLeafPath(node, example.other) <=> OnPath(node, example.other)

\* From wherever the counter stands, 2^l evictions of Onion Ring ORAM in a row
\* come through every one of the 2^l buckets of level l, so that none is left
\* out until it overflows.
EvictionsSpread ==
    example.part = "paths" =>
      LET l == example.level
      IN  Cardinality({GetBucketIndex(ReverseBits((example.leaf + k) % NumLeaves, TreeHeight), l) :
                          k \in 0 .. Pow2(l) - 1}) = Pow2(l)

\* GenerateSwapBits never throws on a permutation: the fixed network is deep
\* enough for each; and EvalWaksman with its bits permutes ciphertexts exactly
\* so.
SwapsAnyPermutation ==
    example.part = "network" =>
      LET p == example.perm
      IN  /\ CanSynthesize(p)
          /\ ~ EvalThrows(p, GenerateSwapBits(p))
          /\ EvalWaksman([k \in 1 .. Len(p) |-> k], GenerateSwapBits(p)) = p

\* IncrementCounter adds, with every carry, and wraps at the top as a counter of
\* that many bytes does.
CounterIsAddition ==
    example.part = "counter" =>
      LET after == IncrementCounter(example.iv, example.increment)
      IN  /\ after \in [1 .. Width + 1 -> Byte]
          /\ BigEndian(after) = (BigEndian(example.iv) + example.increment) % Power(Width + 1)
=============================================================================
