-------------------------------- MODULE Tree --------------------------------
(***************************************************************************)
(* The geometry of the binary tree every scheme of the repository keeps    *)
(* its buckets in: a flat array, root at index 0, children of n at 2n + 1  *)
(* and 2n + 2, the 2^TreeHeight leaves last.                               *)
(***************************************************************************)
EXTENDS Iteration

CONSTANT TreeHeight

ASSUME TreeHeightAssumption == TreeHeight \in Nat

Double == [x \in Nat |-> 2 * x]
Halve  == [x \in Nat |-> x \div 2]

Pow2(n)          == Iterate(Double, 1, n)     \* 1ULL << n
ShiftRight(x, n) == Iterate(Halve, x, n)      \* x >> n

NumLeaves    == Pow2(TreeHeight)
LeafOffset   == Pow2(TreeHeight) - 1
NumTreeNodes == Pow2(TreeHeight + 1) - 1

Leaves == 0 .. NumLeaves - 1
Nodes  == 0 .. NumTreeNodes - 1
Levels == 0 .. TreeHeight       \* distance from the leaf, as the client counts

\* One turn of the loop that climbs to the root, where it stops.
Parent == [n \in Nat |-> IF n = 0 THEN 0 ELSE (n - 1) \div 2]

\* The node i steps above a leaf, and the path from the leaf to the root.
PathNode(leaf, i) == Iterate(Parent, LeafOffset + leaf, i)

GetPathIndices(leaf) == [k \in 1 .. TreeHeight + 1 |-> PathNode(leaf, k - 1)]

\* Mutant: the bit of the level below.
GetBucketIndexNextBit(leaf, level) ==
    LET node[l \in Levels] ==
          IF l = 0 THEN 0
          ELSE 2 * node[l - 1] + 1 + (ShiftRight(2 * leaf, TreeHeight - l) % 2)
    IN  node[level]

\* The same path walked from the root, one bit of the leaf per level.
GetBucketIndex(leaf, level) ==
    LET node[l \in Levels] ==
          IF l = 0 THEN 0
          ELSE 2 * node[l - 1] + 1 + (ShiftRight(leaf, TreeHeight - l) % 2)
    IN  node[level]

\* The same path from the root down, as the Ring ORAM classes list it.
PathFromRoot(leaf) == [k \in 1 .. TreeHeight + 1 |-> GetBucketIndex(leaf, k - 1)]

\* How many turns of the climbing loop reach the root.
GetNodeLevel(node) ==
    CHOOSE l \in Levels :
        Iterate(Parent, node, l) = 0 /\ \A m \in Levels : m < l => Iterate(Parent, node, m) # 0

IsBucketOnLeafPath(node, leaf) == GetBucketIndex(leaf, GetNodeLevel(node)) = node

\* Mutant: the shift is one level too far.
CanPlaceOneLevelOff(blockLeaf, targetLeaf, level) ==
    ShiftRight(blockLeaf, level + 1) = ShiftRight(targetLeaf, level + 1)

\* The client's test that a block mapped to blockLeaf may go into the bucket
\* `level` steps above targetLeaf.
CanPlaceInBucket(blockLeaf, targetLeaf, level) ==
    ShiftRight(blockLeaf, level) = ShiftRight(targetLeaf, level)

\* Mutant: the bits are copied, not reversed.
CopyBits(value, numBits) == value % Pow2(numBits)

\* The order in which Onion Ring ORAM evicts: the low numBits bits of a counter,
\* the lowest first.
ReverseBits(value, numBits) ==
    LET reversed[i \in 0 .. numBits] ==
          IF i = 0 THEN 0 ELSE 2 * reversed[i - 1] + (ShiftRight(value, i - 1) % 2)
    IN  reversed[numBits]

OnPath(node, leaf) == \E i \in Levels : node = PathNode(leaf, i)
=============================================================================
