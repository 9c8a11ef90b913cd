----------------------------- MODULE RingBlocks -----------------------------
(***************************************************************************)
(* Blocks, buckets and the stash of Ring ORAM.  A bucket has Z + S slots.  *)
(* Its metadata lists the real blocks it was written with and the slot of  *)
(* each; every other slot holds a zero dummy.  A slot stays valid until it *)
(* is read.  The model keeps the payload of a slot with the entry that     *)
(* points to it, and leaves out the entries of dummies, which point to     *)
(* nothing that is ever looked at.                                         *)
(***************************************************************************)
EXTENDS Tree, Sequences, FiniteSets

CONSTANTS NumBlocks,     \* logical addresses are 0 .. NumBlocks - 1
          Data, Zero,    \* payloads, and the all-zero one
          Z, S,          \* real blocks per bucket; reads before a rewrite
          SizeTModulus,  \* 2^64 in the code: the width of the counters
          Faults         \* what may go wrong: "disk", a bucket file fails to
                         \* open or write; "stash", the client's file does;
                         \* "stop", another thread calls Stop; "network"

ASSUME RingBlocksAssumption ==
    /\ NumBlocks \in Nat \ {0}
    /\ Zero \in Data
    /\ Z \in Nat \ {0}
    /\ S \in Nat \ {0}
    /\ SizeTModulus \in Nat \ {0}
    /\ Faults \subseteq {"disk", "stash", "stop", "network"}

Addr  == 0 .. NumBlocks - 1
Slots == 0 .. Z + S - 1

\* A sequence cut down to a set of its indices.
Pick(s, indices) ==
    LET kept[k \in 0 .. Len(s)] ==
          IF k = 0 THEN << >>
          ELSE IF k \in indices THEN Append(kept[k - 1], s[k]) ELSE kept[k - 1]
    IN  kept[Len(s)]

\* Mutant: nothing is taken out.
WithoutNothing(s, addr) == s

Without(s, addr) == Pick(s, {k \in 1 .. Len(s) : s[k].addr # addr})

\* PutBlockInStash: the block replaces the one with its address.
Put(s, block) == Append(Without(s, block.addr), block)

\* Tables, for every node and leaf at once.
ResidesIn == [n \in Nodes |-> [leaf \in Leaves |-> IsBucketOnLeafPath(n, leaf)]]
Paths     == [leaf \in Leaves |-> PathFromRoot(leaf)]

\* What FillBucketFromStash takes for bucket n: the first Z blocks of the stash
\* that may reside there.
Selection(s, n) ==
    LET eligible == {k \in 1 .. Len(s) : ResidesIn[n][s[k].leaf]}
    IN  {k \in eligible : Cardinality({j \in eligible : j < k}) < Z}

Selected(s, n)   == Pick(s, Selection(s, n))

\* Mutant: what was selected is not erased.
UnselectedOrNot(s, n) == s

Unselected(s, n) == Pick(s, (1 .. Len(s)) \ Selection(s, n))

\* ResetWithBlocks: the blocks go to distinct slots in a random order, and
\* every slot is valid again.
Layouts(blocks) ==
    {ptrs \in [1 .. Len(blocks) -> Slots] :
        \A i, j \in 1 .. Len(blocks) : ptrs[i] = ptrs[j] => i = j}

ResetWithBlocks(blocks, ptrs) ==
    [count   |-> 0,
     valids  |-> Slots,
     entries |-> [i \in 1 .. Len(blocks) |->
                    [addr |-> blocks[i].addr, leaf |-> blocks[i].leaf,
                     ptr |-> ptrs[i], data |-> blocks[i].data]]]

MetadataFromBucket(b) ==
    [count   |-> b.count,
     valids  |-> b.valids,
     entries |-> [i \in 1 .. Len(b.entries) |->
                    [addr |-> b.entries[i].addr, leaf |-> b.entries[i].leaf, ptr |-> b.entries[i].ptr]]]

SlotData(b, slot) ==
    IF \E i \in 1 .. Len(b.entries) : b.entries[i].ptr = slot
    THEN b.entries[CHOOSE i \in 1 .. Len(b.entries) : b.entries[i].ptr = slot].data
    ELSE Zero

\* Mutant: the count is forgotten.
InvalidateUncounted(b, slot) ==
    [count |-> b.count, valids |-> b.valids \ {slot}, entries |-> b.entries]

\* The server's part of a read of one slot.
Invalidate(b, slot) ==
    [count |-> b.count + 1, valids |-> b.valids \ {slot}, entries |-> b.entries]

\* Mutant: the slot may have been read already.
AllReals(b) == 1 .. Len(b.entries)

ValidReals(b) == {i \in 1 .. Len(b.entries) : b.entries[i].ptr \in b.valids}

ValidDummyOffsets(b) == b.valids \ {b.entries[i].ptr : i \in ValidReals(b)}

Targets(b, addr) == {i \in ValidReals(b) : b.entries[i].addr = addr}

\* GetBlockOffset: the slots it may return, none when it throws.
BlockOffsets(b, addr) ==
    LET hits == Targets(b, addr)
    IN  IF hits = {} THEN ValidDummyOffsets(b)
        ELSE {b.entries[CHOOSE i \in hits : \A j \in hits : i <= j].ptr}

\* The blocks ReadBucket puts in the stash, and whether the rest of the bucket
\* pads the read to Z slots.
BlocksRead(b) ==
    LET valid == Pick(b.entries, ValidReals(b))
    IN  [k \in 1 .. Len(valid) |->
           [addr |-> valid[k].addr, leaf |-> valid[k].leaf, data |-> valid[k].data]]

PadsToZ(b) == Cardinality(b.valids) >= Z
=============================================================================
