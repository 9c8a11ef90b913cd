------------------------------- MODULE Blocks -------------------------------
(***************************************************************************)
(* Blocks and buckets (include/oram/core).  A block's data is opaque; Zero *)
(* stands for the all-zero payload.  A bucket is the sequence of its       *)
(* blocks, and the serializer is modelled by what it does to them: it      *)
(* keeps ids, data and order, and drops what does not fit the capacity.    *)
(***************************************************************************)
EXTENDS Integers, Sequences

CONSTANTS NumBlocks,     \* logical addresses are 0 .. NumBlocks - 1
          Data, Zero,    \* payloads
          BucketSize     \* kBucketSize

ASSUME BlocksAssumption ==
    /\ NumBlocks \in Nat \ {0}
    /\ BucketSize \in Nat \ {0}
    /\ Zero \in Data

Addr    == 0 .. NumBlocks - 1
DummyId == -1                                     \* ~0ULL

Block     == [id : Addr, data : Data]
Dummy     == [id |-> DummyId, data |-> Zero]
AnyBlock  == Block \cup {Dummy}
Buckets   == UNION {[1 .. m -> AnyBlock] : m \in 0 .. BucketSize}

\* The blocks of s whose id is not x, in order: what ReadPath keeps of a
\* bucket (x = DummyId) and what std::remove_if leaves of the stash.
WithoutId(s, x) ==
    LET kept[k \in 0 .. Len(s)] ==
          IF k = 0 THEN << >>
          ELSE IF s[k].id = x THEN kept[k - 1] ELSE Append(kept[k - 1], s[k])
    IN  kept[Len(s)]

\* The data of the first block of s with id x, or the zero payload.
DataOf(s, x) ==
    IF \E k \in 1 .. Len(s) : s[k].id = x
    THEN s[CHOOSE k \in 1 .. Len(s) : s[k].id = x /\ \A j \in 1 .. k - 1 : s[j].id # x].data
    ELSE Zero

FillBucketWithDummies(b) ==
    b \o [k \in 1 .. BucketSize - Len(b) |-> Dummy]

\* AddBlock refuses a block once the bucket is full and DeserializeBucket
\* ignores the refusal.
DeserializeBucket(b) ==
    IF Len(b) <= BucketSize THEN b ELSE SubSeq(b, 1, BucketSize)
=============================================================================
