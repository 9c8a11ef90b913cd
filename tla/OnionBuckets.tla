---------------------------- MODULE OnionBuckets ----------------------------
(***************************************************************************)
(* Blocks and buckets of Onion Ring ORAM.  A ciphertext is modelled by     *)
(* what it decrypts to; a cleared slot decrypts to zero, and the server    *)
(* adds ciphertexts, byte by byte modulo 256, without knowing what they    *)
(* hold.  Which block lies in which slot is known to the client alone.     *)
(* Slots are counted from 1 here and from 0 in the code.                   *)
(***************************************************************************)
EXTENDS Tree, Integers, Sequences, FiniteSets, SequencesExt

CONSTANTS NumBlocks,     \* logical addresses are 0 .. NumBlocks - 1
          BucketSlots,   \* z + s
          ByteModulus,   \* 256 in the code: a payload is one byte
          SizeTModulus,  \* 2^64 in the code: the width of the counters
          Faults         \* what may go wrong: "stop", another thread calls
                         \* Stop; "network", the connection is lost

ASSUME OnionBucketsAssumption ==
    /\ NumBlocks \in Nat \ {0}
    /\ BucketSlots \in Nat \ {0}
    /\ ByteModulus \in Nat \ {0}
    /\ SizeTModulus \in Nat \ {0}
    /\ Faults \subseteq {"stop", "network"}

Addr  == 0 .. NumBlocks - 1
Slots == 1 .. BucketSlots
Data  == 0 .. ByteModulus - 1
Zero  == 0

\* tLweAddTo on the plaintexts.
Plus(x, y) == (x + y) % ByteModulus

ClearedBucket == [s \in Slots |-> Zero]

\* The path of a leaf, root first, for every leaf at once.
Paths == [leaf \in Leaves |-> PathFromRoot(leaf)]

Shuffles == {p \in [Slots -> Slots] : \A i, j \in Slots : p[i] = p[j] => i = j}
=============================================================================
