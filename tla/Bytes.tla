------------------------------- MODULE Bytes --------------------------------
(***************************************************************************)
(* Numbers as sequences of bytes: the length that goes before a vector on  *)
(* the wire, lowest byte first, and the counter of AES-CTR, lowest byte    *)
(* last.                                                                   *)
(***************************************************************************)
EXTENDS Iteration, Sequences, SequencesExt

CONSTANT Base       \* values of a byte, 256 in the code

ASSUME BytesAssumption == Base \in Nat \ {0, 1}

Byte == 0 .. Base - 1

\* A counter of n bytes wraps here.
Power(n) == Iterate([x \in Nat |-> Base * x], 1, n)

\* The number a sequence of bytes stands for, and the bytes of a number.
BigEndian(bytes) ==
    LET value[k \in 0 .. Len(bytes)] == IF k = 0 THEN 0 ELSE Base * value[k - 1] + bytes[k]
    IN  value[Len(bytes)]

LittleEndian(bytes) == BigEndian(Reverse(bytes))

SizeBytes(n, width) == CHOOSE bytes \in [1 .. width -> Byte] : LittleEndian(bytes) = n

\* Mutant: the carry of the byte before is forgotten.
AddWithoutCarry(st, i) ==
    [iv |-> [st.iv EXCEPT ![i] = (@ + (st.left % Base)) % Base], left |-> st.left \div Base]

\* The body of the loop from the last byte to the first, with what is left to add.
AddToByte(st, i) ==
    LET sum == st.iv[i] + (st.left % Base)
    IN  [iv   |-> [st.iv EXCEPT ![i] = sum % Base],
         left |-> (st.left \div Base) + (sum \div Base)]

IncrementCounter(iv, increment) ==
    LET turn[k \in 0 .. Len(iv)] ==
          IF k = 0 THEN [iv |-> iv, left |-> increment]
          ELSE AddToByte(turn[k - 1], Len(iv) + 1 - k)
    IN  turn[Len(iv)].iv
=============================================================================
