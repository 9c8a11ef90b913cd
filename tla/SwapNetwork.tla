---------------------------- MODULE SwapNetwork -----------------------------
(***************************************************************************)
(* The fixed swap network of Onion Ring ORAM: as many phases as there are  *)
(* elements, each of gates between neighbours, the even pairs and the odd  *)
(* pairs in turn.  One bit per gate says whether it swaps.  A gate is      *)
(* given by the position of its first element, counted from 1.  A          *)
(* permutation p sends element p[d] to position d.                         *)
(***************************************************************************)
EXTENDS Naturals, Sequences

Phase(size, phase) ==
    LET start == phase % 2
    IN  [k \in 1 .. (size - start) \div 2 |-> start + 2 * k - 1]

\* The gates of the first phases, one phase after the other.
GatesOf(size, phases) ==
    LET gates[q \in 0 .. phases] == IF q = 0 THEN << >> ELSE gates[q - 1] \o Phase(size, q - 1)
    IN  gates[phases]

\* Mutant: one phase is missing.
OnePhaseShort(size) == GatesOf(size, size - 1)

\* BuildNetwork.
Gates(size)    == GatesOf(size, size)
NumGates(size) == Len(Gates(size))

Swapped(s, g) == [s EXCEPT ![g] = s[g + 1], ![g + 1] = s[g]]

IsPermutation(p, size) == Len(p) = size /\ {p[d] : d \in 1 .. Len(p)} = 1 .. size

\* The loop of GenerateSwapBits: the elements, sorted by the position they are
\* wanted at, and the bits that sort them.
Sorting(p) ==
    LET gates == Gates(Len(p))
        rank  == [e \in 1 .. Len(p) |-> CHOOSE d \in 1 .. Len(p) : p[d] = e]
        turn[k \in 0 .. Len(gates)] ==
          IF k = 0
          THEN [current |-> [e \in 1 .. Len(p) |-> e], bits |-> << >>]
          ELSE LET st   == turn[k - 1]
                   swap == rank[st.current[gates[k]]] > rank[st.current[gates[k] + 1]]
               IN  [current |-> IF swap THEN Swapped(st.current, gates[k]) ELSE st.current,
                    bits    |-> Append(st.bits, swap)]
    IN  turn[Len(gates)]

\* It throws when the network has not sorted them.
CanSynthesize(p)    == Sorting(p).current = p
GenerateSwapBits(p) == Sorting(p).bits

\* Mutant: the arguments are swapped.
CMuxSwapped(bit, d1, d0) == IF bit THEN d0 ELSE d1

\* On ciphertexts: an encryption of what d1 encrypts if the bit is set, of what
\* d0 encrypts if not.
CMux(bit, d1, d0) == IF bit THEN d1 ELSE d0

EvalThrows(data, bits) == Len(data) < 2 \/ Len(bits) # NumGates(Len(data))

EvalWaksman(data, bits) ==
    LET gates == Gates(Len(data))
        turn[k \in 0 .. Len(gates)] ==
          IF k = 0
          THEN data
          ELSE LET s == turn[k - 1]
                   g == gates[k]
               IN  [s EXCEPT ![g]     = CMux(bits[k], s[g + 1], s[g]),
                             ![g + 1] = CMux(bits[k], s[g], s[g + 1])]
    IN  turn[Len(gates)]
=============================================================================
