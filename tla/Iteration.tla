----------------------------- MODULE Iteration ------------------------------
(***************************************************************************)
(* Repeated application of a function.  The loops of the source that halve *)
(* an index, climb to a parent or double a width are instances of it.      *)
(* Written with a recursive function, so that theorems can be proved about *)
(* it (FoundationsLemmas).                                                 *)
(***************************************************************************)
EXTENDS Naturals

Iterates(g, a) ==
    LET it[k \in Nat] == IF k = 0 THEN a ELSE g[it[k - 1]]
    IN  it

\* g applied n times, starting at a.
Iterate(g, a, n) == Iterates(g, a)[n]
=============================================================================
