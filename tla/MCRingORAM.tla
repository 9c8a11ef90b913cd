----------------------------- MODULE MCRingORAM -----------------------------
(***************************************************************************)
(* Small instances of RingORAM for TLC.                                    *)
(***************************************************************************)
EXTENDS RingORAM
=============================================================================
