-------------------------- MODULE MCRingORAMStore ---------------------------
(***************************************************************************)
(* Small instances of RingORAMStore for TLC.                               *)
(***************************************************************************)
EXTENDS RingORAMStore
=============================================================================
