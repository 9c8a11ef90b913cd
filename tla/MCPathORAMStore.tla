-------------------------- MODULE MCPathORAMStore ---------------------------
(***************************************************************************)
(* Small instances of PathORAMStore for TLC.                               *)
(***************************************************************************)
EXTENDS PathORAMStore
=============================================================================
