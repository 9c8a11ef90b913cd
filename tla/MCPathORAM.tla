----------------------------- MODULE MCPathORAM -----------------------------
(***************************************************************************)
(* Small instances of PathORAM for TLC.                                    *)
(***************************************************************************)
EXTENDS PathORAM
=============================================================================
