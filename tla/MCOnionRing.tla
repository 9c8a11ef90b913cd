---------------------------- MODULE MCOnionRing -----------------------------
(***************************************************************************)
(* Small instances of OnionRing for TLC.                                   *)
(***************************************************************************)
EXTENDS OnionRing
=============================================================================
