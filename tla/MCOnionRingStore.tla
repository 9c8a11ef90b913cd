-------------------------- MODULE MCOnionRingStore --------------------------
(***************************************************************************)
(* Small instances of OnionRingStore for TLC.                              *)
(***************************************************************************)
EXTENDS OnionRingStore
=============================================================================
