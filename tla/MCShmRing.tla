----------------------------- MODULE MCShmRing -----------------------------
(***************************************************************************)
(* Small instances of ShmRing.                                             *)
(***************************************************************************)
EXTENDS ShmRing, TLC
=============================================================================
