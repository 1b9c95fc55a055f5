---------------------------- MODULE MCBlockFilters ----------------------------
(***************************************************************************)
(* BlockFilters for TLC.                                                   *)
(***************************************************************************)
EXTENDS BlockFilters
=============================================================================
