--------------------------- MODULE MCIntervalMiner ---------------------------
(***************************************************************************)
(* IntervalMiner for TLC.                                                  *)
(***************************************************************************)
EXTENDS IntervalMiner
=============================================================================
