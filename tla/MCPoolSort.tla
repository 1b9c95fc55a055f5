----------------------------- MODULE MCPoolSort -----------------------------
(***************************************************************************)
(* PoolSort on every pool of at most MaxPool transactions of three senders *)
(* bidding two prices with two gas limits.                                 *)
(***************************************************************************)
EXTENDS PoolSort
=============================================================================
