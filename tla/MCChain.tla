------------------------------ MODULE MCChain ------------------------------
(***************************************************************************)
(* Instances of Chain for TLC.                                             *)
(***************************************************************************)
EXTENDS Chain, TLC

\* Two prices, two gas limits of which one fills a block, the three fates.
PoolShapes ==
  {[price |-> 1, gas |-> 1, fate |-> "ok"],
   [price |-> 2, gas |-> 2, fate |-> "throws"],
   [price |-> 1, gas |-> 2, fate |-> "poor"],
   [price |-> 1, gas |-> 3, fate |-> "ok"]}

\* Accounts are interchangeable.
AccountSymmetry == Permutations(Accounts)

\* One transaction that succeeds and one that fails its block.
TimeShapes ==
  {[price |-> 1, gas |-> 1, fate |-> "ok"],
   [price |-> 1, gas |-> 1, fate |-> "poor"]}
=============================================================================
