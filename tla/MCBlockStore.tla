---------------------------- MODULE MCBlockStore ----------------------------
(***************************************************************************)
(* BlockStore for TLC: a genesis and two rival blocks, which share a       *)
(* transaction.                                                            *)
(***************************************************************************)
EXTENDS BlockStore

MCTxsOf == [b \in BlockIds |->
              CASE b = "b1" -> <<"t1">>
                [] b = "b2" -> <<"t1", "t2">>
                [] OTHER    -> <<>>]
=============================================================================
