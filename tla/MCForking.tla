------------------------------ MODULE MCForking ------------------------------
(***************************************************************************)
(* Instances of Forking for TLC.                                           *)
(***************************************************************************)
EXTENDS Forking

CONSTANTS own, other

Does(account, effects) == [account : {account}, effect : effects]

\* The other node touches either account, and adds to the slot of its contract.
TxsThere == Does(own, {"none"}) \cup Does(other, {"adds"})

\* This node does so the other way round, and does all it can to the storage and to
\* the account of the contract.
TxsHere == Does(own, {"adds"}) \cup Does(other, {"clears", "throws", "destroys"})

CallsHere == Does(other, {"adds"})

\* About a revert, it adds only.
Additions == Does(own, {"adds"}) \cup Does(other, {"none"})

NoCalls == {}
=============================================================================
