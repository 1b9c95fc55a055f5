---------------------------- MODULE SnapshotSpec ----------------------------
(***************************************************************************)
(* What evm_snapshot and evm_revert promise a test suite (README.md,       *)
(* "Implemented Methods"): a snapshot saves the chain, the account state   *)
(* and the time adjustment whole; reverting to it brings all three back,   *)
(* whatever happened in between, and forgets that snapshot and the later   *)
(* ones; and nothing else changes until the revert is answered.  Chain,    *)
(* which keeps only a block number and pops blocks one at a time,          *)
(* implements this.                                                        *)
(***************************************************************************)
EXTENDS Integers, Sequences

VARIABLES
  chain,       \* the blocks
  world,       \* the account state
  adjustment,  \* the seconds added to the wall clock
  saved,       \* the snapshots: [chain, world, adjustment]
  reverting    \* a revert was accepted and is not answered yet

vars == <<chain, world, adjustment, saved, reverting>>

Init ==
  /\ Len(chain) = 1
  /\ world = chain[1].root
  /\ adjustment = 0
  /\ saved = <<>>
  /\ ~reverting

Mine ==
  /\ ~reverting
  /\ Len(chain') = Len(chain) + 1
  /\ SubSeq(chain', 1, Len(chain)) = chain
  /\ world' = chain'[Len(chain')].root
  /\ UNCHANGED <<adjustment, saved, reverting>>

IncreaseTime ==
  /\ ~reverting
  /\ adjustment' >= adjustment
  /\ UNCHANGED <<chain, world, saved, reverting>>

Save ==
  /\ ~reverting
  /\ saved' = Append(saved, [chain |-> chain, world |-> world,
                             adjustment |-> adjustment])
  /\ UNCHANGED <<chain, world, adjustment, reverting>>

Restore ==
  /\ ~reverting /\ reverting'
  /\ \E id \in DOMAIN saved :
       /\ chain' = saved[id].chain
       /\ world' = saved[id].world
       /\ adjustment' = saved[id].adjustment
       /\ saved' = SubSeq(saved, 1, id - 1)

AnswerRestore ==
  /\ reverting /\ ~reverting'
  /\ UNCHANGED <<chain, world, adjustment, saved>>

Next == Mine \/ IncreaseTime \/ Save \/ Restore \/ AnswerRestore

Spec == Init /\ [][Next]_vars
=============================================================================
