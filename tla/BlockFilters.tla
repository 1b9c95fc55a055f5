----------------------------- MODULE BlockFilters -----------------------------
(***************************************************************************)
(* Block filters.  The filters are those of web3-provider-engine, fed by   *)
(* the block tracker (lib/block_tracker.js); in front of them              *)
(* DelayedBlockFilter (lib/subproviders/delayedblockfilter.js) makes the   *)
(* first poll of a filter show the block before the one it starts with,    *)
(* which takes up to three requests of its own.  Blocks are mined and      *)
(* reverted between those if requests overlap.  The node may be a fork.    *)
(*                                                                         *)
(* A definition just before another with the same parameters, and not used *)
(* by any other, is a fault the code might have: PROJECT.json pairs them,  *)
(* and README.md says which property each must break.                      *)
(***************************************************************************)
EXTENDS Integers, SequencesExt, FiniteSetsExt

CONSTANTS
  Filters,
  NoBlock,
  NoNumber,     \* undefined, as the number of a block
  MaxPolls,     \* bound: polls ever made
  MaxBlocks,    \* bound: different blocks ever mined
  MaxChanges    \* bound: changes a filter has not told

ASSUME BoundsAssumption ==
  MaxPolls \in Nat /\ MaxBlocks \in Nat \ {0} /\ MaxChanges \in Nat
ASSUME FiltersAssumption == Filters # {}
ASSUME NothingAssumption == NoBlock \notin 0..MaxBlocks

VARIABLES
  overlapping,  \* asyncRequestProcessing, or the calls of one batch
  forked,       \* options.fork
  chain,        \* the blocks, in the order of their numbers from 0; on a fork, from
                \*   the last of the other node
  mined,        \* the last of the different blocks that were ever mined
  tracked,      \* _currentBlock of the tracker, which a revert leaves alone
  installed,    \* the filters the engine has
  changes,      \* what each has not told yet
  watching,     \* those not polled yet
  poll,         \* of each poll: [at, filter, result, number, previous]
  stopped,      \* the poll that threw, or nothing yet: [poll, at]
  parent,       \* the block before each block, which its hash covers
  reverted,     \* history: a revert happened while a poll was on its way
  seen,         \* history: the blocks mined since each filter was made
  current,      \* history: what was tracked when each filter was made
  reported      \* history: the blocks each filter reported

node == <<overlapping, forked, chain, mined, tracked, parent, reverted>>
filters == <<installed, changes, watching, seen, current>>
vars == <<node, filters, poll, stopped, reported>>

Genesis == 0
Blocks == 0..MaxBlocks
Polls == 1..MaxPolls
Height == Len(chain) - 1

\* The number of the first block of this node: the ones before it are not its own.
Start == IF forked THEN 1 ELSE 0
Idle == [at |-> "idle", filter |-> CHOOSE f \in Filters : TRUE, result |-> <<>>,
         number |-> NoNumber, previous |-> NoBlock]
Running == {p \in Polls : poll[p].at \notin {"idle", "answered"}}
-----------------------------------------------------------------------------
Init ==
  /\ overlapping \in BOOLEAN /\ forked \in BOOLEAN
  /\ chain = [i \in 1..(Start + 1) |-> i - 1]
  /\ mined = Start /\ tracked = Start
  /\ installed = {} /\ watching = {}
  /\ changes = [f \in Filters |-> <<>>]
  /\ poll = [p \in Polls |-> Idle]
  /\ stopped = {}
  /\ parent = [b \in Blocks |-> IF b \in 1..Start THEN b - 1 ELSE NoBlock]
  /\ reverted = FALSE
  /\ seen = [f \in Filters |-> {}] /\ reported = [f \in Filters |-> {}]
  /\ current = [f \in Filters |-> Genesis]

\* Whether a request can be handled now.
Turn == overlapping \/ Running = {}

\* A block that is new, or one that was taken back and, with the same transactions on
\* the same parent in the same second, has the same hash.
Minable ==
  {b \in Blocks :
     \/ b = mined + 1
     \/ b \in 1..mined /\ b \notin ToSet(chain) /\ parent[b] = Last(chain)}

\* _setCurrentBlock: every filter there is hears of the block, unless it has the hash
\* of the one tracked.
Mine ==
  /\ Turn /\ \A f \in Filters : Len(changes[f]) < MaxChanges
  /\ \E block \in Minable :
       /\ chain' = Append(chain, block)
       /\ mined' = IF block = mined + 1 THEN block ELSE mined
       /\ parent' = [parent EXCEPT ![block] = Last(chain)]
       /\ tracked' = block
       /\ changes' = [f \in Filters |-> IF f \in installed /\ block # tracked
                                          THEN Append(changes[f], block) ELSE changes[f]]
       /\ seen' = [f \in Filters |-> IF f \in installed THEN seen[f] \cup {block}
                                                          ELSE seen[f]]
  /\ UNCHANGED <<overlapping, forked, reverted, installed, watching, current>>
  /\ UNCHANGED <<poll, stopped, reported>>

\* Filters and the tracker are not told of a revert.
Revert ==
  /\ Turn /\ Height > Start
  /\ \E n \in Start..(Height - 1) : chain' = SubSeq(chain, 1, n + 1)
  /\ reverted' = (reverted \/ Running # {})
  /\ UNCHANGED <<overlapping, forked, mined, tracked, parent, filters>>
  /\ UNCHANGED <<poll, stopped, reported>>

handleNewBlockFilter(f) ==
  /\ Turn /\ f \notin installed
  /\ installed' = installed \cup {f}
  /\ watching' = watching \cup {f}
  /\ current' = [current EXCEPT ![f] = tracked]
  /\ UNCHANGED <<node, changes, seen, poll, stopped, reported>>
-----------------------------------------------------------------------------
(* A poll: handleGetFilterChanges.                                          *)

Step(p, at) == [poll EXCEPT ![p].at = at]

Report(p, result) ==
  LET f == poll[p].filter
  IN  reported' = [reported EXCEPT ![f] = @ \cup ToSet(result)]

\* The engine answers with the changes and clears them; only the first poll goes on.
GetFilterChanges(p, f) ==
  /\ Turn /\ f \in installed
  /\ poll[p].at = "idle" /\ \A q \in 1..(p - 1) : poll[q].at # "idle"
  /\ changes' = [changes EXCEPT ![f] = <<>>]
  /\ poll' = [poll EXCEPT ![p].filter = f, ![p].result = changes[f],
       ![p].at = IF f \notin watching THEN "answered"
                 ELSE IF changes[f] = <<>> THEN "number" ELSE "hash"]
  /\ reported' = IF f \in watching THEN reported
                 ELSE [reported EXCEPT ![f] = @ \cup ToSet(changes[f])]
  /\ UNCHANGED <<node, installed, watching, seen, current, stopped>>

\* Number 0 is taken for no number: the block is asked for by an undefined hash.
BlockNumber(p) ==
  /\ poll[p].at = "number"
  /\ poll' = [poll EXCEPT ![p].number = Height,
                          ![p].at = IF Height = 0 THEN "hash" ELSE "previous"]
  /\ UNCHANGED <<node, filters, stopped, reported>>

\* The first change has been reverted.
Lost(p) == poll[p].result # <<>> /\ Head(poll[p].result) \notin ToSet(chain)

GetKnownBlockByHash(p) ==
  /\ poll[p].at = "hash" /\ poll[p].result # <<>>
  /\ \E i \in DOMAIN chain :
       /\ chain[i] = Head(poll[p].result)
       /\ poll' = [poll EXCEPT ![p].number = i - 1, ![p].at = "previous"]
  /\ UNCHANGED <<node, filters, stopped, reported>>

\* An unknown hash ends the series with an error, which is ignored; a fork asks the
\* other node for it, and is given no block.
GetBlockByHash(p) ==
  /\ poll[p].at = "hash" /\ poll[p].result # <<>>
  /\ forked => ~Lost(p)
  /\ poll' = IF Lost(p) THEN Step(p, "end")
             ELSE [poll EXCEPT
                    ![p].number = (CHOOSE i \in DOMAIN chain :
                                     chain[i] = Head(poll[p].result)) - 1,
                    ![p].at = "previous"]
  /\ UNCHANGED <<node, filters, stopped, reported>>

Following(number) == number + 1
Previous(number) == number - 1

GetPreviousBlock(p) ==
  /\ poll[p].at = "previous"
  /\ Previous(poll[p].number) <= Height
  /\ poll' = [poll EXCEPT ![p].previous = chain[Previous(poll[p].number) + 1],
                          ![p].at = "end"]
  /\ UNCHANGED <<node, filters, stopped, reported>>

\* The hash is undefined, it is of a block no node has, or there is no previous block
\* any more.
Throw(p) ==
  /\ \/ poll[p].at = "hash" /\ poll[p].result = <<>>
     \/ poll[p].at = "hash" /\ forked /\ Lost(p)
     \/ poll[p].at = "previous" /\ Previous(poll[p].number) > Height
  /\ stopped' = {p}
  /\ UNCHANGED <<node, filters, poll, reported>>

KeepsWatching(f) == watching
WatchedNoMore(f) == watching \ {f}

\* result[0] = previousBlockHash: it takes the place of the first change.
Shown(p) ==
  LET result == poll[p].result
  IN  IF poll[p].previous = NoBlock THEN result
      ELSE <<poll[p].previous>> \o (IF result = <<>> THEN <<>> ELSE Tail(result))

End(p) ==
  /\ poll[p].at = "end"
  /\ poll' = Step(p, "answered")
  /\ watching' = WatchedNoMore(poll[p].filter)
  /\ Report(p, Shown(p))
  /\ UNCHANGED <<node, installed, changes, seen, current, stopped>>

GoesOn(p) ==
  BlockNumber(p) \/ GetBlockByHash(p) \/ GetPreviousBlock(p) \/ Throw(p) \/ End(p)

\* What throws is caught nowhere: nothing is served any more.
Next ==
  /\ stopped = {}
  /\ \/ Mine \/ Revert
     \/ \E f \in Filters :
          handleNewBlockFilter(f) \/ \E p \in Polls : GetFilterChanges(p, f)
     \/ \E p \in Polls : GoesOn(p)

Spec == Init /\ [][Next]_vars

\* The requests a poll makes are answered.
FairSpec == Spec /\ \A p \in Polls : WF_vars(stopped = {} /\ GoesOn(p))
-----------------------------------------------------------------------------
\* The variables have their types.
TypeOK ==
  /\ overlapping \in BOOLEAN /\ forked \in BOOLEAN /\ reverted \in BOOLEAN
  /\ chain \in Seq(Blocks) /\ chain # <<>> /\ mined \in Blocks /\ tracked \in Blocks
  /\ parent \in [Blocks -> Blocks \cup {NoBlock}]
  /\ watching \subseteq installed /\ installed \subseteq Filters
  /\ changes \in [Filters -> Seq(Blocks)]
  /\ poll \in [Polls -> [at : {"idle", "number", "hash", "previous", "end", "answered"},
                         filter : Filters, result : Seq(Blocks),
                         number : Blocks \cup {NoNumber}, previous : Blocks \cup {NoBlock}]]
  /\ stopped \subseteq Polls
  /\ \A p \in Polls : poll[p].at = "previous" => poll[p].number > 0
  /\ reported \in [Filters -> SUBSET Blocks] /\ seen \in [Filters -> SUBSET Blocks]
  /\ current \in [Filters -> Blocks]

OnTheirWay(f) == UNION {ToSet(poll[p].result) : p \in {q \in Running : poll[q].filter = f}}
Missed(f) == seen[f] \ (reported[f] \cup ToSet(changes[f]) \cup OnTheirWay(f))

\* The polls that have shown the block before.
Shifted(f) == {p \in Polls : /\ poll[p].at = "answered" /\ poll[p].filter = f
                             /\ poll[p].previous # NoBlock}

(* Of the blocks mined since a filter was made, all are reported, or will   *)
(* be, but those whose place a poll gave to the block before; more than one *)
(* is missed so only if polls of the filter overlap, for both are its first *)
(* (handleGetFilterChanges, lines 45 and 118).  And the block that was      *)
(* tracked when the filter was made is missed if it is taken back and mined *)
(* again with the same hash before any other (_setCurrentBlock).            *)
OneBlockMissed ==
  \A f \in Filters :
    LET missed == Missed(f) \ {current[f]}
    IN  /\ Cardinality(missed) <= Cardinality(Shifted(f))
        /\ ~overlapping => Cardinality(missed) <= 1

(* A poll throws only at the genesis block, with nothing to report; on a    *)
(* fork, when its first change has been reverted; or when a revert took the *)
(* chain away under it (handleGetFilterChanges).                            *)
ThrowsOnlyForNoBlock ==
  \A p \in stopped : \/ ~forked /\ poll[p].number = 0 /\ poll[p].result = <<>>
                     \/ forked /\ Lost(p)
                     \/ overlapping /\ reverted

(* Every poll is answered, unless one throws (handleGetFilterChanges).      *)
PollsEnd ==
  \A p \in Polls : p \in Running ~> (poll[p].at = "answered" \/ stopped # {})
=============================================================================
