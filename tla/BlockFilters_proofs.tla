-------------------------- MODULE BlockFilters_proofs --------------------------
(***************************************************************************)
(* Proofs about BlockFilters, for any filters and any number of polls and  *)
(* blocks: which blocks a filter misses, and when a poll throws.           *)
(***************************************************************************)
EXTENDS BlockFilters, TLAPS, FiniteSetTheorems

-----------------------------------------------------------------------------
(* The inductive invariant.                                                 *)

\* The genesis block stays, and is no change; a block comes after its parent, and
\* so has a number no block of the chain is under.
ChainSound ==
  /\ chain[1] = Genesis
  /\ forked => Len(chain) > 1
  /\ \A i \in 1..Len(chain) : i - 1 <= chain[i] /\ chain[i] <= mined
  /\ \A b \in 1..mined : parent[b] \in Blocks /\ parent[b] < b
  /\ \A f \in Filters : Genesis \notin ToSet(changes[f])

\* What a poll knows at each of its stages.
PollSound(p) ==
  /\ poll[p].at = "idle" => poll[p].previous = NoBlock
  /\ Genesis \notin ToSet(poll[p].result)
  /\ poll[p].at = "number" => poll[p].result = <<>>
  /\ poll[p].at = "hash" /\ poll[p].result = <<>> => poll[p].number = 0 /\ ~forked
  /\ poll[p].at = "previous" =>
       /\ poll[p].number \in Blocks \ {0}
       /\ Previous(poll[p].number) <= Height \/ (overlapping /\ reverted)

\* A poll of the filter will report the block, or it gave its place to the block before.
Tells(p, f, block) ==
  /\ poll[p].filter = f
  /\ \/ p \in Running /\ block \in ToSet(poll[p].result)
     \/ /\ p \in Shifted(f)
        /\ poll[p].result # <<>> /\ block = Head(poll[p].result)

Accounted(f) ==
  \A block \in seen[f] \ {current[f]} :
    \/ block \in reported[f] \cup ToSet(changes[f])
    \/ \E p \in Polls : Tells(p, f, block)

\* The block tracked is one the filter was told of, or the one it was made after.
Tracks(f) ==
  /\ f \in installed => tracked \in seen[f] \cup {current[f]}
  /\ f \notin installed => seen[f] = {}

\* Without overlap there is one first poll of a filter.
FirstPolls ==
  /\ \A p \in Polls : poll[p].at # "idle" => poll[p].filter \in installed
  /\ ~overlapping =>
       /\ \A p, q \in Running : p = q
       /\ \A p \in Running : poll[p].filter \in watching
       /\ \A f \in Filters : \A p, q \in Shifted(f) : p = q
       /\ \A f \in watching : Shifted(f) = {}

FilterInv ==
  /\ TypeOK /\ ChainSound /\ ThrowsOnlyForNoBlock /\ FirstPolls
  /\ \A p \in Polls : PollSound(p)
  /\ \A f \in Filters : Accounted(f) /\ Tracks(f)
-----------------------------------------------------------------------------
(* What is where.                                                           *)

PollFields ==
  [at : {"idle", "number", "hash", "previous", "end", "answered"},
   filter : Filters, result : Seq(Blocks),
   number : Blocks \cup {NoNumber}, previous : Blocks \cup {NoBlock}]

LEMMA IdleIs ==
  /\ Idle \in PollFields /\ Idle.at = "idle" /\ Idle.result = <<>>
  /\ Idle.previous = NoBlock
<1>1. (CHOOSE f \in Filters : TRUE) \in Filters
  BY FiltersAssumption
<1>2. QED
  BY <1>1 DEF Idle, PollFields

LEMMA PollIs ==
  ASSUME TypeOK, NEW p \in Polls
  PROVE  poll[p] \in PollFields
BY DEF TypeOK, PollFields

\* A stage of a poll: the other polls are left alone.
LEMMA PollBecomes ==
  ASSUME TypeOK, NEW p \in Polls, NEW q \in PollFields,
         poll' = [poll EXCEPT ![p] = q]
  PROVE  /\ poll' \in [Polls -> PollFields] /\ poll'[p] = q
         /\ \A r \in Polls : r # p => poll'[r] = poll[r]
<1>1. poll \in [Polls -> PollFields]
  BY DEF TypeOK, PollFields
<1>2. QED
  BY <1>1

LEMMA ChainIs ==
  ASSUME TypeOK
  PROVE  /\ Len(chain) \in Nat /\ Len(chain) > 0 /\ DOMAIN chain = 1..Len(chain)
         /\ \A i \in 1..Len(chain) : chain[i] \in Blocks
         /\ Height \in Nat /\ mined \in Blocks
  BY DEF TypeOK, Height

\* A block is above the numbers of those it is mined on.
LEMMA HeightIs ==
  ASSUME TypeOK, ChainSound
  PROVE  Height <= mined /\ Height <= Last(chain) /\ Last(chain) \in Blocks
<1>1. Len(chain) \in 1..Len(chain) /\ Last(chain) = chain[Len(chain)]
  BY ChainIs DEF Last
<1>2. Len(chain) - 1 <= Last(chain) /\ Last(chain) <= mined /\ Last(chain) \in Blocks
  BY <1>1, ChainIs DEF ChainSound
<1>3. QED
  BY <1>1, <1>2, ChainIs DEF Height, Blocks

\* What Mine does, for the block it picks.
LEMMA Mined ==
  ASSUME TypeOK, ChainSound, Mine
  PROVE  \E block \in Blocks :
           /\ block > Last(chain) /\ block # Genesis
           /\ chain' = Append(chain, block) /\ tracked' = block
           /\ mined' \in Blocks /\ mined <= mined' /\ block <= mined'
           /\ mined' = mined \/ (mined' = mined + 1 /\ block = mined')
           /\ parent' = [parent EXCEPT ![block] = Last(chain)]
           /\ changes' = [f \in Filters |-> IF f \in installed /\ block # tracked
                                          THEN Append(changes[f], block) ELSE changes[f]]
           /\ seen' = [f \in Filters |-> IF f \in installed THEN seen[f] \cup {block}
                                                          ELSE seen[f]]
<1>1. PICK block \in Minable :
       /\ chain' = Append(chain, block)
       /\ mined' = IF block = mined + 1 THEN block ELSE mined
       /\ parent' = [parent EXCEPT ![block] = Last(chain)]
       /\ tracked' = block
       /\ changes' = [f \in Filters |-> IF f \in installed /\ block # tracked
                                          THEN Append(changes[f], block) ELSE changes[f]]
       /\ seen' = [f \in Filters |-> IF f \in installed THEN seen[f] \cup {block}
                                                          ELSE seen[f]]
  BY DEF Mine
<1>2. block \in Blocks /\ mined \in Blocks /\ Last(chain) \in Blocks /\ MaxBlocks \in Nat
  BY ChainIs, HeightIs, BoundsAssumption DEF Minable
<1>3. Last(chain) <= mined
  BY ChainIs DEF ChainSound, Last
<1>4. CASE block = mined + 1
  <2>1. block > Last(chain) /\ block # Genesis
    BY <1>2, <1>3, <1>4 DEF Blocks, Genesis
  <2>2. mined' = block
    BY <1>1, <1>4
  <2>3. mined <= mined' /\ block <= mined' /\ mined' \in Blocks /\ mined' = mined + 1
    BY <1>2, <1>4, <2>2 DEF Blocks
  <2>4. QED
    BY <1>1, <1>2, <2>1, <2>2, <2>3
<1>5. CASE block # mined + 1
  <2>1. block \in 1..mined /\ parent[block] = Last(chain)
    BY <1>5 DEF Minable
  <2>2. block > Last(chain) /\ block # Genesis
    BY <1>2, <2>1 DEF ChainSound, Blocks, Genesis
  <2>3. mined' = mined
    BY <1>1, <1>5
  <2>4. mined <= mined' /\ block <= mined' /\ mined' \in Blocks
    BY <1>2, <2>1, <2>3 DEF Blocks
  <2>5. QED
    BY <1>1, <1>2, <2>2, <2>3, <2>4
<1>6. QED
  BY <1>4, <1>5
-----------------------------------------------------------------------------
(* The steps, told by what becomes of a poll.                               *)

LEMMA Polled ==
  ASSUME TypeOK, NEW p \in Polls, NEW f \in Filters, GetFilterChanges(p, f)
  PROVE  \E at \in {"number", "hash", "answered"} :
           /\ at = "answered" <=> f \notin watching
           /\ at = "number" => changes[f] = <<>>
           /\ at = "hash" => changes[f] # <<>>
           /\ poll' = [poll EXCEPT ![p] = [at |-> at, filter |-> f, result |-> changes[f],
                         number |-> poll[p].number, previous |-> poll[p].previous]]
<1>1. poll[p] \in PollFields
  BY PollIs
<1>2. PICK at \in {"number", "hash", "answered"} :
        /\ at = IF f \notin watching THEN "answered"
                ELSE IF changes[f] = <<>> THEN "number" ELSE "hash"
  OBVIOUS
<1>3. poll' = [poll EXCEPT ![p].filter = f, ![p].result = changes[f], ![p].at = at]
  BY <1>2 DEF GetFilterChanges
<1>4. poll' = [poll EXCEPT ![p] = [at |-> at, filter |-> f, result |-> changes[f],
                         number |-> poll[p].number, previous |-> poll[p].previous]]
  <2>1. poll \in [Polls -> PollFields]
    BY DEF TypeOK, PollFields
  <2>2. DOMAIN poll' = Polls /\ poll' = [r \in Polls |-> poll'[r]]
    BY <1>3, <2>1
  <2>3. \A r \in Polls : r # p => poll'[r] = poll[r]
    BY <1>3, <2>1
  <2>4. poll'[p] = [[[poll[p] EXCEPT !.filter = f] EXCEPT !.result = changes[f]] EXCEPT !.at = at]
    BY <1>3, <2>1
  <2>5. poll'[p] = [at |-> at, filter |-> f, result |-> changes[f],
                    number |-> poll[p].number, previous |-> poll[p].previous]
    BY <1>1, <2>4 DEF PollFields
  <2>6. QED
    BY <2>1, <2>2, <2>3, <2>5
<1>5. QED
  BY <1>2, <1>4

\* A request that a poll makes of its own is answered.
Asked(p) == BlockNumber(p) \/ GetBlockByHash(p) \/ GetPreviousBlock(p)

LEMMA Advanced ==
  ASSUME TypeOK, ChainSound, NEW p \in Polls, PollSound(p), Asked(p)
  PROVE  /\ UNCHANGED <<node, filters, stopped, reported>>
         /\ poll[p].at \in {"number", "hash", "previous"}
         /\ \E at \in {"hash", "previous", "end"}, number \in Blocks \cup {NoNumber},
               previous \in Blocks \cup {NoBlock} :
              /\ at = "hash" => number = 0 /\ ~forked
              /\ at = "previous" => number \in Blocks \ {0} /\ Previous(number) <= Height
              /\ poll' = [poll EXCEPT ![p] = [at |-> at, filter |-> poll[p].filter,
                   result |-> poll[p].result, number |-> number, previous |-> previous]]
<1> DEFINE Becomes(at, number, previous) ==
             poll' = [poll EXCEPT ![p] = [at |-> at, filter |-> poll[p].filter,
                   result |-> poll[p].result, number |-> number, previous |-> previous]]
<1>1. poll \in [Polls -> PollFields] /\ poll[p] \in PollFields
  BY DEF TypeOK, PollFields
<1>2. CASE BlockNumber(p)
  <2> DEFINE at == IF Height = 0 THEN "hash" ELSE "previous"
             new == [[poll[p] EXCEPT !.number = Height] EXCEPT !.at = at]
  <2>1. Height \in Blocks /\ Height >= 0 /\ (Height = 0 => ~forked)
    BY ChainIs, HeightIs, BoundsAssumption DEF ChainSound, Height, Blocks
  <2>2. \A r \in Polls : poll'[r] = IF r = p THEN new ELSE poll[r]
    <3>1. poll' = [poll EXCEPT ![p].number = Height, ![p].at = at]
      BY <1>2 DEF BlockNumber
    <3> HIDE DEF at
    <3>2. QED
      BY <1>1, <3>1
  <2>3. DOMAIN poll' = Polls /\ poll' = [r \in Polls |-> poll'[r]]
    BY <1>1, <1>2 DEF BlockNumber
  <2>4. poll'[p] = [at |-> at, filter |-> poll[p].filter, result |-> poll[p].result,
                    number |-> Height, previous |-> poll[p].previous]
    BY <1>1, <2>2 DEF PollFields
  <2>5. Becomes(at, Height, poll[p].previous)
    BY <1>1, <2>2, <2>3, <2>4
  <2>6. at = "previous" => Height \in Blocks \ {0} /\ Previous(Height) <= Height
    BY <2>1 DEF Previous, Blocks
  <2>7. at = "hash" => Height = 0 /\ ~forked
    BY <2>1
  <2>8. at \in {"hash", "previous", "end"} /\ poll[p].previous \in Blocks \cup {NoBlock}
    BY <1>1 DEF PollFields
  <2> HIDE DEF at, Becomes
  <2>9. \E a \in {"hash", "previous", "end"}, number \in Blocks \cup {NoNumber},
              previous \in Blocks \cup {NoBlock} :
          /\ a = "hash" => number = 0 /\ ~forked
          /\ a = "previous" => number \in Blocks \ {0} /\ Previous(number) <= Height
          /\ Becomes(a, number, previous)
    BY <2>1, <2>5, <2>6, <2>7, <2>8
  <2>10. QED
    BY <1>2, <2>9 DEF BlockNumber, Becomes
<1>3. CASE GetBlockByHash(p)
  <2> DEFINE block == Head(poll[p].result)
             place == CHOOSE i \in DOMAIN chain : chain[i] = block
  <2>1. CASE block \in ToSet(chain)
    <3> DEFINE new == [[poll[p] EXCEPT !.number = place - 1] EXCEPT !.at = "previous"]
    <3>1. place \in 1..Len(chain) /\ chain[place] = block
      BY <2>1, ChainIs DEF ToSet
    <3>2. block # Genesis
      BY <1>1, <1>3 DEF PollSound, PollFields, GetBlockByHash, ToSet
    <3>3. place # 1
      BY <3>1, <3>2 DEF ChainSound
    <3> HIDE DEF place, block
    <3>4. place - 1 \in Blocks \ {0} /\ Previous(place - 1) <= Height
      BY <3>1, <3>3, ChainIs, HeightIs, BoundsAssumption DEF Height, Previous, Blocks
    <3>5. poll' = [poll EXCEPT ![p].number = place - 1, ![p].at = "previous"]
      BY <1>3, <2>1 DEF GetBlockByHash, Lost, block, place
    <3>6. \A r \in Polls : poll'[r] = IF r = p THEN new ELSE poll[r]
      BY <1>1, <3>5
    <3>7. DOMAIN poll' = Polls /\ poll' = [r \in Polls |-> poll'[r]]
      BY <1>1, <3>5
    <3>8. poll'[p] = [at |-> "previous", filter |-> poll[p].filter,
                      result |-> poll[p].result, number |-> place - 1,
                      previous |-> poll[p].previous]
      BY <1>1, <3>6 DEF PollFields
    <3>9. Becomes("previous", place - 1, poll[p].previous)
      BY <1>1, <3>6, <3>7, <3>8
    <3>10. poll[p].previous \in Blocks \cup {NoBlock}
      BY <1>1 DEF PollFields
    <3>11. poll[p].at = "hash" /\ UNCHANGED <<node, filters, stopped, reported>>
      BY <1>3 DEF GetBlockByHash
    <3>12. QED
      BY <3>4, <3>9, <3>10, <3>11
  <2>2. CASE block \notin ToSet(chain)
    <3> DEFINE new == [poll[p] EXCEPT !.at = "end"]
    <3>1. poll' = [poll EXCEPT ![p].at = "end"]
      BY <1>3, <2>2 DEF GetBlockByHash, Lost, Step
    <3>2. \A r \in Polls : poll'[r] = IF r = p THEN new ELSE poll[r]
      BY <1>1, <3>1
    <3>3. DOMAIN poll' = Polls /\ poll' = [r \in Polls |-> poll'[r]]
      BY <1>1, <3>1
    <3>4. new = [at |-> "end", filter |-> poll[p].filter, result |-> poll[p].result,
                 number |-> poll[p].number, previous |-> poll[p].previous]
      BY <1>1 DEF PollFields
    <3>5. Becomes("end", poll[p].number, poll[p].previous)
      BY <1>1, <3>2, <3>3, <3>4
    <3>6. poll[p].previous \in Blocks \cup {NoBlock}
            /\ poll[p].number \in Blocks \cup {NoNumber}
      BY <1>1 DEF PollFields
    <3>7. poll[p].at = "hash" /\ UNCHANGED <<node, filters, stopped, reported>>
      BY <1>3 DEF GetBlockByHash
    <3>8. QED
      BY <3>5, <3>6, <3>7
  <2>3. QED
    BY <2>1, <2>2
<1>4. CASE GetPreviousBlock(p)
  <2> DEFINE block == chain[Previous(poll[p].number) + 1]
             new == [[poll[p] EXCEPT !.previous = block] EXCEPT !.at = "end"]
  <2>1. poll[p].number \in Blocks \ {0} /\ Previous(poll[p].number) <= Height
    BY <1>4 DEF GetPreviousBlock, PollSound
  <2>2. Previous(poll[p].number) + 1 \in 1..Len(chain)
    BY <2>1, ChainIs DEF Previous, Blocks, Height
  <2>3. block \in Blocks
    BY <2>2, ChainIs
  <2>4. poll' = [poll EXCEPT ![p].previous = block, ![p].at = "end"]
    BY <1>4 DEF GetPreviousBlock
  <2> HIDE DEF block
  <2>5. \A r \in Polls : poll'[r] = IF r = p THEN new ELSE poll[r]
    BY <1>1, <2>4
  <2>6. DOMAIN poll' = Polls /\ poll' = [r \in Polls |-> poll'[r]]
    BY <1>1, <2>4
  <2>7. poll'[p] = [at |-> "end", filter |-> poll[p].filter, result |-> poll[p].result,
                    number |-> poll[p].number, previous |-> block]
    BY <1>1, <2>5 DEF PollFields
  <2>8. Becomes("end", poll[p].number, block)
    BY <1>1, <2>5, <2>6, <2>7
  <2>9. poll[p].at = "previous" /\ UNCHANGED <<node, filters, stopped, reported>>
    BY <1>4 DEF GetPreviousBlock
  <2>10. QED
    BY <2>1, <2>3, <2>8, <2>9
<1>5. QED
  BY <1>2, <1>3, <1>4 DEF Asked

LEMMA Ended ==
  ASSUME TypeOK, NEW p \in Polls, End(p)
  PROVE  /\ poll[p].at = "end"
         /\ poll' = [poll EXCEPT ![p] = [at |-> "answered", filter |-> poll[p].filter,
              result |-> poll[p].result, number |-> poll[p].number,
              previous |-> poll[p].previous]]
         /\ watching' = watching \ {poll[p].filter}
         /\ reported' = [reported EXCEPT ![poll[p].filter] = @ \cup ToSet(Shown(p))]
         /\ UNCHANGED <<node, installed, changes, seen, current, stopped>>
<1>1. poll \in [Polls -> PollFields] /\ poll[p] \in PollFields
  BY DEF TypeOK, PollFields
<1>2. poll' = [poll EXCEPT ![p].at = "answered"]
  BY DEF End, Step
<1>3. [poll[p] EXCEPT !.at = "answered"] =
        [at |-> "answered", filter |-> poll[p].filter, result |-> poll[p].result,
         number |-> poll[p].number, previous |-> poll[p].previous]
  BY <1>1 DEF PollFields
<1>4. poll' = [poll EXCEPT ![p] = [poll[p] EXCEPT !.at = "answered"]]
  BY <1>1, <1>2
<1>5. QED
  BY <1>3, <1>4 DEF End, WatchedNoMore, Report
-----------------------------------------------------------------------------
(* Each part is preserved.                                                  *)

LEMMA TypesKept ==
  ASSUME TypeOK, ChainSound, \A p \in Polls : PollSound(p), Next
  PROVE  TypeOK'
<1>1. poll \in [Polls -> PollFields]
  BY DEF TypeOK, PollFields
<1> DEFINE Types ==
             /\ overlapping' \in BOOLEAN /\ forked' \in BOOLEAN /\ reverted' \in BOOLEAN
             /\ chain' \in Seq(Blocks) /\ chain' # <<>> /\ mined' \in Blocks
             /\ tracked' \in Blocks
             /\ parent' \in [Blocks -> Blocks \cup {NoBlock}]
             /\ watching' \subseteq installed' /\ installed' \subseteq Filters
             /\ changes' \in [Filters -> Seq(Blocks)]
             /\ poll' \in [Polls -> PollFields]
             /\ stopped' \subseteq Polls
             /\ \A p \in Polls : poll'[p].at = "previous" => poll'[p].number > 0
             /\ reported' \in [Filters -> SUBSET Blocks]
             /\ seen' \in [Filters -> SUBSET Blocks]
             /\ current' \in [Filters -> Blocks]
<1>2. SUFFICES Types
  BY DEF TypeOK, PollFields
<1> USE DEF node, filters
<1>3. CASE Mine
  <2>1. PICK block \in Blocks :
           /\ chain' = Append(chain, block) /\ tracked' = block
           /\ mined' \in Blocks
           /\ parent' = [parent EXCEPT ![block] = Last(chain)]
           /\ changes' = [f \in Filters |-> IF f \in installed /\ block # tracked
                                          THEN Append(changes[f], block) ELSE changes[f]]
           /\ seen' = [f \in Filters |-> IF f \in installed THEN seen[f] \cup {block}
                                                          ELSE seen[f]]
    BY <1>3, Mined
  <2>2. chain' \in Seq(Blocks) /\ chain' # <<>>
    <3>1. chain \in Seq(Blocks)
      BY DEF TypeOK
    <3>2. QED
      BY <2>1, <3>1
  <2>3. Last(chain) \in Blocks
    BY ChainIs DEF Last
  <2>4. parent' \in [Blocks -> Blocks \cup {NoBlock}]
    BY <2>1, <2>3 DEF TypeOK
  <2>5. changes' \in [Filters -> Seq(Blocks)]
    BY <2>1 DEF TypeOK
  <2>6. seen' \in [Filters -> SUBSET Blocks]
    BY <2>1 DEF TypeOK
  <2>7. QED
    BY <1>1, <1>3, <2>1, <2>2, <2>4, <2>5, <2>6 DEF Mine, TypeOK
<1>4. CASE Revert
  <2>1. PICK n \in 0..(Height - 1) : chain' = SubSeq(chain, 1, n + 1)
    BY <1>4, ChainIs DEF Revert, Start
  <2>2. n + 1 \in 1..Len(chain)
    BY <2>1, ChainIs DEF Height
  <2>3. chain' \in Seq(Blocks) /\ Len(chain') = n + 1
    BY <2>1, <2>2 DEF TypeOK
  <2>4. chain' # <<>>
    BY <2>2, <2>3
  <2>5. reverted' \in BOOLEAN
    BY <1>4 DEF Revert, TypeOK
  <2>6. QED
    BY <1>1, <1>4, <2>3, <2>4, <2>5 DEF Revert, TypeOK
<1>5. ASSUME NEW f \in Filters, handleNewBlockFilter(f)
      PROVE  Types
  <2>1. current' \in [Filters -> Blocks]
    BY <1>5 DEF handleNewBlockFilter, TypeOK
  <2>2. QED
    BY <1>5, <1>1, <2>1 DEF handleNewBlockFilter, TypeOK, PollFields
<1>6. ASSUME NEW f \in Filters, NEW p \in Polls, GetFilterChanges(p, f)
      PROVE  Types
  <2>1. PICK at \in {"number", "hash", "answered"} :
          poll' = [poll EXCEPT ![p] = [at |-> at, filter |-> f, result |-> changes[f],
                         number |-> poll[p].number, previous |-> poll[p].previous]]
    BY <1>6, Polled
  <2>2. [at |-> at, filter |-> f, result |-> changes[f], number |-> poll[p].number,
         previous |-> poll[p].previous] \in PollFields
    BY <1>1 DEF PollFields, TypeOK
  <2>3. poll' \in [Polls -> PollFields]
          /\ \A r \in Polls : poll'[r].at = "previous" => poll'[r].number > 0
    <3>1. /\ poll' \in [Polls -> PollFields]
          /\ poll'[p].at # "previous"
          /\ \A r \in Polls : r # p => poll'[r] = poll[r]
      BY <1>1, <2>1, <2>2
    <3>2. QED
      BY <3>1 DEF TypeOK
  <2>4. changes' \in [Filters -> Seq(Blocks)]
    BY <1>6 DEF GetFilterChanges, TypeOK
  <2>5. ToSet(changes[f]) \subseteq Blocks
    BY DEF TypeOK, ToSet
  <2>6. reported' \in [Filters -> SUBSET Blocks]
    BY <1>6, <2>5 DEF GetFilterChanges, TypeOK
  <2>7. QED
    BY <1>6, <2>3, <2>4, <2>6 DEF GetFilterChanges, TypeOK, PollFields
<1>7. ASSUME NEW p \in Polls, Asked(p) PROVE Types
  <2>1. UNCHANGED <<node, filters, stopped, reported>>
    BY <1>7, Advanced
  <2>2. PICK at \in {"hash", "previous", "end"}, number \in Blocks \cup {NoNumber},
             previous \in Blocks \cup {NoBlock} :
          /\ at = "previous" => number \in Blocks \ {0}
          /\ poll' = [poll EXCEPT ![p] = [at |-> at, filter |-> poll[p].filter,
               result |-> poll[p].result, number |-> number, previous |-> previous]]
    BY <1>7, Advanced
  <2>3. [at |-> at, filter |-> poll[p].filter, result |-> poll[p].result,
         number |-> number, previous |-> previous] \in PollFields
    BY <1>1 DEF PollFields
  <2>4. /\ poll' \in [Polls -> PollFields]
        /\ poll'[p].at = at /\ poll'[p].number = number
        /\ \A r \in Polls : r # p => poll'[r] = poll[r]
    BY <1>1, <2>2, <2>3
  <2>5. \A r \in Polls : poll'[r].at = "previous" => poll'[r].number > 0
    BY <2>2, <2>4 DEF TypeOK, Blocks
  <2>6. QED
    BY <2>1, <2>4, <2>5 DEF TypeOK, PollFields
<1>8. ASSUME NEW p \in Polls, Throw(p) PROVE Types
  BY <1>1, <1>8 DEF Throw, TypeOK
<1>9. ASSUME NEW p \in Polls, End(p) PROVE Types
  <2>1. poll[p] \in PollFields
    BY <1>1
  <2>2. [at |-> "answered", filter |-> poll[p].filter, result |-> poll[p].result,
         number |-> poll[p].number, previous |-> poll[p].previous] \in PollFields
    BY <2>1 DEF PollFields
  <2>3. poll' = [poll EXCEPT ![p] = [at |-> "answered", filter |-> poll[p].filter,
              result |-> poll[p].result, number |-> poll[p].number,
              previous |-> poll[p].previous]]
    BY <1>9, Ended
  <2>4. /\ poll' \in [Polls -> PollFields] /\ poll'[p].at = "answered"
        /\ \A r \in Polls : r # p => poll'[r] = poll[r]
    BY <1>1, <2>2, <2>3
  <2>5. \A r \in Polls : poll'[r].at = "previous" => poll'[r].number > 0
    BY <2>4 DEF TypeOK
  <2>6. ToSet(Shown(p)) \subseteq Blocks
    <3> DEFINE result == poll[p].result
    <3>1. result \in Seq(Blocks) /\ poll[p].previous \in Blocks \cup {NoBlock}
      BY <2>1 DEF PollFields
    <3> HIDE DEF result
    <3>2. (IF result = <<>> THEN <<>> ELSE Tail(result)) \in Seq(Blocks)
      BY <3>1
    <3>3. poll[p].previous # NoBlock =>
            <<poll[p].previous>> \o (IF result = <<>> THEN <<>> ELSE Tail(result))
              \in Seq(Blocks)
      BY <3>1, <3>2
    <3>4. Shown(p) \in Seq(Blocks)
      BY <3>1, <3>3 DEF Shown, result
    <3>5. QED
      BY <3>4 DEF ToSet
  <2>7. reported' \in [Filters -> SUBSET Blocks]
    <3>1. reported' = [reported EXCEPT ![poll[p].filter] = @ \cup ToSet(Shown(p))]
      BY <1>9, Ended
    <3>2. poll[p].filter \in Filters
      BY <2>1 DEF PollFields
    <3>3. QED
      BY <2>6, <3>1, <3>2 DEF TypeOK
  <2>8. watching' \subseteq installed'
    BY <1>9, Ended DEF TypeOK
  <2>9. UNCHANGED <<node, installed, changes, seen, current, stopped>>
    BY <1>9, Ended
  <2>10. QED
    BY <2>4, <2>5, <2>7, <2>8, <2>9 DEF TypeOK, PollFields
<1> HIDE DEF Types
<1>10. QED
  BY <1>3, <1>4, <1>5, <1>6, <1>7, <1>8, <1>9 DEF Next, GoesOn, Asked

LEMMA ChainKept ==
  ASSUME TypeOK, ChainSound, \A p \in Polls : PollSound(p), Next
  PROVE  ChainSound'
<1> USE DEF node, filters
<1>1. CASE Mine
  <2>1. PICK block \in Blocks :
           /\ block > Last(chain) /\ block # Genesis
           /\ chain' = Append(chain, block)
           /\ mined' \in Blocks /\ mined <= mined' /\ block <= mined'
           /\ mined' = mined \/ (mined' = mined + 1 /\ block = mined')
           /\ parent' = [parent EXCEPT ![block] = Last(chain)]
           /\ changes' = [f \in Filters |-> IF f \in installed /\ block # tracked
                                          THEN Append(changes[f], block) ELSE changes[f]]
    BY <1>1, Mined
  <2>2. /\ chain \in Seq(Blocks) /\ Len(chain) \in Nat /\ Len(chain) > 0
        /\ mined \in Int /\ block \in Int /\ mined' \in Int
        /\ Last(chain) \in Blocks /\ Height <= Last(chain)
    <3>1. chain \in Seq(Blocks) /\ mined \in Blocks
      BY DEF TypeOK
    <3>2. Blocks \subseteq Int
      BY DEF Blocks
    <3>3. QED
      BY <2>1, <3>1, <3>2, ChainIs, HeightIs
  <2>3. Len(chain') = Len(chain) + 1 /\ chain'[1] = Genesis
    BY <2>1, <2>2 DEF ChainSound
  <2>4. forked' => Len(chain') > 1
    BY <1>1, <2>2, <2>3 DEF Mine
  <2>5. ASSUME NEW i \in 1..Len(chain')
        PROVE  i - 1 <= chain'[i] /\ chain'[i] <= mined'
    <3>1. CASE i = Len(chain) + 1
      <4>1. chain'[i] = block
        BY <2>1, <2>2, <3>1
      <4>2. Len(chain) - 1 <= Last(chain) /\ Last(chain) \in Int
        BY <2>2 DEF Height, Blocks
      <4>3. QED
        BY <2>1, <2>2, <3>1, <4>1, <4>2
    <3>2. CASE i # Len(chain) + 1
      <4>1. i \in 1..Len(chain) /\ chain'[i] = chain[i] /\ chain[i] \in Blocks
        BY <2>1, <2>2, <2>3, <3>2, ChainIs
      <4>2. i - 1 <= chain[i] /\ chain[i] <= mined /\ chain[i] \in Int
        BY <4>1 DEF ChainSound, Blocks
      <4>3. QED
        BY <2>1, <2>2, <4>1, <4>2
    <3>3. QED
      BY <3>1, <3>2
  <2>6. ASSUME NEW b \in 1..mined' PROVE parent'[b] \in Blocks /\ parent'[b] < b
    <3>1. b \in Blocks /\ MaxBlocks \in Nat
      BY <2>1, <2>2, BoundsAssumption DEF Blocks
    <3>2. CASE b = block
      <4>1. parent'[b] = Last(chain)
        BY <2>1, <3>1, <3>2 DEF TypeOK
      <4>2. QED
        BY <2>1, <2>2, <3>2, <4>1
    <3>3. CASE b # block
      <4>1. parent'[b] = parent[b] /\ b \in 1..mined
        BY <2>1, <2>2, <3>1, <3>3 DEF TypeOK
      <4>2. QED
        BY <4>1 DEF ChainSound
    <3>4. QED
      BY <3>2, <3>3
  <2>7. ASSUME NEW f \in Filters PROVE Genesis \notin ToSet(changes'[f])
    <3>1. changes[f] \in Seq(Blocks) /\ Genesis \notin ToSet(changes[f])
      BY DEF TypeOK, ChainSound
    <3>2. changes'[f] \in {changes[f], Append(changes[f], block)}
      BY <2>1
    <3>3. ASSUME NEW i \in DOMAIN Append(changes[f], block)
          PROVE  Append(changes[f], block)[i] # Genesis
      <4>1. CASE i = Len(changes[f]) + 1
        BY <2>1, <3>1, <4>1
      <4>2. CASE i \in DOMAIN changes[f]
        BY <3>1, <4>2 DEF ToSet
      <4>3. QED
        BY <3>1, <4>1, <4>2
    <3>4. QED
      BY <3>1, <3>2, <3>3 DEF ToSet
  <2>8. QED
    BY <2>3, <2>4, <2>5, <2>6, <2>7 DEF ChainSound
<1>2. CASE Revert
  <2>1. PICK n \in Start..(Height - 1) : chain' = SubSeq(chain, 1, n + 1)
    BY <1>2 DEF Revert
  <2>2. n + 1 \in 1..Len(chain) /\ n \in Nat /\ n < Height
    BY <2>1, ChainIs DEF Height, Start
  <2>3. /\ Len(chain') = n + 1 /\ chain'[1] = chain[1]
        /\ \A i \in 1..Len(chain') : i \in 1..Len(chain) /\ chain'[i] = chain[i]
    BY <2>1, <2>2 DEF TypeOK
  <2>4. forked' => Len(chain') > 1
    BY <1>2, <2>1, <2>2, <2>3 DEF Revert, Start
  <2>5. UNCHANGED <<mined, parent, changes>>
    BY <1>2 DEF Revert
  <2>6. QED
    BY <2>3, <2>4, <2>5 DEF ChainSound
<1>3. ASSUME NEW f \in Filters, NEW p \in Polls, GetFilterChanges(p, f) PROVE ChainSound'
  <2>1. /\ changes' = [changes EXCEPT ![f] = <<>>]
        /\ UNCHANGED <<forked, chain, mined, parent>>
    BY <1>3 DEF GetFilterChanges
  <2>2. ASSUME NEW g \in Filters PROVE Genesis \notin ToSet(changes'[g])
    BY <2>1 DEF TypeOK, ChainSound, ToSet
  <2>3. QED
    BY <2>1, <2>2 DEF ChainSound, Height
<1>4. ASSUME NEW p \in Polls, Asked(p) \/ Throw(p) \/ End(p)
            \/ \E f \in Filters : handleNewBlockFilter(f)
      PROVE  ChainSound'
  <2>1. UNCHANGED <<forked, chain, mined, parent, changes>>
    BY <1>4, Advanced DEF Throw, End, handleNewBlockFilter
  <2>2. QED
    BY <2>1 DEF ChainSound, Height
<1>5. ASSUME NEW f \in Filters, handleNewBlockFilter(f) PROVE ChainSound'
  BY <1>5 DEF handleNewBlockFilter, ChainSound, Height
<1>6. QED
  BY <1>1, <1>2, <1>3, <1>4, <1>5 DEF Next, GoesOn, Asked

\* Blocks that come, and those that go while no poll without overlap is on its way,
\* leave a poll with a block before the one it has the number of.
LEMMA PollsKept ==
  ASSUME TypeOK, ChainSound, \A p \in Polls : PollSound(p), Next, NEW r \in Polls
  PROVE  PollSound(r)'
<1> USE DEF node, filters
<1>1. poll \in [Polls -> PollFields] /\ PollSound(r)
  BY DEF TypeOK, PollFields
<1>2. CASE Mine
  <2>1. Height' = Height + 1 /\ Height \in Int
    <3>1. PICK block \in Blocks : chain' = Append(chain, block)
      BY <1>2, Mined
    <3>2. chain \in Seq(Blocks)
      BY DEF TypeOK
    <3>3. QED
      BY <3>1, <3>2, ChainIs DEF Height
  <2>2. UNCHANGED <<poll, forked, overlapping, reverted>>
    BY <1>2 DEF Mine
  <2>3. poll[r].at = "previous" => Previous(poll[r].number) \in Int
    BY <1>1, BoundsAssumption DEF PollSound, Previous, Blocks
  <2>4. QED
    BY <1>1, <2>1, <2>2, <2>3 DEF PollSound
<1>3. CASE Revert
  <2>1. UNCHANGED <<poll, forked, overlapping>> /\ reverted' = (reverted \/ Running # {})
          /\ (overlapping \/ Running = {})
    BY <1>3 DEF Revert, Turn
  <2>2. poll[r].at = "previous" => r \in Running
    BY DEF Running
  <2>3. poll[r].at = "previous" => overlapping /\ reverted'
    BY <2>1, <2>2
  <2>4. QED
    BY <1>1, <2>1, <2>3 DEF PollSound
<1>4. ASSUME NEW f \in Filters, NEW p \in Polls, GetFilterChanges(p, f) PROVE PollSound(r)'
  <2>1. PICK at \in {"number", "hash", "answered"} :
           /\ at = "number" => changes[f] = <<>>
           /\ at = "hash" => changes[f] # <<>>
           /\ poll' = [poll EXCEPT ![p] = [at |-> at, filter |-> f, result |-> changes[f],
                         number |-> poll[p].number, previous |-> poll[p].previous]]
    BY <1>4, Polled
  <2>2. UNCHANGED <<chain, forked, overlapping, reverted>>
    BY <1>4 DEF GetFilterChanges
  <2>3. CASE r = p
    <3>1. Genesis \notin ToSet(changes[f])
      BY DEF ChainSound
    <3>2. QED
      BY <1>1, <2>1, <2>2, <2>3, <3>1 DEF PollSound
  <2>4. CASE r # p
    BY <1>1, <2>1, <2>2, <2>4 DEF PollSound, Height
  <2>5. QED
    BY <2>3, <2>4
<1>5. ASSUME NEW p \in Polls, Asked(p) PROVE PollSound(r)'
  <2>1. PICK at \in {"hash", "previous", "end"}, number \in Blocks \cup {NoNumber},
             previous \in Blocks \cup {NoBlock} :
          /\ at = "hash" => number = 0 /\ ~forked
          /\ at = "previous" => number \in Blocks \ {0} /\ Previous(number) <= Height
          /\ poll' = [poll EXCEPT ![p] = [at |-> at, filter |-> poll[p].filter,
               result |-> poll[p].result, number |-> number, previous |-> previous]]
    BY <1>5, Advanced
  <2>2. UNCHANGED <<chain, forked, overlapping, reverted>>
    BY <1>5, Advanced
  <2>3. CASE r = p
    BY <1>1, <2>1, <2>2, <2>3 DEF PollSound, Height
  <2>4. CASE r # p
    BY <1>1, <2>1, <2>2, <2>4 DEF PollSound, Height
  <2>5. QED
    BY <2>3, <2>4
<1>6. ASSUME NEW p \in Polls, End(p) PROVE PollSound(r)'
  <2>1. /\ poll' = [poll EXCEPT ![p] = [at |-> "answered", filter |-> poll[p].filter,
              result |-> poll[p].result, number |-> poll[p].number,
              previous |-> poll[p].previous]]
        /\ UNCHANGED <<chain, forked, overlapping, reverted>>
    BY <1>6, Ended
  <2>2. CASE r = p
    BY <1>1, <2>1, <2>2 DEF PollSound
  <2>3. CASE r # p
    BY <1>1, <2>1, <2>3 DEF PollSound, Height
  <2>4. QED
    BY <2>2, <2>3
<1>7. ASSUME UNCHANGED <<poll, chain, forked, overlapping, reverted>> PROVE PollSound(r)'
  BY <1>1, <1>7 DEF PollSound, Height
<1>8. ASSUME NEW f \in Filters, handleNewBlockFilter(f) PROVE PollSound(r)'
  BY <1>7, <1>8 DEF handleNewBlockFilter
<1>9. ASSUME NEW p \in Polls, Throw(p) PROVE PollSound(r)'
  BY <1>7, <1>9 DEF Throw
<1>10. QED
  BY <1>2, <1>3, <1>4, <1>5, <1>6, <1>8, <1>9 DEF Next, GoesOn, Asked

LEMMA ThrowsKept ==
  ASSUME TypeOK, \A p \in Polls : PollSound(p), Next
  PROVE  ThrowsOnlyForNoBlock'
<1>1. CASE \E p \in Polls : Throw(p)
  <2>1. PICK p \in Polls : Throw(p)
    BY <1>1
  <2>2. /\ stopped' = {p} /\ PollSound(p)
        /\ UNCHANGED <<poll, chain, forked, overlapping, reverted>>
    BY <2>1 DEF Throw, node
  <2>3. CASE poll[p].at = "hash" /\ poll[p].result = <<>>
    BY <2>2, <2>3 DEF PollSound, ThrowsOnlyForNoBlock
  <2>4. CASE poll[p].at = "previous" /\ Previous(poll[p].number) > Height
    <3>1. ~(Previous(poll[p].number) <= Height)
      BY <2>2, <2>4, ChainIs, BoundsAssumption DEF PollSound, Previous, Blocks
    <3>2. overlapping /\ reverted
      BY <2>2, <2>4, <3>1 DEF PollSound
    <3>3. QED
      BY <2>2, <3>2 DEF ThrowsOnlyForNoBlock
  <2>5. CASE forked /\ Lost(p)
    BY <2>2, <2>5 DEF Lost, ThrowsOnlyForNoBlock
  <2>6. QED
    BY <2>1, <2>3, <2>4, <2>5 DEF Throw
<1>2. CASE ~\E p \in Polls : Throw(p)
  <2>1. stopped' = {}
    <3>1. \A p \in Polls : Asked(p) => stopped' = stopped
      BY DEF Asked, BlockNumber, GetBlockByHash, GetPreviousBlock
    <3>2. QED
      BY <1>2, <3>1 DEF Next, GoesOn, Asked, Mine, Revert, handleNewBlockFilter,
            GetFilterChanges, End
  <2>2. QED
    BY <2>1 DEF ThrowsOnlyForNoBlock
<1>3. QED
  BY <1>1, <1>2

\* Which polls are on their way, and which have shown the block before, when one poll
\* goes on.
LEMMA RunningAfter ==
  ASSUME TypeOK, NEW p \in Polls, NEW q \in PollFields,
         poll' = [poll EXCEPT ![p] = q]
  PROVE  /\ Running' = (Running \ {p})
                         \cup (IF q.at \in {"idle", "answered"} THEN {} ELSE {p})
         /\ \A f \in Filters :
              Shifted(f)' = (Shifted(f) \ {p})
                 \cup (IF q.at = "answered" /\ q.filter = f /\ q.previous # NoBlock
                        THEN {p} ELSE {})
<1>1. poll'[p] = q /\ \A r \in Polls : r # p => poll'[r] = poll[r]
  BY PollBecomes
<1>2. QED
  BY <1>1 DEF Running, Shifted, Polls

LEMMA FirstsKept ==
  ASSUME TypeOK, ChainSound, \A p \in Polls : PollSound(p), FirstPolls, Next
  PROVE  FirstPolls'
<1> USE DEF node, filters
<1>1. poll \in [Polls -> PollFields]
  BY DEF TypeOK, PollFields
<1>2. ASSUME UNCHANGED <<poll, overlapping, installed, watching>> PROVE FirstPolls'
  BY <1>2 DEF FirstPolls, Running, Shifted
<1>3. ASSUME NEW f \in Filters, handleNewBlockFilter(f) PROVE FirstPolls'
  <2>1. /\ f \notin installed /\ installed' = installed \cup {f}
        /\ watching' = watching \cup {f} /\ UNCHANGED <<poll, overlapping>>
    BY <1>3 DEF handleNewBlockFilter
  <2>2. Running' = Running /\ \A g : Shifted(g)' = Shifted(g)
    BY <2>1 DEF Running, Shifted
  <2>3. Shifted(f) = {}
    BY <2>1 DEF Shifted, FirstPolls
  <2>4. QED
    BY <2>1, <2>2, <2>3 DEF FirstPolls
<1>4. ASSUME NEW f \in Filters, NEW p \in Polls, GetFilterChanges(p, f) PROVE FirstPolls'
  <2>1. PICK at \in {"number", "hash", "answered"} :
           /\ at = "answered" <=> f \notin watching
           /\ poll' = [poll EXCEPT ![p] = [at |-> at, filter |-> f, result |-> changes[f],
                         number |-> poll[p].number, previous |-> poll[p].previous]]
    BY <1>4, Polled
  <2> DEFINE q == [at |-> at, filter |-> f, result |-> changes[f],
                   number |-> poll[p].number, previous |-> poll[p].previous]
  <2>2. q \in PollFields
    BY <1>1 DEF PollFields, TypeOK
  <2>3. poll[p].at = "idle" /\ f \in installed /\ poll[p].previous = NoBlock
          /\ (overlapping \/ Running = {}) /\ UNCHANGED <<overlapping, installed, watching>>
    BY <1>4 DEF GetFilterChanges, PollSound, Turn
  <2>4. /\ q.at = at /\ q.filter = f /\ q.previous = NoBlock
    BY <2>3
  <2>5. poll' = [poll EXCEPT ![p] = q]
    BY <2>1
  <2> HIDE DEF q
  <2>6. /\ Running' = (Running \ {p}) \cup (IF at = "answered" THEN {} ELSE {p})
        /\ \A g \in Filters : Shifted(g)' = Shifted(g) \ {p}
    <3>1. /\ Running' = (Running \ {p}) \cup (IF q.at \in {"idle", "answered"} THEN {} ELSE {p})
          /\ \A g \in Filters :
              Shifted(g)' = (Shifted(g) \ {p})
                 \cup (IF q.at = "answered" /\ q.filter = g /\ q.previous # NoBlock
                        THEN {p} ELSE {})
      BY <2>2, <2>5, RunningAfter
    <3>2. q.at \in {"idle", "answered"} <=> at = "answered"
      BY <2>1, <2>4
    <3>3. QED
      BY <2>4, <3>1, <3>2
  <2>7. poll'[p] = q /\ \A r \in Polls : r # p => poll'[r] = poll[r]
    BY <2>2, <2>5, PollBecomes
  <2>8. \A r \in Polls : poll'[r].at # "idle" => poll'[r].filter \in installed'
    BY <2>3, <2>4, <2>7 DEF FirstPolls
  <2>9. ASSUME ~overlapping
        PROVE  /\ \A r, s \in Running' : r = s
               /\ \A r \in Running' : poll'[r].filter \in watching'
               /\ \A g \in Filters : \A r, s \in Shifted(g)' : r = s
               /\ \A g \in watching' : Shifted(g)' = {}
    <3>1. Running = {}
      BY <2>3, <2>9
    <3>2. \A r \in Running' : r = p /\ at # "answered"
      BY <2>6, <3>1
    <3>3. \A r \in Running' : poll'[r].filter \in watching'
      BY <2>1, <2>3, <2>4, <2>7, <3>2
    <3>4. \A g \in watching : g \in Filters
      BY DEF TypeOK
    <3>5. QED
      BY <2>3, <2>6, <2>9, <3>2, <3>3, <3>4 DEF FirstPolls
  <2>10. QED
    BY <2>3, <2>8, <2>9 DEF FirstPolls
<1>5. ASSUME NEW p \in Polls, Asked(p) PROVE FirstPolls'
  <2>1. PICK at \in {"hash", "previous", "end"}, number \in Blocks \cup {NoNumber},
             previous \in Blocks \cup {NoBlock} :
          poll' = [poll EXCEPT ![p] = [at |-> at, filter |-> poll[p].filter,
               result |-> poll[p].result, number |-> number, previous |-> previous]]
    BY <1>5, Advanced
  <2> DEFINE q == [at |-> at, filter |-> poll[p].filter, result |-> poll[p].result,
                   number |-> number, previous |-> previous]
  <2>2. q \in PollFields /\ q.at = at /\ q.filter = poll[p].filter
          /\ poll' = [poll EXCEPT ![p] = q]
    BY <1>1, <2>1 DEF PollFields
  <2> HIDE DEF q
  <2>3. p \in Running /\ UNCHANGED <<overlapping, installed, watching>>
    BY <1>5, Advanced DEF Running
  <2>4. Running' = Running /\ \A g \in Filters : Shifted(g)' = Shifted(g)
    BY <2>2, <2>3, RunningAfter DEF Shifted, Running
  <2>5. /\ poll'[p].filter = poll[p].filter /\ poll[p].at # "idle"
        /\ \A r \in Polls : r # p => poll'[r] = poll[r]
    BY <2>2, <2>3, PollBecomes DEF Running
  <2>6. \A r \in Polls : /\ poll'[r].at # "idle" => poll[r].at # "idle"
                         /\ poll'[r].filter = poll[r].filter
    BY <2>5
  <2>7. Running \subseteq Polls /\ watching \subseteq Filters
    BY DEF Running, TypeOK
  <2>8. QED
    BY <2>3, <2>4, <2>6, <2>7 DEF FirstPolls
<1>6. ASSUME NEW p \in Polls, End(p) PROVE FirstPolls'
  <2> DEFINE q == [at |-> "answered", filter |-> poll[p].filter,
                   result |-> poll[p].result, number |-> poll[p].number,
                   previous |-> poll[p].previous]
             f == poll[p].filter
  <2>1. q \in PollFields /\ q.at = "answered" /\ q.filter = f
          /\ poll' = [poll EXCEPT ![p] = q]
    BY <1>1, <1>6, Ended DEF PollFields
  <2>2. p \in Running /\ UNCHANGED <<overlapping, installed>> /\ watching' = watching \ {f}
    BY <1>6, Ended DEF Running
  <2>3. f \in Filters /\ f \in installed
    BY <1>1, <2>2 DEF FirstPolls, Running, PollFields
  <2> HIDE DEF q, f
  <2>4. /\ Running' = Running \ {p}
        /\ \A g \in Filters : /\ Shifted(g)' \subseteq Shifted(g) \cup {p}
                              /\ g # f => Shifted(g)' \subseteq Shifted(g)
    <3>1. /\ Running' = (Running \ {p}) \cup (IF q.at \in {"idle", "answered"} THEN {} ELSE {p})
          /\ \A g \in Filters :
              Shifted(g)' = (Shifted(g) \ {p})
                 \cup (IF q.at = "answered" /\ q.filter = g /\ q.previous # NoBlock
                        THEN {p} ELSE {})
      BY <2>1, RunningAfter
    <3>2. QED
      BY <2>1, <3>1
  <2>5. /\ poll'[p].filter = f /\ \A r \in Polls : r # p => poll'[r] = poll[r]
    BY <2>1, PollBecomes
  <2>6. \A r \in Polls : poll'[r].at # "idle" => poll'[r].filter \in installed'
    BY <2>2, <2>3, <2>5 DEF FirstPolls
  <2>7. ASSUME ~overlapping
        PROVE  /\ \A r, s \in Running' : r = s
               /\ \A r \in Running' : poll'[r].filter \in watching'
               /\ \A g \in Filters : \A r, s \in Shifted(g)' : r = s
               /\ \A g \in watching' : Shifted(g)' = {}
    <3>1. Running' = {}
      BY <2>2, <2>4, <2>7 DEF FirstPolls
    <3>2. f \in watching /\ watching \subseteq Filters
      BY <2>2, <2>7 DEF FirstPolls, f, TypeOK
    <3>3. Shifted(f) = {}
      BY <2>7, <3>2 DEF FirstPolls
    <3>4. \A g \in Filters : \A r, s \in Shifted(g)' : r = s
      BY <2>3, <2>4, <2>7, <3>3 DEF FirstPolls
    <3>5. \A g \in watching' : Shifted(g)' = {}
      BY <2>2, <2>4, <2>7, <3>2 DEF FirstPolls
    <3>6. QED
      BY <3>1, <3>4, <3>5
  <2>8. QED
    BY <2>2, <2>6, <2>7 DEF FirstPolls
<1>7. ASSUME NEW p \in Polls, Throw(p) PROVE FirstPolls'
  BY <1>2, <1>7 DEF Throw
<1>8. CASE Mine \/ Revert
  BY <1>2, <1>8 DEF Mine, Revert
<1>9. QED
  BY <1>3, <1>4, <1>5, <1>6, <1>7, <1>8 DEF Next, GoesOn, Asked

LEMMA AccountsKept ==
  ASSUME TypeOK, ChainSound, \A p \in Polls : PollSound(p), Next,
         FirstPolls, NEW g \in Filters, Accounted(g), Tracks(g)
  PROVE  Accounted(g)'
<1> USE DEF node, filters
<1>1. poll \in [Polls -> PollFields]
  BY DEF TypeOK, PollFields
<1>2. ASSUME UNCHANGED <<poll, seen, current, reported>>,
             ToSet(changes[g]) \subseteq ToSet(changes'[g])
      PROVE  Accounted(g)'
  BY <1>2 DEF Accounted, Tells, Running, Shifted
<1>3. CASE Mine
  <2>1. UNCHANGED <<poll, current, reported>>
    BY <1>3 DEF Mine
  <2>2. PICK block \in Blocks :
           /\ changes' = [f \in Filters |-> IF f \in installed /\ block # tracked
                                          THEN Append(changes[f], block) ELSE changes[f]]
           /\ seen' = [f \in Filters |-> IF f \in installed THEN seen[f] \cup {block}
                                                          ELSE seen[f]]
    BY <1>3, Mined
  <2>3. CASE g \in installed /\ block # tracked
    <3>1. changes'[g] = Append(changes[g], block) /\ seen'[g] = seen[g] \cup {block}
      BY <2>2, <2>3
    <3>2. block \in ToSet(changes'[g]) /\ ToSet(changes[g]) \subseteq ToSet(changes'[g])
      <4>1. changes[g] \in Seq(Blocks)
        BY DEF TypeOK
      <4>2. Len(changes'[g]) = Len(changes[g]) + 1
              /\ changes'[g][Len(changes[g]) + 1] = block
        BY <3>1, <4>1
      <4>3. block \in ToSet(changes'[g])
        BY <4>1, <4>2, <3>1 DEF ToSet
      <4>4. \A i \in DOMAIN changes[g] :
              i \in DOMAIN changes'[g] /\ changes'[g][i] = changes[g][i]
        BY <3>1, <4>1
      <4>5. QED
        BY <4>3, <4>4 DEF ToSet
    <3>3. QED
      BY <2>1, <3>1, <3>2 DEF Accounted, Tells, Running, Shifted
  <2>4. CASE g \notin installed \/ block = tracked
    <3>1. changes'[g] = changes[g]
      BY <2>2, <2>4
    <3>2. seen'[g] \subseteq seen[g] \cup {current[g]}
      BY <2>2, <2>4 DEF Tracks
    <3>3. QED
      BY <2>1, <3>1, <3>2 DEF Accounted, Tells, Running, Shifted
  <2>5. QED
    BY <2>3, <2>4
<1>4. CASE Revert
  BY <1>2, <1>4 DEF Revert
<1>5. ASSUME NEW f \in Filters, handleNewBlockFilter(f) PROVE Accounted(g)'
  <2>1. CASE f # g
    <3>1. current'[g] = current[g]
      BY <1>5, <2>1 DEF handleNewBlockFilter, TypeOK
    <3>2. UNCHANGED <<poll, seen, reported, changes>>
      BY <1>5 DEF handleNewBlockFilter
    <3>3. QED
      BY <3>1, <3>2 DEF Accounted, Tells, Running, Shifted
  <2>2. CASE f = g
    BY <1>5, <2>2 DEF handleNewBlockFilter, Tracks, Accounted
  <2>3. QED
    BY <2>1, <2>2
<1>6. ASSUME NEW f \in Filters, NEW p \in Polls, GetFilterChanges(p, f)
      PROVE  Accounted(g)'
  <2>1. PICK at \in {"number", "hash", "answered"} :
           /\ at = "answered" <=> f \notin watching
           /\ poll' = [poll EXCEPT ![p] = [at |-> at, filter |-> f, result |-> changes[f],
                         number |-> poll[p].number, previous |-> poll[p].previous]]
    BY <1>6, Polled
  <2> DEFINE q == [at |-> at, filter |-> f, result |-> changes[f],
                   number |-> poll[p].number, previous |-> poll[p].previous]
  <2>2. /\ q \in PollFields /\ q.at = at /\ q.filter = f /\ q.result = changes[f]
        /\ poll' = [poll EXCEPT ![p] = q]
    BY <1>1, <2>1 DEF PollFields, TypeOK
  <2> HIDE DEF q
  <2>3. poll'[p] = q /\ \A r \in Polls : r # p => poll'[r] = poll[r]
    BY <2>2, PollBecomes
  <2>4. poll[p].at = "idle" /\ UNCHANGED <<seen, current>> /\ changes' = [changes EXCEPT ![f] = <<>>]
    BY <1>6 DEF GetFilterChanges
  <2>5. ASSUME NEW block \in seen'[g] \ {current'[g]} PROVE
          \/ block \in reported'[g] \cup ToSet(changes'[g])
          \/ \E r \in Polls : Tells(r, g, block)'
    <3>1. CASE \E r \in Polls : Tells(r, g, block)
      <4>1. PICK r \in Polls : Tells(r, g, block)
        BY <3>1
      <4>2. r # p
        BY <2>4, <4>1 DEF Tells, Running, Shifted
      <4>3. Tells(r, g, block)'
        BY <2>3, <4>1, <4>2 DEF Tells, Running, Shifted
      <4>4. QED
        BY <4>3
    <3>2. CASE block \in reported[g]
      <4>1. reported' = reported
               \/ reported' = [reported EXCEPT ![f] = @ \cup ToSet(changes[f])]
        BY <1>6 DEF GetFilterChanges
      <4>2. block \in reported'[g]
        BY <3>2, <4>1 DEF TypeOK
      <4>3. QED
        BY <4>2
    <3>3. CASE block \in ToSet(changes[g]) /\ g # f
      BY <2>4, <3>3 DEF TypeOK
    <3>4. CASE block \in ToSet(changes[g]) /\ g = f /\ f \in watching
      <4>1. at \notin {"idle", "answered"}
        BY <2>1, <3>4
      <4>2. Tells(p, g, block)'
        BY <2>2, <2>3, <3>4, <4>1 DEF Tells, Running
      <4>3. QED
        BY <4>2
    <3>5. CASE block \in ToSet(changes[g]) /\ g = f /\ f \notin watching
      <4>1. reported' = [reported EXCEPT ![f] = @ \cup ToSet(changes[f])]
        BY <1>6, <3>5 DEF GetFilterChanges
      <4>2. block \in reported'[g]
        BY <3>5, <4>1 DEF TypeOK
      <4>3. QED
        BY <4>2
    <3>6. QED
      BY <2>4, <3>1, <3>2, <3>3, <3>4, <3>5 DEF Accounted
  <2>6. QED
    BY <2>5 DEF Accounted
<1>7. ASSUME NEW p \in Polls, Asked(p) PROVE Accounted(g)'
  <2>1. PICK at \in {"hash", "previous", "end"}, number \in Blocks \cup {NoNumber},
             previous \in Blocks \cup {NoBlock} :
          poll' = [poll EXCEPT ![p] = [at |-> at, filter |-> poll[p].filter,
               result |-> poll[p].result, number |-> number, previous |-> previous]]
    BY <1>7, Advanced
  <2> DEFINE q == [at |-> at, filter |-> poll[p].filter, result |-> poll[p].result,
                   number |-> number, previous |-> previous]
  <2>2. /\ q \in PollFields /\ q.at \notin {"idle", "answered"}
        /\ q.filter = poll[p].filter /\ q.result = poll[p].result
        /\ poll' = [poll EXCEPT ![p] = q]
    BY <1>1, <2>1 DEF PollFields
  <2> HIDE DEF q
  <2>3. poll'[p] = q /\ \A r \in Polls : r # p => poll'[r] = poll[r]
    BY <2>2, PollBecomes
  <2>4. p \in Running /\ UNCHANGED <<seen, current, reported, changes>>
    BY <1>7, Advanced DEF Running
  <2>5. ASSUME NEW r \in Polls, NEW block, Tells(r, g, block) PROVE Tells(r, g, block)'
    BY <2>2, <2>3, <2>4, <2>5 DEF Tells, Running, Shifted
  <2>6. QED
    BY <2>4, <2>5 DEF Accounted
<1>8. ASSUME NEW p \in Polls, End(p) PROVE Accounted(g)'
  <2> DEFINE q == [at |-> "answered", filter |-> poll[p].filter,
                   result |-> poll[p].result, number |-> poll[p].number,
                   previous |-> poll[p].previous]
  <2>1. /\ q \in PollFields /\ q.at = "answered" /\ q.filter = poll[p].filter
        /\ q.result = poll[p].result /\ q.previous = poll[p].previous
        /\ poll' = [poll EXCEPT ![p] = q]
    BY <1>1, <1>8, Ended DEF PollFields
  <2> HIDE DEF q
  <2>2. poll'[p] = q /\ \A r \in Polls : r # p => poll'[r] = poll[r]
    BY <2>1, PollBecomes
  <2>3. /\ p \in Running /\ UNCHANGED <<seen, current, changes>>
        /\ reported' = [reported EXCEPT ![poll[p].filter] = @ \cup ToSet(Shown(p))]
    BY <1>8, Ended DEF Running
  <2>4. poll[p].filter \in Filters /\ poll[p].result \in Seq(Blocks)
    BY <1>1 DEF PollFields
  <2>5. \A f \in Filters : reported[f] \subseteq reported'[f]
    BY <2>3 DEF TypeOK
  <2>6. reported'[poll[p].filter] = reported[poll[p].filter] \cup ToSet(Shown(p))
    BY <2>3, <2>4 DEF TypeOK
  <2>7. ASSUME NEW r \in Polls, r # p, NEW block, Tells(r, g, block)
        PROVE  Tells(r, g, block)'
    BY <2>2, <2>7 DEF Tells, Running, Shifted
  <2>8. ASSUME NEW block, Tells(p, g, block)
        PROVE  block \in reported'[g] \/ Tells(p, g, block)'
    <3> DEFINE result == poll[p].result
    <3>1. poll[p].filter = g /\ block \in ToSet(result)
      BY <2>3, <2>8 DEF Tells, Running, Shifted
    <3>2. PICK i \in 1..Len(result) : block = result[i]
      BY <2>4, <3>1 DEF ToSet
    <3>3. result # <<>> /\ result \in Seq(Blocks)
      BY <2>4, <3>2
    <3>4. CASE poll[p].previous = NoBlock
      <4>1. Shown(p) = result
        BY <3>4 DEF Shown
      <4>2. QED
        BY <2>6, <3>1, <4>1
    <3>5. CASE poll[p].previous # NoBlock /\ i = 1
      <4>1. block = Head(poll'[p].result) /\ poll'[p].result # <<>>
        BY <2>1, <2>2, <3>2, <3>3, <3>5
      <4>2. Tells(p, g, block)'
        BY <2>1, <2>2, <3>1, <3>5, <4>1 DEF Tells, Shifted
      <4>3. QED
        BY <4>2
    <3>6. CASE poll[p].previous # NoBlock /\ i # 1
      <4>1. Shown(p) = <<poll[p].previous>> \o Tail(result)
        BY <3>3, <3>6 DEF Shown
      <4> HIDE DEF result
      <4>2. Tail(result) \in Seq(Blocks) /\ Len(Tail(result)) = Len(result) - 1
              /\ Tail(result)[i - 1] = block
        BY <3>2, <3>3, <3>6
      <4>3. i \in DOMAIN Shown(p) /\ Shown(p)[i] = block
        BY <3>2, <3>3, <3>6, <4>1, <4>2
      <4>4. block \in ToSet(Shown(p))
        BY <4>3 DEF ToSet
      <4>5. QED
        BY <2>6, <3>1, <4>4
    <3>7. QED
      BY <3>4, <3>5, <3>6
  <2>9. QED
    BY <2>3, <2>5, <2>7, <2>8 DEF Accounted
<1>9. ASSUME NEW p \in Polls, Throw(p) PROVE Accounted(g)'
  BY <1>2, <1>9 DEF Throw
<1>10. QED
  BY <1>3, <1>4, <1>5, <1>6, <1>7, <1>8, <1>9 DEF Next, GoesOn, Asked

\* What is tracked is told to every filter there is.
LEMMA TracksKept ==
  ASSUME TypeOK, ChainSound, \A p \in Polls : PollSound(p), Next,
         NEW g \in Filters, Tracks(g)
  PROVE  Tracks(g)'
<1> USE DEF node, filters
<1>1. ASSUME UNCHANGED <<tracked, installed, seen, current>> PROVE Tracks(g)'
  BY <1>1 DEF Tracks
<1>2. CASE Mine
  <2>1. PICK block \in Blocks :
           /\ tracked' = block
           /\ seen' = [f \in Filters |-> IF f \in installed THEN seen[f] \cup {block}
                                                          ELSE seen[f]]
    BY <1>2, Mined
  <2>2. UNCHANGED <<installed, current>>
    BY <1>2 DEF Mine
  <2>3. QED
    BY <2>1, <2>2 DEF Tracks
<1>3. ASSUME NEW f \in Filters, handleNewBlockFilter(f) PROVE Tracks(g)'
  BY <1>3 DEF handleNewBlockFilter, Tracks, TypeOK
<1>4. CASE Revert
  BY <1>1, <1>4 DEF Revert
<1>5. ASSUME NEW p \in Polls,
             Asked(p) \/ Throw(p) \/ End(p) \/ \E f \in Filters : GetFilterChanges(p, f)
      PROVE  Tracks(g)'
  <2>1. UNCHANGED <<tracked, installed, seen, current>>
    BY <1>5, Advanced DEF Throw, End, GetFilterChanges
  <2>2. QED
    BY <1>1, <2>1
<1>6. QED
  BY <1>2, <1>3, <1>4, <1>5 DEF Next, GoesOn, Asked
-----------------------------------------------------------------------------
(* The invariant, and what follows.                                         *)

LEMMA InitSound == Init => FilterInv
<1> SUFFICES ASSUME Init PROVE FilterInv
  OBVIOUS
<1>1. /\ poll = [p \in Polls |-> Idle] /\ Idle \in PollFields /\ Idle.at = "idle"
      /\ Idle.result = <<>> /\ Idle.previous = NoBlock
  BY IdleIs DEF Init
<1>2. Genesis \in Blocks /\ Start \in {0, 1} /\ Blocks \subseteq Nat /\ {0, 1} \subseteq Blocks
  BY BoundsAssumption DEF Genesis, Blocks, Start
<1>3. /\ poll \in [Polls -> PollFields]
      /\ \A p \in Polls : /\ poll[p].at = "idle" /\ poll[p].result = <<>>
                           /\ poll[p].previous = NoBlock
  BY <1>1
<1>4. TypeOK
  <2>1. /\ chain = [i \in 1..(Start + 1) |-> i - 1] /\ Start + 1 \in Nat
        /\ \A i \in 1..(Start + 1) : i - 1 \in Blocks
    BY <1>2 DEF Init
  <2>2. chain \in Seq(Blocks) /\ chain # <<>>
    <3>1. Len(chain) = Start + 1 /\ Start + 1 > 0
      BY <1>2, <2>1
    <3>2. QED
      BY <2>1, <3>1
  <2>3. parent \in [Blocks -> Blocks \cup {NoBlock}]
    <3>1. \A b \in Blocks : b \in 1..Start => b - 1 \in Blocks
      BY <1>2
    <3>2. QED
      BY <3>1 DEF Init
  <2>4. QED
    BY <1>2, <1>3, <2>2, <2>3 DEF Init, TypeOK, PollFields
<1>5. ChainSound /\ ThrowsOnlyForNoBlock
  <2>1. /\ chain = [i \in 1..(Start + 1) |-> i - 1] /\ Len(chain) = Start + 1
        /\ mined = Start
    BY <1>2 DEF Init
  <2>2. chain[1] = Genesis /\ \A i \in 1..Len(chain) : i - 1 <= chain[i] /\ chain[i] <= mined
    BY <1>2, <2>1 DEF Genesis
  <2>3. forked => Len(chain) > 1
    BY <2>1 DEF Start
  <2>4. \A b \in 1..mined : parent[b] \in Blocks /\ parent[b] < b
    BY <1>2, <2>1 DEF Init
  <2>5. \A f \in Filters : Genesis \notin ToSet(changes[f])
    BY DEF Init, ToSet
  <2>6. QED
    BY <2>2, <2>3, <2>4, <2>5 DEF Init, ChainSound, ThrowsOnlyForNoBlock
<1>6. \A p \in Polls : PollSound(p)
  BY <1>3 DEF PollSound, ToSet
<1>7. Running = {} /\ \A f : Shifted(f) = {}
  BY <1>3 DEF Running, Shifted
<1>8. FirstPolls
  BY <1>3, <1>7 DEF FirstPolls
<1>9. \A f \in Filters : Accounted(f) /\ Tracks(f)
  BY DEF Init, Accounted, Tracks
<1>10. QED
  BY <1>4, <1>5, <1>6, <1>8, <1>9 DEF FilterInv

LEMMA StepSound == FilterInv /\ [Next]_vars => FilterInv'
<1> SUFFICES ASSUME FilterInv, [Next]_vars PROVE FilterInv'
  OBVIOUS
<1>1. CASE Next
  <2>1. TypeOK' /\ ChainSound' /\ ThrowsOnlyForNoBlock' /\ FirstPolls'
    BY <1>1, TypesKept, ChainKept, ThrowsKept, FirstsKept DEF FilterInv
  <2>2. \A p \in Polls : PollSound(p)'
    BY <1>1, PollsKept DEF FilterInv
  <2>3. \A f \in Filters : Accounted(f)' /\ Tracks(f)'
    BY <1>1, AccountsKept, TracksKept DEF FilterInv
  <2>4. QED
    BY <2>1, <2>2, <2>3 DEF FilterInv, Polls
<1>2. CASE UNCHANGED vars
  <2> USE <1>2 DEF vars, node, filters
  <2>1. TypeOK' /\ ChainSound' /\ ThrowsOnlyForNoBlock'
    BY DEF FilterInv, TypeOK, ChainSound, Lost, ThrowsOnlyForNoBlock
  <2>2. Running' = Running /\ \A f : Shifted(f)' = Shifted(f)
    BY DEF Running, Shifted
  <2>3. FirstPolls'
    BY <2>2 DEF FilterInv, FirstPolls
  <2>4. \A p \in Polls : PollSound(p)'
    BY DEF FilterInv, PollSound, Height
  <2>5. \A f \in Filters : Accounted(f)' /\ Tracks(f)'
    BY <2>2 DEF FilterInv, Accounted, Tells, Tracks
  <2>6. QED
    BY <2>1, <2>3, <2>4, <2>5 DEF FilterInv, Polls
<1>3. QED
  BY <1>1, <1>2

LEMMA FilterInvHolds == Spec => []FilterInv
<1>1. QED
  BY InitSound, StepSound, PTL DEF Spec

\* TypeOK: the variables keep their types; a number a poll has is that of a block.
THEOREM TypeCorrect == Spec => []TypeOK
<1>1. FilterInv => TypeOK
  BY DEF FilterInv
<1>2. QED
  BY <1>1, FilterInvHolds, PTL

\* ThrowsOnlyForNoBlock: a poll throws at the genesis block with nothing to report, on a
\* fork for a change that was reverted, or when a revert crosses it, and never else
\* (handleGetFilterChanges).
THEOREM ThrowsForNoBlock == Spec => []ThrowsOnlyForNoBlock
<1>1. FilterInv => ThrowsOnlyForNoBlock
  BY DEF FilterInv
<1>2. QED
  BY <1>1, FilterInvHolds, PTL

\* At most one block is missed for each poll that shows the block before.
LEMMA MissedAreReplaced ==
  ASSUME FilterInv, NEW f \in Filters
  PROVE  /\ IsFiniteSet(Shifted(f)) /\ IsFiniteSet(Missed(f) \ {current[f]})
         /\ Cardinality(Missed(f) \ {current[f]}) <= Cardinality(Shifted(f))
<1> DEFINE missed == Missed(f) \ {current[f]}
           S == {p \in Shifted(f) : poll[p].result # <<>>}
           h == [p \in S |-> Head(poll[p].result)]
           T == {h[p] : p \in S}
<1>1. IsFiniteSet(Polls)
  BY FS_Interval, BoundsAssumption DEF Polls
<1>2. IsFiniteSet(Shifted(f))
  BY <1>1, FS_Subset DEF Shifted
<1>3. IsFiniteSet(S) /\ Cardinality(S) <= Cardinality(Shifted(f))
  BY <1>2, FS_Subset
<1>4. h \in Surjection(S, T)
  BY DEF Surjection
<1>5. IsFiniteSet(T) /\ Cardinality(T) <= Cardinality(S)
  <2> HIDE DEF S, T, h
  <2>1. QED
    BY <1>3, <1>4, FS_Surjection
<1>6. missed \subseteq T
  <2> SUFFICES ASSUME NEW block \in missed PROVE block \in T
    OBVIOUS
  <2>1. block \in seen[f] \ {current[f]} /\ block \notin reported[f] \cup ToSet(changes[f])
          /\ block \notin OnTheirWay(f)
    BY DEF Missed
  <2>2. PICK p \in Polls : Tells(p, f, block)
    BY <2>1 DEF FilterInv, Accounted
  <2>3. ~(p \in Running /\ block \in ToSet(poll[p].result))
    BY <2>1, <2>2 DEF OnTheirWay, Tells
  <2>4. p \in S /\ block = Head(poll[p].result)
    BY <2>2, <2>3 DEF Tells
  <2>5. QED
    BY <2>4
<1>7. IsFiniteSet(missed) /\ Cardinality(missed) <= Cardinality(T)
  BY <1>5, <1>6, FS_Subset
<1>8. Cardinality(missed) \in Int /\ Cardinality(T) \in Int
        /\ Cardinality(S) \in Int /\ Cardinality(Shifted(f)) \in Int
  BY <1>2, <1>3, <1>5, <1>7, FS_CardinalityType
<1> HIDE DEF S, T, h
<1>9. QED
  BY <1>2, <1>3, <1>5, <1>7, <1>8

\* OneBlockMissed: every block mined since a filter was made is told of, but one for
\* each poll that showed the block before, and the block that was tracked then, if it
\* comes back; one poll does that unless polls overlap, however many filters, polls and
\* reverts there are (handleGetFilterChanges, _setCurrentBlock).
THEOREM MissesOne == Spec => []OneBlockMissed
<1>1. FilterInv => OneBlockMissed
  <2> SUFFICES ASSUME FilterInv, NEW f \in Filters
               PROVE  /\ Cardinality(Missed(f) \ {current[f]}) <= Cardinality(Shifted(f))
                      /\ ~overlapping => Cardinality(Missed(f) \ {current[f]}) <= 1
    BY DEF OneBlockMissed
  <2>1. /\ IsFiniteSet(Shifted(f)) /\ Cardinality(Missed(f) \ {current[f]}) \in Int
        /\ Cardinality(Missed(f) \ {current[f]}) <= Cardinality(Shifted(f))
    BY MissedAreReplaced, FS_CardinalityType
  <2>2. ASSUME ~overlapping PROVE Cardinality(Shifted(f)) \in {0, 1}
    <3>1. \A p, q \in Shifted(f) : p = q
      BY <2>2 DEF FilterInv, FirstPolls
    <3>2. CASE Shifted(f) = {}
      BY <3>2, FS_EmptySet
    <3>3. CASE Shifted(f) # {}
      <4>1. PICK p \in Shifted(f) : TRUE
        BY <3>3
      <4>2. Shifted(f) = {p}
        BY <3>1, <4>1
      <4>3. QED
        BY <4>2, FS_Singleton
    <3>4. QED
      BY <3>2, <3>3
  <2>3. QED
    BY <2>1, <2>2
<1>2. QED
  BY <1>1, FilterInvHolds, PTL
===============================================================================
