-------------------------- MODULE ActionQueue_proofs --------------------------
(***************************************************************************)
(* Proofs about ActionQueue, for any accounts, calls, gas limit and set of *)
(* methods that may overlap.                                               *)
(***************************************************************************)
EXTENDS ActionQueue, FiniteSetTheorems, TLAPS

-----------------------------------------------------------------------------
(* The invariants.                                                          *)

MiningMethods == {"eth_sendTransaction", "evm_mine", "miner_start"}
ReadingMethods == {"eth_getBalance", "eth_getStorageAt"}
SideMethods == {"eth_call", "debug_traceTransaction"}

\* A call is at a stage of its method only.
StagesOfMethods ==
  \A c \in Calls :
    /\ work[c].at = "queued" => Method(c) \in Queued
    /\ work[c].at \in {"nonce", "latest", "code"} => Method(c) \in Checked
    /\ work[c].at \in {"parent", "vm", "commit", "mined"} => Method(c) \in MiningMethods
    /\ work[c].at = "block" => Method(c) \in ReadingMethods \cup SideMethods
    /\ work[c].at = "read" => Method(c) \in ReadingMethods
    /\ work[c].at = "aside" => Method(c) \in SideMethods

\* Whoever will put a root back has it, and whoever is checked, its transaction.
RootsHeld ==
  \A c \in Calls :
    /\ \/ work[c].at \in {"code", "read"}
       \/ work[c].at = "aside" /\ Method(c) = "debug_traceTransaction"
       => work[c].held # <<>>
    /\ work[c].at \in {"latest", "code"} => work[c].txs # <<>>

\* The calls between a checkpoint of theirs and its commit or revert.
UnderCheckpoint == {c \in Calls : work[c].at \in {"vm", "commit", "aside"}}

CheckpointsCounted == Len(checkpoints) = Cardinality(UnderCheckpoint)

\* At most one action of the queue is under way, the flag tells whether one is,
\* and only behind one do others wait, each once.
OneActionAtATime ==
  /\ \A c, d \in Executing : c = d
  /\ action_processing <=> Executing # {}
  /\ action_queue # <<>> => action_processing
  /\ Range(action_queue) = {c \in Calls : work[c].at = "queued"}
  /\ \A i, j \in DOMAIN action_queue :
       action_queue[i] = action_queue[j] => i = j

BlocksChosen ==
  \A c \in Calls : work[c].at \in {"read", "aside"} => BlockExists(c)

QueueInv ==
  /\ TypeOK /\ blocks # <<>>
  /\ StagesOfMethods /\ RootsHeld /\ CheckpointsCounted
  /\ OneActionAtATime /\ BlocksChosen

Active(c) == work[c].at \notin {"unsent", "queued", "done"}

LastRoot == blocks[Len(blocks)].root

Settled == stateRoot = LastRoot /\ checkpoints = <<>>

\* The trie as call c leaves it at each of its stages, when no other call touches it.
TrieOf(c) ==
  /\ work[c].at \in {"nonce", "latest", "parent", "mined", "block"} => Settled
  /\ work[c].at = "vm" => stateRoot = LastRoot /\ checkpoints = <<LastRoot>>
  /\ work[c].at = "commit" =>
       /\ stateRoot = RunBlock(LastRoot, work[c].txs)
       /\ checkpoints = <<LastRoot>>
  /\ work[c].at = "code" =>
       /\ stateRoot = LastRoot
       /\ work[c].held = <<LastRoot>>
       /\ checkpoints = <<>>
  /\ work[c].at = "read" =>
       /\ stateRoot = RootAsked(c)
       /\ work[c].held = <<LastRoot>>
       /\ checkpoints = <<>>
  /\ work[c].at = "aside" =>
       /\ stateRoot = RootAsked(c)
       /\ checkpoints = <<stateRoot>>
       /\ \/ work[c].held = <<LastRoot>>
          \/ work[c].held = <<>> /\ stateRoot = LastRoot

Replayed ==
  \A n \in 2..Len(blocks) :
    blocks[n].root = RunBlock(blocks[n - 1].root, blocks[n].txs)

SeenIn(c) == IF Method(c) = "debug_traceTransaction" THEN kind[c].block
             ELSE kind[c].block + 1

\* What was read is the state of a block that is in the chain.
ReadFromChain ==
  \A c \in Calls : seen[c] # <<>> =>
    IF kind[c].block = Latest
      THEN \E i \in DOMAIN blocks : seen[c][1] = blocks[i].root
      ELSE SeenIn(c) \in DOMAIN blocks /\ seen[c][1] = blocks[SeenIn(c)].root

TrieInv ==
  ~spoiled =>
    /\ ~Crossing
    /\ (\A c \in Calls : ~Active(c)) => Settled
    /\ \A c \in Calls : Active(c) => TrieOf(c)
    /\ Replayed
    /\ ReadFromChain
-----------------------------------------------------------------------------
(* What the ledger's operators return.                                      *)

Works == [at : Stages, txs : Seq(Tx), held : Seq(Root)]

Blocks == [txs : Seq(Tx), root : Root]

\* The VM leaves an account state behind, whatever transactions it is given.
LEMMA RunBlockType ==
  ASSUME NEW root \in Root, NEW txs \in Seq(Tx) PROVE RunBlock(root, txs) \in Root
<1>1. \A a \in Accounts : Cardinality(SentBy(txs, a)) \in Nat
  <2> TAKE a \in Accounts
  <2>1. SentBy(txs, a) \subseteq 1..Len(txs)
    BY DEF SentBy
  <2>2. IsFiniteSet(SentBy(txs, a))
    BY <2>1, FS_Interval, FS_Subset
  <2>3. QED
    BY <2>2, FS_CardinalityType
<1>2. Append(root.history, txs) \in Seq(Seq(Tx))
  BY DEF Root
<1>3. QED
  BY <1>1, <1>2 DEF RunBlock, Root

\* A call that takes a block leaves the rest of the pool, and holds transactions.
LEMMA TakeBlockType ==
  ASSUME NEW c \in Calls, NEW pool \in Seq(Tx), TakeBlock(c, pool)
  PROVE  /\ pending' \in Seq(Tx)
         /\ \E txs \in Seq(Tx) :
              work' = [work EXCEPT ![c] = Work("parent", txs, <<>>)]
<1>1. PICK sorted \in PriceNonceOrders(pool) :
        \E cut \in BlockCuts(sorted, BlockGasLimit) :
          /\ pending' = SubSeq(sorted, cut + 1, Len(sorted))
          /\ work' = [work EXCEPT ![c] = Work("parent", SubSeq(sorted, 1, cut), <<>>)]
  BY DEF TakeBlock
<1>a. PICK cut \in BlockCuts(sorted, BlockGasLimit) :
        /\ pending' = SubSeq(sorted, cut + 1, Len(sorted))
        /\ work' = [work EXCEPT ![c] = Work("parent", SubSeq(sorted, 1, cut), <<>>)]
  BY <1>1
<1>2. Range(pool) \subseteq Tx
  BY DEF Range
<1>3. sorted \in Seq(Tx)
  BY <1>2 DEF PriceNonceOrders
<1>4. cut \in 0..Len(sorted)
  BY DEF BlockCuts
<1>5. SubSeq(sorted, cut + 1, Len(sorted)) \in Seq(Tx) /\ SubSeq(sorted, 1, cut) \in Seq(Tx)
  BY <1>3, <1>4
<1>6. QED
  BY <1>a, <1>5

LEMMA QueuedNonceType ==
  ASSUME NEW pool \in Seq(Tx), NEW root \in Root, NEW account \in Accounts
  PROVE  QueuedNonce(pool, root, account) \subseteq Nat
<1>1. DEFINE queued == {pool[i].nonce : i \in {j \in DOMAIN pool :
                                                  pool[j].from = account}}
<1>2. queued \subseteq Nat
  <2>1. \A i \in DOMAIN pool : pool[i] \in Tx
    OBVIOUS
  <2>2. \A i \in DOMAIN pool : pool[i].nonce \in Nat
    BY <2>1 DEF Tx
  <2>3. QED
    BY <2>2
<1>3. root.nonce[account] \in Nat
  BY DEF Root
<1>4. QueuedNonce(pool, root, account) =
        IF queued = {} THEN {root.nonce[account]}
        ELSE {q + 1 : q \in {h \in queued : \A other \in queued : other <= h}}
  BY DEF QueuedNonce
<1> HIDE DEF queued
<1>5. \A q \in queued : q + 1 \in Nat
  BY <1>2
<1>6. QED
  BY <1>3, <1>4, <1>5

LEMMA KindType ==
  ASSUME TypeOK, NEW c \in Calls
  PROVE  /\ Method(c) \in Queued \cup Unqueued
         /\ kind[c].from \in Accounts /\ kind[c].fate \in Fates
         /\ kind[c].block \in Nat \cup {Latest}
BY KindsAssumption DEF TypeOK, Method

LEMMA WorkType ==
  ASSUME NEW at \in Stages, NEW txs \in Seq(Tx), NEW held \in Seq(Root)
  PROVE  /\ Work(at, txs, held) \in Works /\ At(at) \in Works
         /\ Work(at, txs, held).at = at /\ At(at).at = at
         /\ Work(at, txs, held).txs = txs
         /\ Work(at, txs, held).held = held /\ At(at).held = <<>>
BY DEF Work, At, Works

\* An action begins with its nonce or with its block, and holds no root.
LEMMA FirstStepType ==
  ASSUME NEW c \in Calls
  PROVE  /\ FirstStep(c) \in Works
         /\ FirstStep(c).at = IF Method(c) \in Checked THEN "nonce" ELSE "block"
         /\ FirstStep(c).held = <<>>
<1>1. CASE Method(c) \in Checked
  <2>1. FirstStep(c) = [at |-> "nonce", txs |-> <<>>, held |-> <<>>]
    BY <1>1 DEF FirstStep, At, Work
  <2>2. QED
    BY <1>1, <2>1 DEF Works, Stages
<1>2. CASE Method(c) \notin Checked
  <2>1. FirstStep(c) = [at |-> "block", txs |-> <<>>, held |-> <<>>]
    BY <1>2 DEF FirstStep, At, Work
  <2>2. QED
    BY <1>2, <2>1 DEF Works, Stages
<1>3. QED
  BY <1>1, <1>2

\* The block a call asks for is one of the chain.
LEMMA RootAskedType ==
  ASSUME QueueInv, NEW c \in Calls, BlockExists(c)
  PROVE  BlockAsked(c) + 1 \in DOMAIN blocks /\ RootAsked(c) \in Root
<1>1. BlockAsked(c) + 1 \in 1..Len(blocks)
  <2>1. Len(blocks) \in Nat /\ kind[c].block \in Nat \cup {Latest}
    BY KindType DEF QueueInv, TypeOK
  <2>2. kind[c].block < Len(blocks) /\ BlockAsked(c) >= 0
    BY DEF BlockExists
  <2>3. QED
    BY <2>1, <2>2 DEF BlockAsked, Latest
<1>2. blocks \in Seq(Blocks)
  BY DEF QueueInv, TypeOK, Blocks
<1>3. \A i \in DOMAIN blocks : blocks[i].root \in Root
  <2> TAKE i \in DOMAIN blocks
  <2>1. blocks[i] \in Blocks
    BY <1>2
  <2>2. QED
    BY <2>1 DEF Blocks
<1>4. BlockAsked(c) + 1 \in DOMAIN blocks
  BY <1>1, <1>2
<1>5. QED
  BY <1>3, <1>4 DEF RootAsked
-----------------------------------------------------------------------------
(* How a step changes the stages of the calls.                              *)

\* Call c may be at the stage of w.
FitsMethod(c, w) ==
  /\ w.at \in {"nonce", "latest", "code"} => Method(c) \in Checked
  /\ w.at \in {"parent", "vm", "commit", "mined"} => Method(c) \in MiningMethods
  /\ w.at = "block" => Method(c) \in ReadingMethods \cup SideMethods
  /\ w.at = "read" => Method(c) \in ReadingMethods
  /\ w.at = "aside" => Method(c) \in SideMethods
  /\ w.at \in {"code", "read"} => w.held # <<>>
  /\ w.at \in {"latest", "code"} => w.txs # <<>>
  /\ w.at = "aside" /\ Method(c) = "debug_traceTransaction" => w.held # <<>>

\* A call that goes on, or starts outside the queue.
MayMove(c) == Active(c) \/ (work[c].at = "unsent" /\ Method(c) \in Unqueued)

\* The stages at which a checkpoint of the call is in the trie.
HoldsCheckpoint(w) == w.at \in {"vm", "commit", "aside"}

\* The chain only gets longer.
ChainGrows ==
  blocks' = blocks \/ \E block \in Blocks : blocks' = Append(blocks, block)

LEMMA ChosenStays ==
  ASSUME QueueInv, UNCHANGED kind, ChainGrows
  PROVE  /\ blocks' \in Seq(Blocks) /\ blocks' # <<>>
         /\ \A c \in Calls : BlockExists(c) => BlockExists(c)'
<1>1. blocks \in Seq(Blocks) /\ blocks # <<>>
  BY DEF QueueInv, TypeOK, Blocks
<1>2. blocks' \in Seq(Blocks) /\ Len(blocks') \in Nat /\ Len(blocks') >= Len(blocks)
      /\ Len(blocks) >= 1
  BY <1>1 DEF ChainGrows
<1>3. ASSUME NEW c \in Calls, BlockExists(c) PROVE BlockExists(c)'
  BY <1>1, <1>2, <1>3, KindType
  DEF QueueInv, BlockExists, BlockAsked, Method, Latest
<1>4. QED
  BY <1>2, <1>3

LEMMA MoveKeeps ==
  ASSUME QueueInv, UNCHANGED <<kind, queue>>, ChainGrows,
         NEW c \in Calls, MayMove(c),
         NEW w \in Works, w.at \notin {"unsent", "queued", "done"}, FitsMethod(c, w),
         w.at \in {"read", "aside"} => BlockExists(c),
         work' = [work EXCEPT ![c] = w]
  PROVE  /\ work' \in [Calls -> Works] /\ work'[c] = w
         /\ \A d \in Calls \ {c} : work'[d] = work[d]
         /\ StagesOfMethods' /\ RootsHeld' /\ OneActionAtATime' /\ BlocksChosen'
         /\ UnderCheckpoint' = IF HoldsCheckpoint(w) THEN UnderCheckpoint \cup {c}
                               ELSE UnderCheckpoint \ {c}
<1> USE DEF QueueInv
<1>1. work \in [Calls -> Works]
  BY DEF TypeOK, Works
<1>2. work' \in [Calls -> Works]
  BY <1>1
<1>3. \A d \in Calls : Method(d)' = Method(d) /\ work'[d] = IF d = c THEN w ELSE work[d]
  BY <1>1 DEF Method
<1>4. StagesOfMethods'
  BY <1>3 DEF StagesOfMethods, FitsMethod
<1>5. RootsHeld'
  BY <1>3 DEF RootsHeld, FitsMethod
<1>6. Executing' = Executing
  BY <1>3 DEF Executing, InProgress, MayMove, Active, Queued, Unqueued
<1>7. {d \in Calls : work'[d].at = "queued"} = {d \in Calls : work[d].at = "queued"}
  BY <1>3 DEF MayMove, Active
<1>8. OneActionAtATime'
  BY <1>6, <1>7 DEF OneActionAtATime, queue
<1>9. BlocksChosen'
  BY <1>3, ChosenStays DEF BlocksChosen
<1>10. UnderCheckpoint' = IF HoldsCheckpoint(w) THEN UnderCheckpoint \cup {c}
                          ELSE UnderCheckpoint \ {c}
  BY <1>3 DEF UnderCheckpoint, HoldsCheckpoint
<1>11. QED
  BY <1>2, <1>3, <1>4, <1>5, <1>8, <1>9, <1>10

\* The end of a call, and the start of the action behind it.
EndsAndStarts(c) ==
  /\ work'[c] = At("done")
  /\ \A d \in Calls \ {c} :
       \/ work'[d] = work[d]
       \/ work[d].at = "queued" /\ work'[d] = FirstStep(d)

LEMMA FinishKeeps ==
  ASSUME QueueInv, UNCHANGED <<kind, blocks>>, NEW c \in Calls, MayMove(c), NextAction(c)
  PROVE  /\ work' \in [Calls -> Works]
         /\ action_queue' \in Seq(Calls) /\ action_processing' \in BOOLEAN
         /\ EndsAndStarts(c)
         /\ StagesOfMethods' /\ RootsHeld' /\ OneActionAtATime' /\ BlocksChosen'
         /\ UnderCheckpoint' = UnderCheckpoint \ {c}
<1> USE DEF QueueInv
<1>1. work \in [Calls -> Works] /\ action_queue \in Seq(Calls)
  BY DEF TypeOK, Works
<1>2. At("done") \in Works
  BY WorkType DEF Stages, At, Work, Works
<1>3. \A d \in Calls : Method(d)' = Method(d)
  BY DEF Method
<1>4. Method(c) \in Queued => Executing = {c}
  BY DEF MayMove, Active, Executing, InProgress, OneActionAtATime, Queued, Unqueued
<1> DEFINE Good == /\ work' \in [Calls -> Works]
                   /\ action_queue' \in Seq(Calls) /\ action_processing' \in BOOLEAN
                   /\ EndsAndStarts(c)
                   /\ StagesOfMethods' /\ RootsHeld' /\ OneActionAtATime'
<1>a. ASSUME Method(c) \in Queued, action_queue # <<>>
      PROVE  Good
  <2> DEFINE next == Head(action_queue)
  <2>1. next \in Calls /\ work[next].at = "queued" /\ next = action_queue[1]
    BY <1>1, <1>a DEF OneActionAtATime, Range
  <2>2. next # c /\ Method(next) \in Queued
    BY <2>1 DEF MayMove, Active, StagesOfMethods
  <2>3. FirstStep(next) \in Works
    BY <2>1, FirstStepType
  <2>4. work' = [work EXCEPT ![c] = At("done"), ![next] = FirstStep(next)]
        /\ action_queue' = Tail(action_queue) /\ action_processing' = action_processing
    BY <1>a DEF NextAction
  <2> HIDE DEF next
  <2>5. work' \in [Calls -> Works] /\ action_queue' \in Seq(Calls)
    BY <1>1, <1>2, <1>a, <2>1, <2>3, <2>4
  <2>6. \A d \in Calls : work'[d] = IF d = c THEN At("done")
                                    ELSE IF d = next THEN FirstStep(d) ELSE work[d]
    BY <1>1, <2>1, <2>2, <2>4
  <2>7. StagesOfMethods'
    <3>1. ASSUME NEW d \in Calls
          PROVE  /\ Method(d)' = Method(d)
                 /\ d # c /\ d # next => work'[d] = work[d]
                 /\ d = c => work'[d].at = "done"
                 /\ d = next => work'[d].at = IF Method(d) \in Checked
                                             THEN "nonce" ELSE "block"
      <4>1. d = c => work'[d].at = "done"
        BY <2>6 DEF At, Work
      <4>2. d = next => work'[d] = FirstStep(d)
        BY <2>2, <2>6
      <4>3. QED
        BY <1>3, <2>6, <4>1, <4>2, FirstStepType
    <3>2. QED
      BY <2>2, <3>1 DEF StagesOfMethods, Queued, ReadingMethods, SideMethods, Checked
  <2>8. RootsHeld'
    <3>1. ASSUME NEW d \in Calls
          PROVE  /\ d # c /\ d # next => work'[d] = work[d]
                 /\ d = c => work'[d].at = "done"
                 /\ d = next => work'[d].at \in {"nonce", "block"}
      <4>1. d = c => work'[d].at = "done"
        BY <2>6 DEF At, Work
      <4>2. d = next => work'[d] = FirstStep(d)
        BY <2>2, <2>6
      <4>3. QED
        BY <2>6, <4>1, <4>2, FirstStepType
    <3>2. QED
      BY <1>3, <3>1 DEF RootsHeld
  <2>9. Executing' = {next}
    <3>1. work'[c].at = "done" /\ work'[next].at \in {"nonce", "block"}
      BY <2>1, <2>2, <2>6, FirstStepType DEF At, Work
    <3>2. \A d \in Calls : d # c /\ d # next => work'[d] = work[d]
      BY <2>6
    <3>3. QED
      BY <1>3, <1>4, <1>a, <2>1, <2>2, <3>1, <3>2 DEF Executing, InProgress
  <2>10. Range(action_queue') = {d \in Calls : work'[d].at = "queued"}
    <3>1. \A d \in Calls : work'[d].at = "queued" <=> work[d].at = "queued" /\ d # next
      <4>1. work'[c].at = "done" /\ work'[next].at \in {"nonce", "block"}
        BY <2>1, <2>2, <2>6, FirstStepType DEF At, Work
      <4>2. \A d \in Calls : d # c /\ d # next => work'[d] = work[d]
        BY <2>6
      <4>3. QED
        BY <2>1, <4>1, <4>2 DEF MayMove, Active
    <3>2. Range(action_queue') = Range(action_queue) \ {next}
      <4>1. /\ Len(action_queue) > 0 /\ Len(action_queue') = Len(action_queue) - 1
            /\ \A i \in 1..(Len(action_queue) - 1) : action_queue'[i] = action_queue[i + 1]
        BY <1>1, <1>a, <2>4
      <4>2. \A i \in 2..Len(action_queue) : action_queue[i] # next
        BY <1>1, <2>1, <4>1 DEF OneActionAtATime
      <4>3. ASSUME NEW x PROVE x \in Range(action_queue')
                                 <=> \E i \in 2..Len(action_queue) : x = action_queue[i]
        <5>1. ASSUME NEW i \in 2..Len(action_queue)
              PROVE  i - 1 \in DOMAIN action_queue' /\ action_queue'[i - 1] = action_queue[i]
          BY <1>1, <2>5, <4>1
        <5>2. ASSUME NEW i \in DOMAIN action_queue'
              PROVE  i + 1 \in 2..Len(action_queue) /\ action_queue'[i] = action_queue[i + 1]
          BY <1>1, <2>5, <4>1
        <5>3. QED
          BY <5>1, <5>2 DEF Range
      <4>4. ASSUME NEW x PROVE x \in Range(action_queue)
                                 <=> x = next \/ \E i \in 2..Len(action_queue) : x = action_queue[i]
        <5>1. DOMAIN action_queue = {1} \cup 2..Len(action_queue)
          BY <1>1, <4>1
        <5>2. QED
          BY <2>1, <5>1 DEF Range
      <4>5. QED
        BY <4>2, <4>3, <4>4
    <3>3. QED
      BY <3>1, <3>2 DEF OneActionAtATime
  <2>11. \A i, j \in DOMAIN action_queue' : action_queue'[i] = action_queue'[j] => i = j
    BY <1>1, <1>a, <2>4 DEF OneActionAtATime
  <2>12. action_processing
    BY <1>a DEF OneActionAtATime
  <2>13. OneActionAtATime'
    BY <2>4, <2>9, <2>10, <2>11, <2>12 DEF OneActionAtATime
  <2>14. QED
    <3>1. action_processing' \in BOOLEAN
      BY <2>4 DEF TypeOK
    <3>2. EndsAndStarts(c)
      BY <2>1, <2>6 DEF EndsAndStarts
    <3>3. QED
      BY <2>5, <2>7, <2>8, <2>13, <3>1, <3>2
<1>b. ASSUME ~(Method(c) \in Queued /\ action_queue # <<>>)
      PROVE  Good
  <2>1. work' = [work EXCEPT ![c] = At("done")] /\ action_queue' = action_queue
        /\ action_processing' = (action_processing /\ Method(c) \notin Queued)
    BY <1>b DEF NextAction
  <2>2. work' \in [Calls -> Works]
    BY <1>1, <1>2, <2>1
  <2>3. \A d \in Calls : work'[d] = IF d = c THEN At("done") ELSE work[d]
    BY <1>1, <2>1
  <2>4. StagesOfMethods' /\ RootsHeld'
    BY <1>3, <2>3 DEF StagesOfMethods, RootsHeld, At, Work
  <2>5. {d \in Calls : work'[d].at = "queued"} = {d \in Calls : work[d].at = "queued"}
    BY <2>3 DEF MayMove, Active, At, Work
  <2>6. Executing' = Executing \ {c}
    BY <1>3, <2>3 DEF Executing, InProgress, At, Work
  <2>7. action_processing' <=> Executing' # {}
    <3>1. CASE Method(c) \in Queued
      BY <1>4, <2>1, <2>6, <3>1
    <3>2. CASE Method(c) \notin Queued
      BY <2>1, <2>6, <3>2 DEF OneActionAtATime, Executing, TypeOK
    <3>3. QED
      BY <3>1, <3>2
  <2>8. action_queue' # <<>> => action_processing'
    BY <1>b, <2>1 DEF OneActionAtATime
  <2>9. OneActionAtATime'
    BY <2>1, <2>5, <2>6, <2>7, <2>8 DEF OneActionAtATime
  <2>10. QED
    BY <1>1, <2>1, <2>2, <2>3, <2>4, <2>9 DEF TypeOK, EndsAndStarts
<1>5. Good
  BY <1>a, <1>b
<1>6. ASSUME NEW d \in Calls
      PROVE  /\ d = c => work'[d].at = "done"
             /\ d # c => \/ work'[d] = work[d]
                         \/ work[d].at = "queued" /\ work'[d].at \in {"nonce", "block"}
  <2>1. d = c => work'[d].at = "done"
    BY <1>5 DEF EndsAndStarts, At, Work
  <2>2. FirstStep(d).at \in {"nonce", "block"}
    BY FirstStepType
  <2>3. d # c => \/ work'[d] = work[d]
                 \/ work[d].at = "queued" /\ work'[d] = FirstStep(d)
    BY <1>5 DEF EndsAndStarts
  <2>4. QED
    BY <2>1, <2>2, <2>3
<1>7. BlocksChosen'
  <2>1. ASSUME NEW d \in Calls, BlockExists(d) PROVE BlockExists(d)'
    BY <2>1 DEF BlockExists, BlockAsked, Method
  <2>2. QED
    BY <1>6, <2>1 DEF BlocksChosen
<1>8. UnderCheckpoint' = UnderCheckpoint \ {c}
  BY <1>6 DEF UnderCheckpoint
<1>9. QED
  BY <1>5, <1>7, <1>8
-----------------------------------------------------------------------------
(* Checkpoints.                                                             *)

LEMMA CallsAreFinite == IsFiniteSet(UnderCheckpoint)
<1>1. IsFiniteSet(Calls)
  BY BoundAssumption, FS_Interval DEF Calls
<1>2. UnderCheckpoint \subseteq Calls
  BY DEF UnderCheckpoint
<1>3. QED
  BY <1>1, <1>2, FS_Subset

\* A call that makes a checkpoint is one more under a checkpoint.
LEMMA PushKeepsCount ==
  ASSUME QueueInv, NEW c \in Calls, ~HoldsCheckpoint(work[c]),
         UnderCheckpoint' = UnderCheckpoint \cup {c},
         NEW root \in Root, checkpoints' = Append(checkpoints, root)
  PROVE  checkpoints' \in Seq(Root) /\ CheckpointsCounted'
<1>1. checkpoints \in Seq(Root) /\ Len(checkpoints) = Cardinality(UnderCheckpoint)
  BY DEF QueueInv, TypeOK, CheckpointsCounted
<1>2. c \notin UnderCheckpoint
  BY DEF UnderCheckpoint, HoldsCheckpoint
<1>3. Cardinality(UnderCheckpoint \cup {c}) = Cardinality(UnderCheckpoint) + 1
  BY <1>2, CallsAreFinite, FS_AddElement
<1>4. Len(checkpoints') = Len(checkpoints) + 1 /\ checkpoints' \in Seq(Root)
  BY <1>1
<1>5. QED
  BY <1>1, <1>3, <1>4 DEF CheckpointsCounted

\* A call under a checkpoint finds one to pop, whoever made it.
LEMMA PopKeepsCount ==
  ASSUME QueueInv, NEW c \in Calls, HoldsCheckpoint(work[c])
  PROVE  /\ Popped \in Root
         /\ PopCheckpoint /\ UnderCheckpoint' = UnderCheckpoint \ {c}
            => checkpoints' \in Seq(Root) /\ CheckpointsCounted'
<1>1. checkpoints \in Seq(Root) /\ Len(checkpoints) = Cardinality(UnderCheckpoint)
  BY DEF QueueInv, TypeOK, CheckpointsCounted
<1>2. c \in UnderCheckpoint
  BY DEF UnderCheckpoint, HoldsCheckpoint
<1>3. /\ Cardinality(UnderCheckpoint) \in Nat
      /\ Cardinality(UnderCheckpoint \ {c}) = Cardinality(UnderCheckpoint) - 1
  BY <1>2, CallsAreFinite, FS_RemoveElement, FS_CardinalityType
<1>4. Len(checkpoints) >= 1
  <2>1. UnderCheckpoint # {}
    BY <1>2
  <2>2. Cardinality(UnderCheckpoint) # 0
    BY <2>1, CallsAreFinite, FS_EmptySet
  <2>3. QED
    BY <1>1, <1>3, <2>2
<1>5. Popped \in Root
  BY <1>1, <1>4 DEF Popped
<1>6. ASSUME PopCheckpoint, UnderCheckpoint' = UnderCheckpoint \ {c}
      PROVE  checkpoints' \in Seq(Root) /\ CheckpointsCounted'
  <2>1. checkpoints' \in Seq(Root) /\ Len(checkpoints') = Len(checkpoints) - 1
    BY <1>1, <1>4, <1>6 DEF PopCheckpoint
  <2>2. QED
    BY <1>1, <1>3, <1>6, <2>1 DEF CheckpointsCounted
<1>7. QED
  BY <1>5, <1>6

\* A step of a call that touches no checkpoint.
LEMMA SameCheckpoints ==
  ASSUME QueueInv, UnderCheckpoint' = UnderCheckpoint, UNCHANGED checkpoints
  PROVE  CheckpointsCounted'
BY DEF QueueInv, CheckpointsCounted
-----------------------------------------------------------------------------
(* The queue's part of the invariant holds at first and after every step.   *)

LEMMA InitQueueInv == Init => QueueInv
<1> SUFFICES ASSUME Init PROVE QueueInv
  OBVIOUS
<1>1. GenesisRoot \in Root
  BY DEF GenesisRoot, Root
<1>2. At("unsent") \in Works /\ At("unsent").at = "unsent"
  BY WorkType DEF Stages, At, Work, Works
<1>3. TypeOK
  <2>1. work \in [Calls -> Works]
    BY <1>2 DEF Init
  <2>2. blocks \in Seq(Blocks)
    BY <1>1 DEF Init, Blocks
  <2>3. kind \in [Calls -> Kinds] /\ action_queue \in Seq(Calls) /\ pending \in Seq(Tx)
    BY DEF Init
  <2>4. stateRoot \in Root /\ checkpoints \in Seq(Root) /\ seen \in [Calls -> Seq(Root)]
    BY <1>1 DEF Init
  <2>5. QED
    BY <2>1, <2>2, <2>3, <2>4 DEF Init, TypeOK, Works, Blocks
<1>4. \A c \in Calls : work[c].at = "unsent"
  BY <1>2 DEF Init
<1>5. StagesOfMethods /\ RootsHeld /\ BlocksChosen
  BY <1>4 DEF StagesOfMethods, RootsHeld, BlocksChosen
<1>6. CheckpointsCounted
  <2>1. UnderCheckpoint = {}
    BY <1>4 DEF UnderCheckpoint
  <2>2. QED
    BY <2>1, FS_EmptySet DEF Init, CheckpointsCounted
<1>7. OneActionAtATime
  <2>1. Executing = {}
    BY <1>4 DEF Executing, InProgress
  <2>2. Range(action_queue) = {}
    BY DEF Init, Range
  <2>3. QED
    BY <1>4, <2>1, <2>2 DEF Init, OneActionAtATime
<1>8. QED
  BY <1>3, <1>5, <1>6, <1>7 DEF Init, QueueInv

\* A call that takes a block for itself.
LEMMA TakeBlockKeeps ==
  ASSUME QueueInv, NEW c \in Calls, MayMove(c), Method(c) \in MiningMethods,
         ~HoldsCheckpoint(work[c]),
         NEW pool \in Seq(Tx), TakeBlock(c, pool), is_mining' \in BOOLEAN,
         UNCHANGED <<kind, queue, blocks, checkpoints, failed, seen>>,
         stateRoot' \in Root, spoiled' \in BOOLEAN
  PROVE  /\ QueueInv'
         /\ work'[c].at = "parent" /\ \A d \in Calls \ {c} : work'[d] = work[d]
<1>1. PICK txs \in Seq(Tx) : work' = [work EXCEPT ![c] = Work("parent", txs, <<>>)]
  BY TakeBlockType
<1>2. pending' \in Seq(Tx)
  BY TakeBlockType
<1> DEFINE w == Work("parent", txs, <<>>)
<1>3. w \in Works /\ w.at = "parent"
  <2>1. w = [at |-> "parent", txs |-> txs, held |-> <<>>]
    BY DEF Work
  <2> HIDE DEF w
  <2>2. "parent" \in Stages /\ <<>> \in Seq(Root)
    BY DEF Stages
  <2>3. QED
    BY <2>1, <2>2 DEF Works
<1> HIDE DEF w
<1>4. /\ work' \in [Calls -> Works] /\ work'[c] = w
      /\ \A d \in Calls \ {c} : work'[d] = work[d]
      /\ StagesOfMethods' /\ RootsHeld' /\ OneActionAtATime' /\ BlocksChosen'
      /\ UnderCheckpoint' = IF HoldsCheckpoint(w) THEN UnderCheckpoint \cup {c}
                            ELSE UnderCheckpoint \ {c}
  <2>1. FitsMethod(c, w)
    BY <1>3 DEF FitsMethod
  <2>2. work' = [work EXCEPT ![c] = w]
    BY <1>1 DEF w
  <2>3. QED
    BY <1>3, <2>1, <2>2, MoveKeeps DEF ChainGrows
<1>5. UnderCheckpoint' = UnderCheckpoint
  BY <1>3, <1>4 DEF UnderCheckpoint, HoldsCheckpoint
<1>6. CheckpointsCounted'
  BY <1>5, SameCheckpoints
<1>7. TypeOK' /\ blocks' # <<>>
  BY <1>2, <1>4 DEF QueueInv, TypeOK, Works, queue
<1>8. QED
  BY <1>3, <1>4, <1>6, <1>7 DEF QueueInv

\* A call that ends without having a checkpoint in the trie.
LEMMA EndKeeps ==
  ASSUME QueueInv, NEW c \in Calls, MayMove(c), ~HoldsCheckpoint(work[c]),
         NextAction(c), UNCHANGED <<kind, blocks, checkpoints>>,
         is_mining' \in BOOLEAN, pending' \in Seq(Tx), stateRoot' \in Root,
         failed' \subseteq Calls, seen' \in [Calls -> Seq(Root)], spoiled' \in BOOLEAN
  PROVE  QueueInv' /\ EndsAndStarts(c)
<1>1. /\ work' \in [Calls -> Works]
      /\ action_queue' \in Seq(Calls) /\ action_processing' \in BOOLEAN
      /\ EndsAndStarts(c)
      /\ StagesOfMethods' /\ RootsHeld' /\ OneActionAtATime' /\ BlocksChosen'
      /\ UnderCheckpoint' = UnderCheckpoint \ {c}
  BY FinishKeeps
<1>2. UnderCheckpoint' = UnderCheckpoint
  BY <1>1 DEF UnderCheckpoint, HoldsCheckpoint
<1>3. CheckpointsCounted'
  BY <1>2, SameCheckpoints
<1>4. TypeOK' /\ blocks' # <<>>
  BY <1>1 DEF QueueInv, TypeOK, Works
<1>5. QED
  BY <1>1, <1>3, <1>4 DEF QueueInv

\* A call that ends and takes its checkpoint with it.
LEMMA PopKeeps ==
  ASSUME QueueInv, NEW c \in Calls, HoldsCheckpoint(work[c]), PopCheckpoint,
         NextAction(c), UNCHANGED <<kind, is_mining, pending, blocks>>,
         stateRoot' \in Root,
         failed' \subseteq Calls, seen' \in [Calls -> Seq(Root)], spoiled' \in BOOLEAN
  PROVE  QueueInv' /\ EndsAndStarts(c)
<1>1. /\ work' \in [Calls -> Works]
      /\ action_queue' \in Seq(Calls) /\ action_processing' \in BOOLEAN
      /\ EndsAndStarts(c)
      /\ StagesOfMethods' /\ RootsHeld' /\ OneActionAtATime' /\ BlocksChosen'
      /\ UnderCheckpoint' = UnderCheckpoint \ {c}
  <2>1. MayMove(c)
    BY DEF HoldsCheckpoint, MayMove, Active
  <2>2. QED
    BY <2>1, FinishKeeps
<1>2. CheckpointsCounted' /\ checkpoints' \in Seq(Root)
  BY <1>1, PopKeepsCount
<1>3. TypeOK' /\ blocks' # <<>>
  BY <1>1, <1>2 DEF QueueInv, TypeOK, Works
<1>4. QED
  BY <1>1, <1>2, <1>3 DEF QueueInv

\* A call that goes on as w, with the checkpoints that come with it.
LEMMA GoOnKeeps ==
  ASSUME QueueInv, NEW c \in Calls, MayMove(c),
         NEW w \in Works, w.at \notin {"unsent", "queued", "done"}, FitsMethod(c, w),
         w.at \in {"read", "aside"} => BlockExists(c),
         work' = [work EXCEPT ![c] = w],
         UNCHANGED <<kind, queue, is_mining, pending, failed, seen>>,
         stateRoot' \in Root, ChainGrows, spoiled' \in BOOLEAN,
         \/ /\ HoldsCheckpoint(w) <=> HoldsCheckpoint(work[c])
            /\ UNCHANGED checkpoints
         \/ /\ HoldsCheckpoint(w) /\ ~HoldsCheckpoint(work[c])
            /\ \E root \in Root : checkpoints' = Append(checkpoints, root)
         \/ ~HoldsCheckpoint(w) /\ HoldsCheckpoint(work[c]) /\ PopCheckpoint
  PROVE  /\ QueueInv'
         /\ work'[c] = w /\ \A d \in Calls \ {c} : work'[d] = work[d]
<1>1. /\ work' \in [Calls -> Works] /\ work'[c] = w
      /\ \A d \in Calls \ {c} : work'[d] = work[d]
      /\ StagesOfMethods' /\ RootsHeld' /\ OneActionAtATime' /\ BlocksChosen'
      /\ UnderCheckpoint' = IF HoldsCheckpoint(w) THEN UnderCheckpoint \cup {c}
                            ELSE UnderCheckpoint \ {c}
  BY MoveKeeps
<1>2. checkpoints' \in Seq(Root) /\ CheckpointsCounted'
  <2>1. CASE (HoldsCheckpoint(w) <=> HoldsCheckpoint(work[c])) /\ UNCHANGED checkpoints
    <3>1. UnderCheckpoint' = UnderCheckpoint
      BY <1>1, <2>1 DEF UnderCheckpoint, HoldsCheckpoint
    <3>2. QED
      BY <2>1, <3>1, SameCheckpoints DEF QueueInv, TypeOK
  <2>2. CASE /\ HoldsCheckpoint(w) /\ ~HoldsCheckpoint(work[c])
             /\ \E root \in Root : checkpoints' = Append(checkpoints, root)
    BY <1>1, <2>2, PushKeepsCount
  <2>3. CASE ~HoldsCheckpoint(w) /\ HoldsCheckpoint(work[c]) /\ PopCheckpoint
    BY <1>1, <2>3, PopKeepsCount
  <2>4. QED
    BY <2>1, <2>2, <2>3
<1>3. blocks' \in Seq(Blocks) /\ blocks' # <<>>
  BY ChosenStays
<1>4. TypeOK'
  BY <1>1, <1>2, <1>3 DEF QueueInv, TypeOK, Works, Blocks, queue
<1>5. QED
  BY <1>1, <1>2, <1>3, <1>4 DEF QueueInv

LEMMA EnqueueKeeps ==
  ASSUME QueueInv, NEW c \in Calls, Enqueue(c), spoiled' \in BOOLEAN
  PROVE  QueueInv'
<1> USE DEF QueueInv
<1>1. /\ work \in [Calls -> Works] /\ work[c].at = "unsent" /\ Method(c) \in Queued
      /\ action_queue \in Seq(Calls) /\ action_processing' = TRUE
      /\ UNCHANGED <<kind, is_mining, pending, blocks, trie, failed, seen>>
  BY DEF Enqueue, MayStart, TypeOK, Works
<1>2. \A d \in Calls : Method(d)' = Method(d) /\ (BlockExists(d) => BlockExists(d)')
  BY <1>1 DEF Method, BlockExists, BlockAsked
<1> DEFINE w == IF MustWait THEN At("queued") ELSE FirstStep(c)
<1>3. /\ w \in Works
      /\ MustWait => w.at = "queued"
      /\ ~MustWait => /\ w.at = IF Method(c) \in Checked THEN "nonce" ELSE "block"
  <2>1. At("queued") \in Works /\ At("queued").at = "queued"
    BY DEF At, Work, Works, Stages
  <2>2. QED
    BY <2>1, FirstStepType
<1>4. work' = [work EXCEPT ![c] = w]
  BY DEF Enqueue
<1> HIDE DEF w
<1>5. /\ work' \in [Calls -> Works]
      /\ \A d \in Calls : work'[d] = IF d = c THEN w ELSE work[d]
  BY <1>1, <1>3, <1>4
<1>6. StagesOfMethods' /\ RootsHeld' /\ BlocksChosen'
  BY <1>1, <1>2, <1>3, <1>5
  DEF StagesOfMethods, RootsHeld, BlocksChosen, Queued, SideMethods, ReadingMethods, Checked
<1>7. UnderCheckpoint' = UnderCheckpoint
  BY <1>1, <1>3, <1>5 DEF UnderCheckpoint
<1>8. CheckpointsCounted'
  BY <1>1, <1>7, SameCheckpoints DEF trie
<1>9. action_queue' \in Seq(Calls) /\ OneActionAtATime'
  <2>1. ASSUME MustWait PROVE action_queue' \in Seq(Calls) /\ OneActionAtATime'
    <3>1. action_queue' = Append(action_queue, c) /\ action_processing
      BY <2>1 DEF Enqueue, MustWait
    <3>2. Executing' = Executing
      BY <1>1, <1>2, <1>3, <1>5, <2>1 DEF Executing, InProgress
    <3>3. \A d \in Calls : work'[d].at = "queued" <=> d = c \/ work[d].at = "queued"
      BY <1>3, <1>5, <2>1
    <3>4. c \notin Range(action_queue)
      BY <1>1 DEF OneActionAtATime
    <3>5. /\ action_queue' \in Seq(Calls) /\ DOMAIN action_queue' = 1..(Len(action_queue) + 1)
          /\ \A i \in 1..Len(action_queue) : action_queue'[i] = action_queue[i]
          /\ action_queue'[Len(action_queue) + 1] = c
      BY <1>1, <3>1
    <3>6. Range(action_queue') = Range(action_queue) \cup {c}
      <4>1. DOMAIN action_queue' = 1..Len(action_queue) \cup {Len(action_queue) + 1}
            /\ DOMAIN action_queue = 1..Len(action_queue)
        BY <1>1, <3>5
      <4>2. QED
        BY <3>5, <4>1 DEF Range
    <3>7. \A i, j \in DOMAIN action_queue' : action_queue'[i] = action_queue'[j] => i = j
      <4>1. \A i \in 1..Len(action_queue) : action_queue[i] # c
        BY <1>1, <3>4 DEF Range
      <4>2. QED
        BY <1>1, <3>5, <4>1 DEF OneActionAtATime
    <3>8. Range(action_queue') = {d \in Calls : work'[d].at = "queued"}
      BY <3>3, <3>6 DEF OneActionAtATime
    <3>9. QED
      BY <1>1, <3>1, <3>2, <3>5, <3>7, <3>8 DEF OneActionAtATime
  <2>2. ASSUME ~MustWait PROVE action_queue' \in Seq(Calls) /\ OneActionAtATime'
    <3>1. action_queue' = action_queue /\ Executing = {} /\ action_queue = <<>>
      BY <2>2 DEF Enqueue, MustWait, OneActionAtATime
    <3>2. Executing' = {c}
      BY <1>1, <1>2, <1>3, <1>5, <2>2, <3>1 DEF Executing, InProgress
    <3>3. {d \in Calls : work'[d].at = "queued"} = {d \in Calls : work[d].at = "queued"}
      BY <1>1, <1>3, <1>5, <2>2
    <3>4. QED
      BY <1>1, <3>1, <3>2, <3>3 DEF OneActionAtATime
  <2>3. QED
    BY <2>1, <2>2
<1>10. TypeOK' /\ blocks' # <<>>
  BY <1>1, <1>5, <1>9 DEF TypeOK, Works, trie
<1>11. QED
  BY <1>6, <1>8, <1>9, <1>10

\* The steps that make a block.
LEMMA MiningKeeps ==
  ASSUME QueueInv, NEW c \in Calls, spoiled' \in BOOLEAN
  PROVE  /\ evm_mine(c) => QueueInv'
         /\ miner_start(c) => QueueInv'
         /\ StartBlock(c) => QueueInv'
         /\ BlockRuns(c) => QueueInv'
         /\ BlockFails(c) => QueueInv'
         /\ Commit(c) => QueueInv'
         /\ MineAgain(c) => QueueInv'
         /\ EndMining(c) => QueueInv'
<1>1. /\ TypeOK /\ StagesOfMethods /\ RootsHeld
      /\ work \in [Calls -> Works] /\ work[c] \in Works
      /\ pending \in Seq(Tx) /\ stateRoot \in Root /\ failed \cup {c} \subseteq Calls
  BY DEF QueueInv, TypeOK, Works
<1>2. ASSUME evm_mine(c) PROVE QueueInv'
  <2>1. /\ MayMove(c) /\ Method(c) \in MiningMethods /\ ~HoldsCheckpoint(work[c])
        /\ TakeBlock(c, pending) /\ is_mining' \in BOOLEAN
    BY <1>1, <1>2
    DEF evm_mine, MayStart, MayMove, Unqueued, MiningMethods, HoldsCheckpoint, TypeOK
  <2>2. QED
    BY <1>1, <1>2, <2>1, TakeBlockKeeps DEF evm_mine, trie
<1>3. ASSUME miner_start(c) PROVE QueueInv'
  <2>1. /\ MayMove(c) /\ Method(c) \in MiningMethods /\ ~HoldsCheckpoint(work[c])
        /\ is_mining' \in BOOLEAN
    BY <1>3 DEF miner_start, MayStart, MayMove, Unqueued, MiningMethods, HoldsCheckpoint
  <2>2. CASE pending = <<>>
    <3>1. /\ NextAction(c) /\ UNCHANGED <<kind, pending, blocks, trie, failed, seen>>
      BY <1>3, <2>2 DEF miner_start, Succeed
    <3>2. QED
      BY <1>1, <2>1, <3>1, EndKeeps DEF TypeOK, trie
  <2>3. CASE pending # <<>>
    <3>1. TakeBlock(c, pending) /\ UNCHANGED <<kind, queue, blocks, trie, failed, seen>>
      BY <1>3, <2>3 DEF miner_start
    <3>2. QED
      BY <1>1, <2>1, <3>1, TakeBlockKeeps DEF trie
  <2>4. QED
    BY <2>2, <2>3
<1>5. ASSUME StartBlock(c) PROVE QueueInv'
  <2> DEFINE w == [work[c] EXCEPT !.at = "vm"]
  <2>1. /\ w \in Works /\ w.at = "vm" /\ work' = [work EXCEPT ![c] = w]
    BY <1>1, <1>5 DEF StartBlock, Works, Stages
  <2>2. /\ work[c].at = "parent" /\ Method(c) \in MiningMethods /\ stateRoot \in Root
        /\ checkpoints' = Append(checkpoints, stateRoot)
        /\ UNCHANGED <<kind, queue, is_mining, pending, blocks, stateRoot, failed, seen>>
    BY <1>1, <1>5 DEF StartBlock, StagesOfMethods, TypeOK
  <2> HIDE DEF w
  <2>3. /\ MayMove(c) /\ FitsMethod(c, w) /\ ChainGrows
        /\ HoldsCheckpoint(w) /\ ~HoldsCheckpoint(work[c])
    BY <2>1, <2>2 DEF MayMove, Active, FitsMethod, ChainGrows, HoldsCheckpoint
  <2>4. QED
    BY <2>1, <2>2, <2>3, GoOnKeeps
<1>6. ASSUME BlockRuns(c) PROVE QueueInv'
  <2>1. /\ work[c].at = "vm" /\ Method(c) \in MiningMethods
        /\ stateRoot' = RunBlock(stateRoot, work[c].txs)
        /\ UNCHANGED <<kind, queue, is_mining, pending, blocks, checkpoints, failed, seen>>
    BY <1>1, <1>6 DEF BlockRuns, StagesOfMethods
  <2>2. stateRoot' \in Root
    BY <1>1, <2>1, RunBlockType DEF TypeOK, Works
  <2> DEFINE w == [work[c] EXCEPT !.at = "commit"]
  <2>3. w \in Works /\ w.at = "commit" /\ work' = [work EXCEPT ![c] = w]
    BY <1>1, <1>6 DEF BlockRuns, Works, Stages
  <2> HIDE DEF w
  <2>4. /\ MayMove(c) /\ FitsMethod(c, w) /\ ChainGrows
        /\ HoldsCheckpoint(w) /\ HoldsCheckpoint(work[c])
    BY <2>1, <2>3 DEF MayMove, Active, FitsMethod, ChainGrows, HoldsCheckpoint
  <2>5. QED
    BY <2>1, <2>2, <2>3, <2>4, GoOnKeeps
<1>7. ASSUME BlockFails(c) PROVE QueueInv'
  <2>1. HoldsCheckpoint(work[c])
    BY <1>7 DEF BlockFails, HoldsCheckpoint
  <2>2. stateRoot' \in Root
    BY <1>7, <2>1, PopKeepsCount DEF BlockFails
  <2>3. /\ PopCheckpoint /\ NextAction(c) /\ failed' \subseteq Calls
        /\ UNCHANGED <<kind, is_mining, pending, blocks, seen>>
    BY <1>1, <1>7 DEF BlockFails, Fail
  <2>4. QED
    BY <1>1, <2>1, <2>2, <2>3, PopKeeps DEF TypeOK
<1>8. ASSUME Commit(c) PROVE QueueInv'
  <2>1. /\ work[c].at = "commit" /\ Method(c) \in MiningMethods
        /\ PopCheckpoint
        /\ work' = [work EXCEPT ![c] = At("mined")]
        /\ blocks' = Append(blocks, [txs |-> work[c].txs, root |-> stateRoot])
        /\ UNCHANGED <<kind, queue, is_mining, pending, stateRoot, failed, seen>>
    BY <1>1, <1>8 DEF Commit, StagesOfMethods
  <2>2. ChainGrows
    <3>1. [txs |-> work[c].txs, root |-> stateRoot] \in Blocks
      BY <1>1 DEF Works, Blocks
    <3>2. QED
      BY <2>1, <3>1 DEF ChainGrows
  <2>3. At("mined") \in Works /\ At("mined").at = "mined"
    BY DEF At, Work, Works, Stages
  <2>4. /\ MayMove(c) /\ FitsMethod(c, At("mined"))
        /\ ~HoldsCheckpoint(At("mined")) /\ HoldsCheckpoint(work[c])
    BY <2>1, <2>3 DEF MayMove, Active, FitsMethod, HoldsCheckpoint
  <2>5. QED
    BY <1>1, <2>1, <2>2, <2>3, <2>4, GoOnKeeps DEF TypeOK
<1>9. ASSUME MineAgain(c) PROVE QueueInv'
  <2>1. /\ MayMove(c) /\ Method(c) \in MiningMethods /\ ~HoldsCheckpoint(work[c])
        /\ TakeBlock(c, pending) /\ is_mining' \in BOOLEAN
    BY <1>1, <1>9
    DEF MineAgain, MayMove, Active, StagesOfMethods, HoldsCheckpoint, TypeOK
  <2>2. QED
    BY <1>1, <1>9, <2>1, TakeBlockKeeps DEF MineAgain, trie
<1>10. ASSUME EndMining(c) PROVE QueueInv'
  <2>1. /\ MayMove(c) /\ ~HoldsCheckpoint(work[c]) /\ NextAction(c)
        /\ UNCHANGED <<kind, is_mining, pending, blocks, trie, seen, failed>>
    BY <1>10 DEF EndMining, MayMove, Active, HoldsCheckpoint, Succeed
  <2>2. QED
    BY <1>1, <2>1, EndKeeps DEF TypeOK, trie
<1>11. QED
  BY <1>2, <1>3, <1>5, <1>6, <1>7, <1>8, <1>9, <1>10

\* The steps that make a transaction and check it.
LEMMA CheckKeeps ==
  ASSUME QueueInv, NEW c \in Calls, spoiled' \in BOOLEAN
  PROVE  /\ Process(c) => QueueInv'
         /\ WrongNonce(c) => QueueInv'
         /\ CallsContract(c) => QueueInv'
         /\ ReadCode(c) => QueueInv'
         /\ EndCode(c) => QueueInv'
<1>1. /\ TypeOK /\ StagesOfMethods /\ RootsHeld
      /\ work \in [Calls -> Works] /\ work[c] \in Works
      /\ pending \in Seq(Tx) /\ stateRoot \in Root
      /\ failed \cup {c} \subseteq Calls /\ failed \subseteq Calls
  BY DEF QueueInv, TypeOK, Works
<1>2. ASSUME work[c].at \in {"nonce", "latest", "code"}
      PROVE  /\ MayMove(c) /\ ~HoldsCheckpoint(work[c])
             /\ Method(c) \in Checked
  BY <1>1, <1>2 DEF MayMove, Active, HoldsCheckpoint, StagesOfMethods
<1>3. \A nonce \in QueuedNonce(pending, stateRoot, kind[c].from) : TxOf(c, nonce) \in Tx
  BY <1>1, KindType, QueuedNonceType DEF TxOf, Tx
\* What Process and EndCode have in common.
<1>4. ASSUME NEW tx \in Tx, Proceed(c, tx), work[c].at \in {"nonce", "code"},
             stateRoot' \in Root,
             UNCHANGED <<kind, is_mining, blocks, checkpoints, seen>>
      PROVE  QueueInv'
  <2>1. Append(pending, tx) \in Seq(Tx)
    BY <1>1
  <2>2. CASE Method(c) = "eth_call"
    <3>1. At("block") \in Works /\ At("block").at = "block"
      BY DEF At, Work, Works, Stages
    <3>2. /\ FitsMethod(c, At("block")) /\ ChainGrows /\ ~HoldsCheckpoint(At("block"))
      BY <1>4, <2>2, <3>1 DEF FitsMethod, SideMethods, ChainGrows, HoldsCheckpoint
    <3>3. /\ work' = [work EXCEPT ![c] = At("block")]
          /\ UNCHANGED <<queue, pending, failed>>
      BY <1>4, <2>2 DEF Proceed
    <3>4. QED
      BY <1>1, <1>2, <1>4, <3>1, <3>2, <3>3, GoOnKeeps
  <2>3. CASE Method(c) # "eth_call" /\ is_mining
    <3>1. Method(c) \in MiningMethods
      BY <1>2, <1>4, <2>3 DEF Checked, MiningMethods
    <3>2. TakeBlock(c, Append(pending, tx)) /\ UNCHANGED <<queue, failed>>
      BY <1>4, <2>3 DEF Proceed
    <3>3. is_mining' \in BOOLEAN
      BY <1>1, <1>4 DEF TypeOK
    <3>4. QED
      BY <1>2, <1>4, <2>1, <3>1, <3>2, <3>3, TakeBlockKeeps
  <2>4. CASE Method(c) # "eth_call" /\ ~is_mining
    <3>1. pending' \in Seq(Tx) /\ NextAction(c) /\ failed' = failed
      BY <1>4, <2>1, <2>4 DEF Proceed, Succeed
    <3>2. QED
      BY <1>1, <1>2, <1>4, <3>1, EndKeeps DEF TypeOK
  <2>5. QED
    BY <2>2, <2>3, <2>4
<1>5. ASSUME Process(c) PROVE QueueInv'
  <2>1. PICK nonce \in QueuedNonce(pending, stateRoot, kind[c].from) :
          Proceed(c, TxOf(c, nonce))
    BY <1>5 DEF Process
  <2>2. /\ work[c].at = "nonce" /\ stateRoot' \in Root
        /\ UNCHANGED <<kind, is_mining, blocks, checkpoints, seen>>
    BY <1>1, <1>5 DEF Process, trie
  <2>3. QED
    BY <1>3, <1>4, <2>1, <2>2
<1>6. ASSUME WrongNonce(c) PROVE QueueInv'
  <2>1. /\ work[c].at = "nonce" /\ NextAction(c) /\ failed' \subseteq Calls
        /\ UNCHANGED <<kind, is_mining, pending, blocks, trie, seen>>
    BY <1>1, <1>6 DEF WrongNonce, Fail
  <2>2. QED
    BY <1>1, <1>2, <2>1, EndKeeps DEF TypeOK, trie
<1>7. ASSUME CallsContract(c) PROVE QueueInv'
  <2>1. PICK nonce \in QueuedNonce(pending, stateRoot, kind[c].from) :
          work' = [work EXCEPT ![c] = Work("latest", <<TxOf(c, nonce)>>, <<>>)]
    BY <1>7 DEF CallsContract
  <2> DEFINE w == Work("latest", <<TxOf(c, nonce)>>, <<>>)
  <2>2. w \in Works /\ w.at = "latest" /\ w.txs # <<>>
    <3>1. <<TxOf(c, nonce)>> \in Seq(Tx) /\ <<TxOf(c, nonce)>> # <<>>
      BY <1>3
    <3>2. "latest" \in Stages /\ <<>> \in Seq(Root)
      BY DEF Stages
    <3>3. w = [at |-> "latest", txs |-> <<TxOf(c, nonce)>>, held |-> <<>>]
      BY DEF Work
    <3> HIDE DEF w
    <3>4. QED
      BY <3>1, <3>2, <3>3 DEF Works
  <2>3. work' = [work EXCEPT ![c] = w]
    BY <2>1
  <2> HIDE DEF w
  <2>4. /\ work[c].at = "nonce" /\ stateRoot' \in Root
        /\ UNCHANGED <<kind, queue, is_mining, pending, blocks, checkpoints, failed, seen>>
    BY <1>1, <1>7 DEF CallsContract, trie
  <2>5. /\ FitsMethod(c, w) /\ ChainGrows /\ ~HoldsCheckpoint(w)
    BY <1>2, <2>2, <2>4 DEF FitsMethod, ChainGrows, HoldsCheckpoint
  <2>6. QED
    BY <1>2, <2>2, <2>3, <2>4, <2>5, GoOnKeeps
<1>8. ASSUME ReadCode(c) PROVE QueueInv'
  <2> DEFINE w == Work("code", work[c].txs, <<stateRoot>>)
  <2>1. /\ work[c].at = "latest" /\ work[c].txs # <<>>
        /\ stateRoot' = blocks[Len(blocks)].root
        /\ UNCHANGED <<kind, queue, is_mining, pending, blocks, checkpoints, failed, seen>>
    BY <1>1, <1>8 DEF ReadCode, RootsHeld
  <2>2. w \in Works /\ w.at = "code" /\ w.txs # <<>> /\ w.held # <<>>
    <3>1. <<stateRoot>> \in Seq(Root) /\ <<stateRoot>> # <<>>
      BY <1>1
    <3>2. w = [at |-> "code", txs |-> work[c].txs, held |-> <<stateRoot>>]
      BY DEF Work
    <3> HIDE DEF w
    <3>3. QED
      BY <1>1, <2>1, <3>1, <3>2 DEF Works, Stages
  <2>3. work' = [work EXCEPT ![c] = w]
    BY <1>8 DEF ReadCode
  <2> HIDE DEF w
  <2>4. stateRoot' \in Root
    <3>1. blocks \in Seq(Blocks) /\ blocks # <<>>
      BY DEF QueueInv, TypeOK, Blocks
    <3>2. blocks[Len(blocks)] \in Blocks
      BY <3>1
    <3>3. QED
      BY <2>1, <3>2 DEF Blocks
  <2>5. /\ FitsMethod(c, w) /\ ChainGrows /\ ~HoldsCheckpoint(w)
    BY <1>2, <2>1, <2>2 DEF FitsMethod, ChainGrows, HoldsCheckpoint
  <2>6. QED
    BY <1>2, <2>1, <2>2, <2>3, <2>4, <2>5, GoOnKeeps
<1>9. ASSUME EndCode(c) PROVE QueueInv'
  <2>1. /\ work[c].at = "code" /\ stateRoot' = work[c].held[1]
        /\ UNCHANGED <<kind, is_mining, blocks, checkpoints, seen>>
    BY <1>9 DEF EndCode
  <2>2. stateRoot' \in Root /\ work[c].txs[1] \in Tx
    <3>1. work[c].held \in Seq(Root) /\ work[c].txs \in Seq(Tx)
      BY <1>1 DEF Works
    <3>2. work[c].held # <<>> /\ work[c].txs # <<>>
      BY <1>1, <2>1 DEF RootsHeld
    <3>3. work[c].held[1] \in Root
      BY <3>1, <3>2
    <3>4. work[c].txs[1] \in Tx
      BY <3>1, <3>2
    <3>5. QED
      BY <2>1, <3>3, <3>4
  <2>3. CASE Fail(c) /\ UNCHANGED pending
    <3>1. NextAction(c) /\ failed' \subseteq Calls
      BY <1>1, <2>3 DEF Fail
    <3>2. QED
      BY <1>1, <1>2, <2>1, <2>2, <2>3, <3>1, EndKeeps DEF TypeOK
  <2>4. CASE Proceed(c, work[c].txs[1])
    BY <1>4, <2>1, <2>2, <2>4
  <2>5. QED
    BY <1>9, <2>3, <2>4 DEF EndCode
<1>10. QED
  BY <1>5, <1>6, <1>7, <1>8, <1>9

\* The steps that read the state of a block, or execute on it.
LEMMA ReadingKeeps ==
  ASSUME QueueInv, NEW c \in Calls, spoiled' \in BOOLEAN
  PROVE  /\ eth_getBalance(c) => QueueInv'
         /\ NoSuchBlock(c) => QueueInv'
         /\ StartRead(c) => QueueInv'
         /\ EndRead(c) => QueueInv'
         /\ StartCall(c) => QueueInv'
         /\ EndCall(c) => QueueInv'
         /\ StartTrace(c) => QueueInv'
         /\ EndTrace(c) => QueueInv'
<1>1. /\ TypeOK /\ StagesOfMethods /\ RootsHeld
      /\ work \in [Calls -> Works] /\ work[c] \in Works /\ stateRoot \in Root
      /\ failed \cup {c} \subseteq Calls /\ failed \subseteq Calls
  BY DEF QueueInv, TypeOK, Works
<1>2. ASSUME eth_getBalance(c) PROVE QueueInv'
  <2>1. At("block") \in Works /\ At("block").at = "block"
    BY DEF At, Work, Works, Stages
  <2>2. /\ MayMove(c) /\ FitsMethod(c, At("block")) /\ ChainGrows
        /\ ~HoldsCheckpoint(At("block")) /\ ~HoldsCheckpoint(work[c])
    BY <1>2, <2>1 DEF eth_getBalance, MayStart, MayMove, Unqueued, FitsMethod,
                      ReadingMethods, ChainGrows, HoldsCheckpoint
  <2>3. /\ work' = [work EXCEPT ![c] = At("block")]
        /\ UNCHANGED <<kind, queue, is_mining, pending, blocks, stateRoot, checkpoints,
                       failed, seen>>
    BY <1>2 DEF eth_getBalance, trie
  <2>4. QED
    BY <1>1, <2>1, <2>2, <2>3, GoOnKeeps
<1>3. ASSUME NoSuchBlock(c) PROVE QueueInv'
  <2>1. /\ MayMove(c) /\ ~HoldsCheckpoint(work[c]) /\ NextAction(c)
        /\ failed' \subseteq Calls
        /\ UNCHANGED <<kind, is_mining, pending, blocks, trie, seen>>
    BY <1>1, <1>3 DEF NoSuchBlock, MayMove, Active, HoldsCheckpoint, Fail
  <2>2. QED
    BY <1>1, <2>1, EndKeeps DEF TypeOK, trie
\* What StartCall and StartTrace have in common.
<1>4. ASSUME NEW newRoot \in Root, NEW held \in Seq(Root),
             work[c].at = "block", BlockExists(c), Method(c) \in SideMethods,
             Method(c) = "debug_traceTransaction" => held # <<>>,
             RunOn(c, newRoot, held)
      PROVE  QueueInv'
  <2> DEFINE w == Work("aside", <<>>, held)
  <2>1. w \in Works /\ w.at = "aside" /\ w.held = held
    <3>1. "aside" \in Stages /\ <<>> \in Seq(Tx)
      BY DEF Stages
    <3>2. QED
      BY <3>1, WorkType
  <2>2. /\ work' = [work EXCEPT ![c] = w]
        /\ stateRoot' = newRoot /\ checkpoints' = Append(checkpoints, newRoot)
        /\ UNCHANGED <<kind, queue, is_mining, pending, blocks, failed, seen>>
    BY <1>4 DEF RunOn
  <2> HIDE DEF w
  <2>3. /\ MayMove(c) /\ FitsMethod(c, w) /\ ChainGrows
        /\ HoldsCheckpoint(w) /\ ~HoldsCheckpoint(work[c])
    BY <1>4, <2>1, <2>2 DEF MayMove, Active, FitsMethod, ChainGrows, HoldsCheckpoint
  <2>4. QED
    BY <1>1, <1>4, <2>1, <2>2, <2>3, GoOnKeeps
<1>5. <<stateRoot>> \in Seq(Root) /\ <<stateRoot>> # <<>>
  BY <1>1
<1>6. ASSUME StartRead(c) PROVE QueueInv'
  <2>1. /\ work[c].at = "block" /\ BlockExists(c) /\ Method(c) \in ReadingMethods
        /\ stateRoot' = RootAsked(c)
        /\ work' = [work EXCEPT ![c] = Work("read", <<>>, <<stateRoot>>)]
        /\ UNCHANGED <<kind, queue, is_mining, pending, blocks, checkpoints, failed, seen>>
    BY <1>6 DEF StartRead, ReadingMethods
  <2> DEFINE w == Work("read", <<>>, <<stateRoot>>)
  <2>2. w \in Works /\ w.at = "read" /\ w.held = <<stateRoot>>
    <3>1. "read" \in Stages /\ <<>> \in Seq(Tx)
      BY DEF Stages
    <3>2. \A held \in Seq(Root) :
            /\ Work("read", <<>>, held) \in Works
            /\ Work("read", <<>>, held).at = "read"
            /\ Work("read", <<>>, held).held = held
      BY <3>1, WorkType
    <3>3. QED
      BY <1>5, <3>2
  <2>3. work' = [work EXCEPT ![c] = w]
    BY <2>1
  <2> HIDE DEF w
  <2>4. /\ MayMove(c) /\ FitsMethod(c, w) /\ ChainGrows
        /\ ~HoldsCheckpoint(w) /\ ~HoldsCheckpoint(work[c])
    BY <1>5, <2>1, <2>2 DEF MayMove, Active, FitsMethod, ChainGrows, HoldsCheckpoint
  <2>5. stateRoot' \in Root
    BY <2>1, RootAskedType
  <2>6. QED
    BY <1>1, <2>1, <2>2, <2>3, <2>4, <2>5, GoOnKeeps
<1>7. ASSUME EndRead(c) PROVE QueueInv'
  <2>1. /\ MayMove(c) /\ ~HoldsCheckpoint(work[c]) /\ NextAction(c)
        /\ stateRoot' = work[c].held[1] /\ seen' = [seen EXCEPT ![c] = <<stateRoot>>]
        /\ UNCHANGED <<kind, is_mining, pending, blocks, checkpoints, failed>>
    BY <1>7 DEF EndRead, MayMove, Active, HoldsCheckpoint, Succeed
  <2>2. stateRoot' \in Root
    BY <1>1, <1>7, <2>1 DEF EndRead, RootsHeld, Works
  <2>3. seen' \in [Calls -> Seq(Root)]
    BY <1>1, <1>5, <2>1 DEF TypeOK
  <2>4. QED
    BY <1>1, <2>1, <2>2, <2>3, EndKeeps DEF TypeOK
<1>8. ASSUME StartCall(c) PROVE QueueInv'
  <2>1. work[c].at = "block" /\ BlockExists(c) /\ Method(c) = "eth_call"
    BY <1>8 DEF StartCall
  <2>2. CASE RunOn(c, stateRoot, <<>>)
    <3>1. <<>> \in Seq(Root)
      OBVIOUS
    <3>2. QED
      BY <1>1, <1>4, <2>1, <2>2, <3>1 DEF SideMethods
  <2>3. CASE RunOn(c, RootAsked(c), <<stateRoot>>)
    BY <1>4, <1>5, <2>1, <2>3, RootAskedType DEF SideMethods
  <2>4. QED
    BY <1>8, <2>2, <2>3 DEF StartCall
<1>9. ASSUME EndCall(c) PROVE QueueInv'
  <2>1. /\ HoldsCheckpoint(work[c]) /\ PopCheckpoint /\ NextAction(c)
        /\ failed' \subseteq Calls
        /\ stateRoot' = IF work[c].held = <<>> \/ Refused(c) THEN Popped
                        ELSE work[c].held[1]
        /\ seen' = [seen EXCEPT ![c] = <<stateRoot>>]
        /\ UNCHANGED <<kind, is_mining, pending, blocks>>
    BY <1>1, <1>9 DEF EndCall, HoldsCheckpoint, Succeed, Fail
  <2>2. stateRoot' \in Root
    <3>1. work[c].held # <<>> => work[c].held[1] \in Root
      BY <1>1 DEF Works
    <3>2. QED
      BY <2>1, <3>1, PopKeepsCount
  <2>3. seen' \in [Calls -> Seq(Root)]
    BY <1>1, <1>5, <2>1 DEF TypeOK
  <2>4. QED
    BY <2>1, <2>2, <2>3, PopKeeps
<1>10. ASSUME StartTrace(c) PROVE QueueInv'
  BY <1>4, <1>5, <1>10, RootAskedType DEF StartTrace, SideMethods
<1>11. ASSUME EndTrace(c) PROVE QueueInv'
  <2>1. /\ HoldsCheckpoint(work[c]) /\ PopCheckpoint /\ NextAction(c)
        /\ stateRoot' = work[c].held[1] /\ work[c].held # <<>>
        /\ seen' = [seen EXCEPT ![c] = <<stateRoot>>]
        /\ UNCHANGED <<kind, is_mining, pending, blocks, failed>>
    BY <1>1, <1>11 DEF EndTrace, HoldsCheckpoint, Succeed, RootsHeld
  <2>2. stateRoot' \in Root
    BY <1>1, <2>1 DEF Works
  <2>3. seen' \in [Calls -> Seq(Root)]
    BY <1>1, <1>5, <2>1 DEF TypeOK
  <2>4. QED
    BY <1>1, <2>1, <2>2, <2>3, PopKeeps
<1>12. QED
  BY <1>2, <1>3, <1>6, <1>7, <1>8, <1>9, <1>10, <1>11

\* Whatever step is taken, by whichever call.
LEMMA StepKeepsQueueInv == QueueInv /\ [Next]_vars => QueueInv'
<1> SUFFICES ASSUME QueueInv, [Next]_vars PROVE QueueInv'
  OBVIOUS
<1>1. CASE Next
  <2>1. spoiled' \in BOOLEAN
    BY <1>1 DEF Next, QueueInv, TypeOK
  <2>2. PICK c \in Calls : Start(c) \/ Step(c)
    BY <1>1 DEF Next
  <2>3. CASE Start(c)
    BY <2>1, <2>3, EnqueueKeeps, MiningKeeps, ReadingKeeps DEF Start
  <2>4. CASE Step(c)
    BY <2>1, <2>4, CheckKeeps, MiningKeeps, ReadingKeeps DEF Step
  <2>5. QED
    BY <2>2, <2>3, <2>4
<1>2. CASE UNCHANGED vars
  BY <1>2 DEF vars, queue, trie, QueueInv, TypeOK, StagesOfMethods, RootsHeld,
              CheckpointsCounted, UnderCheckpoint, OneActionAtATime, Executing,
              InProgress, Method, BlocksChosen, BlockExists, BlockAsked
<1>3. QED
  BY <1>1, <1>2

LEMMA QueueInvHolds == Spec => []QueueInv
BY InitQueueInv, StepKeepsQueueInv, PTL DEF Spec
-----------------------------------------------------------------------------
(* The trie, as long as nothing has spoiled it.                             *)

Quiet == {"nonce", "latest", "parent", "mined", "block"}

\* A call that goes on, and is not crossed by another, is the only one active.
LEMMA GoesOnAlone ==
  ASSUME QueueInv, ~Crossing, ~Crossing', UNCHANGED kind,
         NEW c \in Calls, MayMove(c),
         Active(c) \/ work'[c].at \notin {"unsent", "done"},
         \A d \in Calls \ {c} : work'[d] = work[d] \/ Active(c)
  PROVE  \A d \in Calls \ {c} : ~Active(d)
<1> SUFFICES ASSUME NEW d \in Calls \ {c}, Active(d) PROVE FALSE
  OBVIOUS
<1>1. TypeOK /\ OneActionAtATime
  BY DEF QueueInv
<1>2. Method(c) \in Queued \cup Unqueued /\ Method(d) \in Queued \cup Unqueued
  BY <1>1, KindType
<1>3. InProgress(d)
  BY DEF Active, InProgress
<1>4. CASE Active(c)
  <2>1. InProgress(c)
    BY <1>4 DEF Active, InProgress
  <2>2. Method(c) \in Queued /\ Method(d) \in Queued
    BY <1>2, <1>3, <2>1 DEF Crossing
  <2>3. c \in Executing /\ d \in Executing
    BY <1>3, <1>4, <2>1, <2>2 DEF Executing, Active
  <2>4. QED
    BY <1>1, <2>3 DEF OneActionAtATime
<1>5. CASE ~Active(c)
  <2>1. Method(c) \in Unqueued /\ InProgress(c)' /\ InProgress(d)'
    BY <1>3, <1>5 DEF MayMove, InProgress
  <2>2. Method(c)' \in Unqueued
    BY <2>1 DEF Method
  <2>3. QED
    BY <2>1, <2>2 DEF Crossing
<1>6. QED
  BY <1>4, <1>5

\* One call is active, and the trie is what it leaves.
LEMMA AloneKeepsTrie ==
  ASSUME ~Crossing', Replayed', ReadFromChain',
         NEW c \in Calls, Active(c)', TrieOf(c)', \A d \in Calls \ {c} : ~Active(d)'
  PROVE  TrieInv'
BY DEF TrieInv

\* The trie is settled, and no active call needs it otherwise.
LEMMA SettledKeepsTrie ==
  ASSUME ~Crossing', Replayed', ReadFromChain', Settled',
         \A d \in Calls : Active(d)' => work'[d].at \in Quiet
  PROVE  TrieInv'
BY DEF TrieInv, TrieOf, Quiet

\* No active call did anything.
LEMMA UntouchedKeepsTrie ==
  ASSUME TrieInv, ~spoiled, ~Crossing', UNCHANGED <<kind, blocks, trie, seen>>,
         \A d \in Calls : /\ Active(d)' <=> Active(d)
                          /\ Active(d) => work'[d] = work[d]
  PROVE  TrieInv'
<1>1. Replayed' /\ ReadFromChain' /\ (Settled => Settled')
  BY DEF TrieInv, Replayed, ReadFromChain, Settled, LastRoot, SeenIn, Method, trie
<1>2. ASSUME NEW d \in Calls, Active(d), TrieOf(d) PROVE TrieOf(d)'
  <2>1. work'[d] = work[d]
    BY <1>2
  <2>2. RootAsked(d)' = RootAsked(d)
    BY DEF RootAsked, BlockAsked, Method
  <2>3. QED
    BY <1>2, <2>1, <2>2 DEF TrieOf, Settled, LastRoot, trie
<1>3. QED
  BY <1>1, <1>2 DEF TrieInv

\* A call ends with the trie settled; what the queue then starts finds it so.
LEMMA EndKeepsTrie ==
  ASSUME ~Crossing', Replayed', ReadFromChain', Settled',
         NEW c \in Calls, EndsAndStarts(c), \A d \in Calls \ {c} : ~Active(d)
  PROVE  TrieInv'
<1>1. work'[c].at = "done"
  BY DEF EndsAndStarts, At, Work
<1>2. ASSUME NEW d \in Calls \ {c}, Active(d)' PROVE work'[d].at \in Quiet
  <2>1. work'[d] = FirstStep(d)
    BY <1>2 DEF EndsAndStarts, Active
  <2>2. QED
    BY <2>1, FirstStepType DEF Quiet
<1>3. \A d \in Calls : Active(d)' => work'[d].at \in Quiet
  BY <1>1, <1>2 DEF Active
<1>4. QED
  BY <1>3, SettledKeepsTrie

\* The chain and what was read of it stay.
LEMMA SameHistory ==
  ASSUME TrieInv, ~spoiled, UNCHANGED <<kind, blocks, seen>>
  PROVE  Replayed' /\ ReadFromChain'
BY DEF TrieInv, Replayed, ReadFromChain, SeenIn, Method

\* A call takes its next block, alone and from a settled trie.
LEMMA TakeBlockKeepsTrie ==
  ASSUME QueueInv, TrieInv, ~spoiled, ~Crossing',
         NEW c \in Calls, MayMove(c), Active(c) => Settled,
         work'[c].at = "parent", \A d \in Calls \ {c} : work'[d] = work[d],
         UNCHANGED <<kind, blocks, trie, seen>>
  PROVE  TrieInv'
<1>1. \A d \in Calls \ {c} : ~Active(d)
  BY GoesOnAlone DEF TrieInv
<1>2. Settled
  BY <1>1 DEF TrieInv
<1>3. Settled'
  BY <1>2 DEF Settled, LastRoot, trie
<1>4. \A d \in Calls : Active(d)' => work'[d].at \in Quiet
  BY <1>1 DEF Active, Quiet
<1>5. QED
  BY <1>3, <1>4, SameHistory, SettledKeepsTrie

LEMMA MiningKeepsTrie ==
  ASSUME QueueInv, TrieInv, ~spoiled, spoiled' \in BOOLEAN, ~Crossing', NEW c \in Calls
  PROVE  /\ evm_mine(c) => TrieInv'
         /\ miner_start(c) => TrieInv'
         /\ StartBlock(c) => TrieInv'
         /\ BlockRuns(c) => TrieInv'
         /\ BlockFails(c) => TrieInv'
         /\ Commit(c) => TrieInv'
         /\ MineAgain(c) => TrieInv'
         /\ EndMining(c) => TrieInv'
<1>1. /\ TypeOK /\ StagesOfMethods /\ RootsHeld
      /\ work \in [Calls -> Works] /\ work[c] \in Works
      /\ pending \in Seq(Tx) /\ stateRoot \in Root
      /\ blocks \in Seq(Blocks) /\ blocks # <<>> /\ Len(blocks) >= 1
  BY DEF QueueInv, TypeOK, Works, Blocks
<1>2. Active(c) => TrieOf(c) /\ MayMove(c)
  BY DEF TrieInv, MayMove
<1>3. ASSUME evm_mine(c) PROVE TrieInv'
  <2>1. /\ MayMove(c) /\ ~Active(c) /\ Method(c) \in MiningMethods
        /\ ~HoldsCheckpoint(work[c]) /\ TakeBlock(c, pending) /\ is_mining' \in BOOLEAN
        /\ UNCHANGED <<kind, queue, blocks, trie, failed, seen>>
    BY <1>1, <1>3
    DEF evm_mine, MayStart, MayMove, Active, Unqueued, MiningMethods, HoldsCheckpoint, TypeOK
  <2>2. work'[c].at = "parent" /\ \A d \in Calls \ {c} : work'[d] = work[d]
    BY <1>1, <2>1, TakeBlockKeeps DEF trie
  <2>3. QED
    BY <2>1, <2>2, TakeBlockKeepsTrie
<1>4. ASSUME miner_start(c) PROVE TrieInv'
  <2>1. /\ MayMove(c) /\ ~Active(c) /\ Method(c) \in MiningMethods
        /\ work[c].at = "unsent" /\ Method(c) \notin Queued
        /\ ~HoldsCheckpoint(work[c]) /\ is_mining' \in BOOLEAN
        /\ UNCHANGED <<kind, blocks, trie, seen>>
    BY <1>4 DEF miner_start, MayStart, MayMove, Active, Unqueued, Queued, MiningMethods,
                HoldsCheckpoint
  <2>2. CASE pending = <<>>
    <3>1. work' = [work EXCEPT ![c] = At("done")]
      BY <1>4, <2>1, <2>2 DEF miner_start, Succeed, NextAction
    <3>2. \A d \in Calls : work'[d] = IF d = c THEN At("done") ELSE work[d]
      BY <1>1, <3>1
    <3>3. \A d \in Calls : /\ Active(d)' <=> Active(d)
                           /\ Active(d) => work'[d] = work[d]
      BY <2>1, <3>2 DEF Active, At, Work
    <3>4. QED
      BY <2>1, <3>3, UntouchedKeepsTrie
  <2>3. CASE pending # <<>>
    <3>1. TakeBlock(c, pending) /\ UNCHANGED <<kind, queue, blocks, trie, failed, seen>>
      BY <1>4, <2>3 DEF miner_start
    <3>2. work'[c].at = "parent" /\ \A d \in Calls \ {c} : work'[d] = work[d]
      BY <1>1, <2>1, <3>1, TakeBlockKeeps DEF trie
    <3>3. QED
      BY <2>1, <3>2, TakeBlockKeepsTrie
  <2>4. QED
    BY <2>2, <2>3
\* The steps in which a call goes on with its block.
<1>6. ASSUME Active(c), Active(c)', \A d \in Calls \ {c} : work'[d] = work[d],
             UNCHANGED kind, Replayed', ReadFromChain', TrieOf(c)'
      PROVE  TrieInv'
  <2>1. \A d \in Calls \ {c} : ~Active(d)
    BY <1>2, <1>6, GoesOnAlone DEF TrieInv
  <2>2. \A d \in Calls \ {c} : ~Active(d)'
    BY <1>6, <2>1 DEF Active
  <2>3. QED
    BY <1>6, <2>2, AloneKeepsTrie
<1>7. ASSUME StartBlock(c) PROVE TrieInv'
  <2> DEFINE w == [work[c] EXCEPT !.at = "vm"]
  <2>1. w.at = "vm" /\ work' = [work EXCEPT ![c] = w]
    BY <1>1, <1>7 DEF StartBlock, Works
  <2> HIDE DEF w
  <2>2. Active(c) /\ Settled /\ UNCHANGED <<kind, blocks, stateRoot, seen>>
        /\ checkpoints' = Append(checkpoints, stateRoot)
    BY <1>2, <1>7 DEF StartBlock, Active, TrieOf
  <2>3. work'[c] = w /\ Active(c)' /\ \A d \in Calls \ {c} : work'[d] = work[d]
    BY <1>1, <2>1 DEF Active
  <2>4. checkpoints' = <<stateRoot>>
    BY <2>2 DEF Settled
  <2>5. TrieOf(c)'
    BY <2>1, <2>2, <2>3, <2>4 DEF TrieOf, Settled, LastRoot
  <2>6. QED
    BY <1>6, <2>2, <2>3, <2>5, SameHistory
<1>8. ASSUME BlockRuns(c) PROVE TrieInv'
  <2> DEFINE w == [work[c] EXCEPT !.at = "commit"]
  <2>1. /\ w.at = "commit" /\ w.txs = work[c].txs
        /\ work' = [work EXCEPT ![c] = w]
    BY <1>1, <1>8 DEF BlockRuns, Works
  <2> HIDE DEF w
  <2>2. /\ Active(c) /\ stateRoot = LastRoot /\ checkpoints = <<LastRoot>>
        /\ stateRoot' = RunBlock(stateRoot, work[c].txs)
        /\ UNCHANGED <<kind, blocks, checkpoints, seen>>
    BY <1>2, <1>8 DEF BlockRuns, Active, TrieOf
  <2>3. work'[c] = w /\ Active(c)' /\ \A d \in Calls \ {c} : work'[d] = work[d]
    BY <1>1, <2>1 DEF Active
  <2>4. LastRoot' = LastRoot
    BY <2>2 DEF LastRoot
  <2>5. TrieOf(c)'
    BY <2>1, <2>2, <2>3, <2>4 DEF TrieOf
  <2>6. QED
    BY <1>6, <2>2, <2>3, <2>5, SameHistory
<1>9. ASSUME BlockFails(c) PROVE TrieInv'
  <2>1. /\ Active(c) /\ checkpoints = <<LastRoot>> /\ PopCheckpoint
        /\ stateRoot' = Popped /\ NextAction(c) /\ UNCHANGED <<kind, blocks, seen>>
    BY <1>2, <1>9 DEF BlockFails, Active, TrieOf, Fail
  <2>2. Settled'
    BY <2>1 DEF Popped, PopCheckpoint, Settled, LastRoot
  <2>3. EndsAndStarts(c) /\ \A d \in Calls \ {c} : ~Active(d)
    BY <1>2, <2>1, FinishKeeps, GoesOnAlone DEF TrieInv
  <2>4. QED
    BY <2>1, <2>2, <2>3, SameHistory, EndKeepsTrie
<1>10. ASSUME Commit(c) PROVE TrieInv'
  <2>1. /\ Active(c) /\ PopCheckpoint
        /\ stateRoot = RunBlock(LastRoot, work[c].txs)
        /\ checkpoints = <<LastRoot>>
        /\ blocks' = Append(blocks, [txs |-> work[c].txs, root |-> stateRoot])
        /\ work' = [work EXCEPT ![c] = At("mined")]
        /\ UNCHANGED <<kind, stateRoot, seen>>
    BY <1>2, <1>10 DEF Commit, Active, TrieOf
  <2>2. /\ At("mined").at = "mined" /\ work'[c] = At("mined")
        /\ Active(c)' /\ \A d \in Calls \ {c} : work'[d] = work[d]
    BY <1>1, <2>1 DEF At, Work, Active
  <2> DEFINE new == [txs |-> work[c].txs, root |-> stateRoot]
  <2>3. new \in Blocks /\ new.txs = work[c].txs /\ new.root = stateRoot
    BY <1>1 DEF Works, Blocks
  <2>a. blocks' = Append(blocks, new)
    BY <2>1
  <2> HIDE DEF new
  <2>4. /\ Len(blocks') = Len(blocks) + 1 /\ blocks'[Len(blocks) + 1] = new
        /\ \A i \in 1..Len(blocks) : blocks'[i] = blocks[i]
        /\ DOMAIN blocks = 1..Len(blocks) /\ DOMAIN blocks' = 1..(Len(blocks) + 1)
        /\ Len(blocks) \in Nat
    BY <1>1, <2>3, <2>a
  <2>5. Settled'
    <3>1. checkpoints' = <<>>
      BY <2>1 DEF PopCheckpoint
    <3>2. LastRoot' = stateRoot
      BY <2>3, <2>4 DEF LastRoot
    <3>3. QED
      BY <2>1, <3>1, <3>2 DEF Settled
  <2>6. Replayed'
    <3> SUFFICES ASSUME NEW n \in 2..Len(blocks')
                 PROVE  blocks'[n].root = RunBlock(blocks'[n - 1].root, blocks'[n].txs)
      BY DEF Replayed
    <3>1. CASE n \in 2..Len(blocks)
      BY <2>4, <3>1 DEF TrieInv, Replayed
    <3>2. CASE n = Len(blocks) + 1
      <4>1. blocks'[n - 1].root = LastRoot /\ blocks'[n] = new
        BY <1>1, <2>4, <3>2 DEF LastRoot
      <4>2. QED
        BY <2>1, <2>3, <4>1
    <3>3. QED
      BY <2>4, <3>1, <3>2
  <2>7. ReadFromChain'
    <3>1. \A d \in Calls : SeenIn(d)' = SeenIn(d)
      BY <2>1 DEF SeenIn, Method
    <3>2. \A i \in DOMAIN blocks : i \in DOMAIN blocks' /\ blocks'[i] = blocks[i]
      BY <2>4
    <3>3. QED
      BY <2>1, <3>1, <3>2 DEF TrieInv, ReadFromChain
  <2>8. TrieOf(c)'
    BY <2>2, <2>5 DEF TrieOf
  <2>9. QED
    BY <1>6, <2>1, <2>2, <2>6, <2>7, <2>8
<1>11. ASSUME MineAgain(c) PROVE TrieInv'
  <2>1. /\ Active(c) /\ MayMove(c) /\ Settled /\ Method(c) \in MiningMethods
        /\ ~HoldsCheckpoint(work[c]) /\ TakeBlock(c, pending) /\ is_mining' \in BOOLEAN
        /\ UNCHANGED <<kind, queue, blocks, trie, failed, seen>>
    BY <1>1, <1>2, <1>11
    DEF MineAgain, Active, TrieOf, StagesOfMethods, HoldsCheckpoint, TypeOK
  <2>2. work'[c].at = "parent" /\ \A d \in Calls \ {c} : work'[d] = work[d]
    BY <1>1, <2>1, TakeBlockKeeps DEF trie
  <2>3. QED
    BY <2>1, <2>2, TakeBlockKeepsTrie
<1>12. ASSUME EndMining(c) PROVE TrieInv'
  <2>1. /\ Active(c) /\ Settled /\ NextAction(c) /\ UNCHANGED <<kind, blocks, trie, seen>>
    BY <1>2, <1>12 DEF EndMining, Active, TrieOf, Succeed
  <2>2. Settled'
    BY <2>1 DEF Settled, LastRoot, trie
  <2>3. EndsAndStarts(c) /\ \A d \in Calls \ {c} : ~Active(d)
    BY <1>2, <2>1, FinishKeeps, GoesOnAlone DEF TrieInv
  <2>4. QED
    BY <2>1, <2>2, <2>3, SameHistory, EndKeepsTrie
<1>13. QED
  BY <1>3, <1>4, <1>7, <1>8, <1>9, <1>10, <1>11, <1>12

LEMMA CheckKeepsTrie ==
  ASSUME QueueInv, TrieInv, ~spoiled, spoiled' \in BOOLEAN, ~Crossing', NEW c \in Calls
  PROVE  /\ Process(c) => TrieInv'
         /\ WrongNonce(c) => TrieInv'
         /\ CallsContract(c) => TrieInv'
         /\ ReadCode(c) => TrieInv'
         /\ EndCode(c) => TrieInv'
<1>1. work \in [Calls -> Works] /\ work[c] \in Works /\ TypeOK /\ RootsHeld
  BY DEF QueueInv, TypeOK, Works
<1>2. Active(c) => TrieOf(c) /\ MayMove(c)
  BY DEF TrieInv, MayMove
\* A step that leaves the trie settled, and the call done, at a block or at its end.
<1>3. ASSUME Active(c), UNCHANGED <<kind, blocks, seen>>, Settled',
             \/ NextAction(c)
             \/ \E w : work' = [work EXCEPT ![c] = w] /\ w.at \in Quiet
      PROVE  TrieInv'
  <2>1. Replayed' /\ ReadFromChain'
    BY <1>3, SameHistory
  <2>2. CASE NextAction(c)
    <3>1. EndsAndStarts(c)
      BY <1>2, <1>3, <2>2, FinishKeeps
    <3>2. \A d \in Calls \ {c} : ~Active(d)
      BY <1>2, <1>3, GoesOnAlone DEF TrieInv
    <3>3. QED
      BY <1>3, <2>1, <3>1, <3>2, EndKeepsTrie
  <2>3. CASE \E w : work' = [work EXCEPT ![c] = w] /\ w.at \in Quiet
    <3>1. PICK w : work' = [work EXCEPT ![c] = w] /\ w.at \in Quiet
      BY <2>3
    <3>2. work'[c] = w /\ \A d \in Calls \ {c} : work'[d] = work[d]
      BY <1>1, <3>1
    <3>3. \A d \in Calls \ {c} : ~Active(d)
      BY <1>2, <1>3, <3>2, GoesOnAlone DEF TrieInv
    <3>4. \A d \in Calls : Active(d)' => work'[d].at \in Quiet
      BY <3>1, <3>2, <3>3 DEF Active
    <3>5. QED
      BY <1>3, <2>1, <3>4, SettledKeepsTrie
  <2>4. QED
    BY <1>3, <2>2, <2>3
\* What Process and EndCode have in common.
<1>4. ASSUME NEW tx, Proceed(c, tx)
      PROVE  \/ NextAction(c)
             \/ \E w : work' = [work EXCEPT ![c] = w] /\ w.at \in Quiet
  <2>1. CASE Method(c) = "eth_call"
    <3>1. work' = [work EXCEPT ![c] = At("block")] /\ At("block").at \in Quiet
      BY <1>4, <2>1 DEF Proceed, At, Work, Quiet
    <3>2. QED
      BY <3>1
  <2>2. CASE Method(c) # "eth_call" /\ is_mining
    <3>1. TakeBlock(c, Append(pending, tx))
      BY <1>4, <2>2 DEF Proceed
    <3>2. PICK sorted : \E cut : work' = [work EXCEPT
                                        ![c] = Work("parent", SubSeq(sorted, 1, cut), <<>>)]
      BY <3>1 DEF TakeBlock
    <3>3. PICK cut : work' = [work EXCEPT
                               ![c] = Work("parent", SubSeq(sorted, 1, cut), <<>>)]
      BY <3>2
    <3>4. Work("parent", SubSeq(sorted, 1, cut), <<>>).at \in Quiet
      BY DEF Work, Quiet
    <3>5. QED
      BY <3>3, <3>4
  <2>3. CASE Method(c) # "eth_call" /\ ~is_mining
    BY <1>4, <2>3 DEF Proceed, Succeed
  <2>4. QED
    BY <2>1, <2>2, <2>3
<1>5. ASSUME work[c].at = "nonce", UNCHANGED <<blocks, trie>>
      PROVE  Active(c) /\ Settled'
  BY <1>2, <1>5 DEF Active, TrieOf, Settled, LastRoot, trie
<1>6. ASSUME Process(c) PROVE TrieInv'
  <2>1. \E tx : Proceed(c, tx)
    BY <1>6 DEF Process
  <2>2. work[c].at = "nonce" /\ UNCHANGED <<kind, blocks, trie, seen>>
    BY <1>6 DEF Process
  <2>3. QED
    BY <1>3, <1>4, <1>5, <2>1, <2>2
<1>7. ASSUME WrongNonce(c) PROVE TrieInv'
  BY <1>3, <1>5, <1>7 DEF WrongNonce, Fail
<1>8. ASSUME CallsContract(c) PROVE TrieInv'
  <2>1. PICK nonce : work' = [work EXCEPT ![c] = Work("latest", <<TxOf(c, nonce)>>, <<>>)]
    BY <1>8 DEF CallsContract
  <2>2. Work("latest", <<TxOf(c, nonce)>>, <<>>).at \in Quiet
    BY DEF Work, Quiet
  <2>3. work[c].at = "nonce" /\ UNCHANGED <<kind, blocks, trie, seen>>
    BY <1>8 DEF CallsContract
  <2>4. QED
    BY <1>3, <1>5, <2>1, <2>2, <2>3
<1>9. ASSUME ReadCode(c) PROVE TrieInv'
  <2> DEFINE w == Work("code", work[c].txs, <<stateRoot>>)
  <2>1. w.at = "code" /\ w.held = <<stateRoot>> /\ work' = [work EXCEPT ![c] = w]
    BY <1>9 DEF ReadCode, Work
  <2> HIDE DEF w
  <2>2. /\ Active(c) /\ stateRoot = LastRoot /\ checkpoints = <<>> /\ stateRoot' = LastRoot
        /\ UNCHANGED <<kind, blocks, checkpoints, seen>>
    BY <1>2, <1>9 DEF ReadCode, Active, TrieOf, Settled, LastRoot
  <2>3. work'[c] = w /\ Active(c)' /\ \A d \in Calls \ {c} : work'[d] = work[d]
    BY <1>1, <2>1 DEF Active
  <2>4. \A d \in Calls \ {c} : ~Active(d)
    BY <1>2, <2>2, <2>3, GoesOnAlone DEF TrieInv
  <2>5. \A d \in Calls \ {c} : ~Active(d)'
    BY <2>3, <2>4 DEF Active
  <2>6. LastRoot' = LastRoot
    BY <2>2 DEF LastRoot
  <2>7. TrieOf(c)'
    BY <2>1, <2>2, <2>3, <2>6 DEF TrieOf
  <2>8. QED
    BY <2>2, <2>3, <2>5, <2>7, SameHistory, AloneKeepsTrie
<1>10. ASSUME EndCode(c) PROVE TrieInv'
  <2>1. /\ Active(c) /\ work[c].held = <<LastRoot>> /\ checkpoints = <<>>
        /\ stateRoot' = work[c].held[1] /\ UNCHANGED <<kind, blocks, checkpoints, seen>>
    BY <1>2, <1>10 DEF EndCode, Active, TrieOf
  <2>2. Settled'
    BY <2>1 DEF Settled, LastRoot
  <2>3. \/ NextAction(c)
        \/ \E tx : Proceed(c, tx)
    BY <1>10 DEF EndCode, Fail
  <2>4. QED
    BY <1>3, <1>4, <2>1, <2>2, <2>3
<1>11. QED
  BY <1>6, <1>7, <1>8, <1>9, <1>10

\* A call sees the state of the block it asks for.
LEMMA SeesBlock ==
  ASSUME QueueInv, TrieInv, ~spoiled, NEW c \in Calls, BlockExists(c),
         stateRoot = RootAsked(c), seen' = [seen EXCEPT ![c] = <<stateRoot>>],
         UNCHANGED <<kind, blocks>>
  PROVE  Replayed' /\ ReadFromChain'
<1>1. Replayed' /\ ReadFromChain /\ seen \in [Calls -> Seq(Root)] /\ TypeOK
  BY DEF TrieInv, Replayed, QueueInv, TypeOK
<1>2. seen'[c] = <<stateRoot>> /\ \A d \in Calls \ {c} : seen'[d] = seen[d]
  BY <1>1
<1>3. \A d \in Calls : SeenIn(d)' = SeenIn(d)
  BY DEF SeenIn, Method
<1>4. BlockAsked(c) + 1 \in DOMAIN blocks /\ stateRoot = blocks[BlockAsked(c) + 1].root
  BY RootAskedType DEF RootAsked
<1>5. kind[c].block # Latest => SeenIn(c) = BlockAsked(c) + 1
  BY <1>1, KindType DEF SeenIn, BlockAsked
<1>6. QED
  BY <1>1, <1>2, <1>3, <1>4, <1>5 DEF ReadFromChain

LEMMA ReadingKeepsTrie ==
  ASSUME QueueInv, TrieInv, ~spoiled, spoiled' \in BOOLEAN, ~Crossing', NEW c \in Calls,
         ~KeepsOlderRoot(c)
  PROVE  /\ eth_getBalance(c) => TrieInv'
         /\ NoSuchBlock(c) => TrieInv'
         /\ StartRead(c) => TrieInv'
         /\ EndRead(c) => TrieInv'
         /\ StartCall(c) => TrieInv'
         /\ EndCall(c) => TrieInv'
         /\ StartTrace(c) => TrieInv'
         /\ EndTrace(c) => TrieInv'
<1>1. /\ TypeOK /\ StagesOfMethods /\ RootsHeld /\ BlocksChosen
      /\ work \in [Calls -> Works] /\ work[c] \in Works
      /\ stateRoot \in Root /\ checkpoints \in Seq(Root)
  BY DEF QueueInv, TypeOK, Works
<1>2. Active(c) => TrieOf(c) /\ MayMove(c)
  BY DEF TrieInv, MayMove
<1>3. ASSUME eth_getBalance(c) PROVE TrieInv'
  <2>1. /\ MayMove(c) /\ ~Active(c) /\ work' = [work EXCEPT ![c] = At("block")]
        /\ UNCHANGED <<kind, blocks, trie, seen>>
    BY <1>3 DEF eth_getBalance, MayStart, MayMove, Active, Unqueued
  <2>2. work'[c].at = "block" /\ \A d \in Calls \ {c} : work'[d] = work[d]
    BY <1>1, <2>1 DEF At, Work
  <2>3. \A d \in Calls \ {c} : ~Active(d)
    BY <2>1, <2>2, GoesOnAlone DEF TrieInv
  <2>4. Settled
    BY <2>1, <2>3 DEF TrieInv
  <2>5. Settled'
    BY <2>1, <2>4 DEF Settled, LastRoot, trie
  <2>6. \A d \in Calls : Active(d)' => work'[d].at \in Quiet
    BY <2>2, <2>3 DEF Active, Quiet
  <2>7. QED
    BY <2>1, <2>5, <2>6, SameHistory, SettledKeepsTrie
\* The steps in which the call ends.
<1>4. ASSUME Active(c), NextAction(c), UNCHANGED <<kind, blocks>>, Settled',
             Replayed', ReadFromChain'
      PROVE  TrieInv'
  <2>1. EndsAndStarts(c) /\ \A d \in Calls \ {c} : ~Active(d)
    BY <1>2, <1>4, FinishKeeps, GoesOnAlone DEF TrieInv
  <2>2. QED
    BY <1>4, <2>1, EndKeepsTrie
\* The steps in which it goes on with the root it asked for.
<1>5. ASSUME Active(c), Active(c)', \A d \in Calls \ {c} : work'[d] = work[d],
             UNCHANGED <<kind, blocks, seen>>, TrieOf(c)'
      PROVE  TrieInv'
  <2>1. \A d \in Calls \ {c} : ~Active(d)
    BY <1>2, <1>5, GoesOnAlone DEF TrieInv
  <2>2. \A d \in Calls \ {c} : ~Active(d)'
    BY <1>5, <2>1 DEF Active
  <2>3. QED
    BY <1>5, <2>2, SameHistory, AloneKeepsTrie
<1>6. ASSUME UNCHANGED <<kind, blocks>>
      PROVE  RootAsked(c)' = RootAsked(c) /\ LastRoot' = LastRoot
  BY <1>6 DEF RootAsked, BlockAsked, Method, LastRoot
<1>7. ASSUME NoSuchBlock(c) PROVE TrieInv'
  <2>1. Active(c) /\ Settled /\ NextAction(c) /\ UNCHANGED <<kind, blocks, trie, seen>>
    BY <1>2, <1>7 DEF NoSuchBlock, Active, TrieOf, Fail
  <2>2. Settled'
    BY <2>1 DEF Settled, LastRoot, trie
  <2>3. QED
    BY <1>4, <2>1, <2>2, SameHistory
<1>8. ASSUME StartRead(c) PROVE TrieInv'
  <2> DEFINE w == Work("read", <<>>, <<stateRoot>>)
  <2>1. /\ w.at = "read" /\ w.held = <<stateRoot>>
        /\ work' = [work EXCEPT ![c] = w]
    BY <1>8 DEF StartRead, Work
  <2> HIDE DEF w
  <2>2. /\ Active(c) /\ stateRoot = LastRoot /\ checkpoints = <<>>
        /\ stateRoot' = RootAsked(c) /\ UNCHANGED <<kind, blocks, checkpoints, seen>>
    BY <1>2, <1>8 DEF StartRead, Active, TrieOf, Settled
  <2>3. work'[c] = w /\ Active(c)' /\ \A d \in Calls \ {c} : work'[d] = work[d]
    BY <1>1, <2>1 DEF Active
  <2>4. TrieOf(c)'
    BY <1>6, <2>1, <2>2, <2>3 DEF TrieOf
  <2>5. QED
    BY <1>5, <2>2, <2>3, <2>4
<1>9. ASSUME EndRead(c) PROVE TrieInv'
  <2>1. /\ Active(c) /\ stateRoot = RootAsked(c) /\ work[c].held = <<LastRoot>>
        /\ checkpoints = <<>> /\ BlockExists(c) /\ NextAction(c)
        /\ stateRoot' = work[c].held[1] /\ seen' = [seen EXCEPT ![c] = <<stateRoot>>]
        /\ UNCHANGED <<kind, blocks, checkpoints>>
    BY <1>1, <1>2, <1>9 DEF EndRead, Active, TrieOf, BlocksChosen, Succeed
  <2>2. Settled'
    BY <1>6, <2>1 DEF Settled
  <2>3. QED
    BY <1>4, <2>1, <2>2, SeesBlock
\* What StartCall and StartTrace have in common.
<1>10. ASSUME work[c].at = "block",
              \/ RunOn(c, RootAsked(c), <<LastRoot>>)
              \/ RunOn(c, LastRoot, <<>>) /\ RootAsked(c) = LastRoot
       PROVE  TrieInv'
  <2>1. PICK held : /\ RunOn(c, RootAsked(c), held)
                    /\ \/ held = <<LastRoot>>
                       \/ held = <<>> /\ RootAsked(c) = LastRoot
    <3>1. CASE RunOn(c, RootAsked(c), <<LastRoot>>)
      BY <3>1
    <3>2. CASE RunOn(c, LastRoot, <<>>) /\ RootAsked(c) = LastRoot
      BY <3>2
    <3>3. QED
      BY <1>10, <3>1, <3>2
  <2> DEFINE w == Work("aside", <<>>, held)
  <2>2. w.at = "aside" /\ w.held = held /\ work' = [work EXCEPT ![c] = w]
    BY <2>1 DEF RunOn, Work
  <2> HIDE DEF w
  <2>3. /\ Active(c) /\ checkpoints = <<>>
        /\ stateRoot' = RootAsked(c) /\ checkpoints' = Append(checkpoints, RootAsked(c))
        /\ UNCHANGED <<kind, blocks, seen>>
    BY <1>2, <1>10, <2>1 DEF RunOn, Active, TrieOf, Settled
  <2>4. work'[c] = w /\ Active(c)' /\ \A d \in Calls \ {c} : work'[d] = work[d]
    BY <1>1, <2>2 DEF Active
  <2>5. checkpoints' = <<RootAsked(c)>>
    BY <2>3
  <2>6. TrieOf(c)'
    BY <1>6, <2>1, <2>2, <2>3, <2>4, <2>5 DEF TrieOf
  <2>7. QED
    BY <1>5, <2>3, <2>4, <2>6
<1>11. kind[c].block = Latest => RootAsked(c) = LastRoot
  <2>1. Len(blocks) \in Nat
    BY <1>1 DEF TypeOK
  <2>2. kind[c].block = Latest => BlockAsked(c) + 1 = Len(blocks)
    BY <2>1 DEF BlockAsked, Latest
  <2>3. QED
    BY <2>2 DEF RootAsked, LastRoot
<1>12. work[c].at = "block" => stateRoot = LastRoot
  BY <1>2 DEF Active, TrieOf, Settled
<1>13. ASSUME StartCall(c) PROVE TrieInv'
  <2>1. CASE kind[c].block = Latest
    <3>1. work[c].at = "block" /\ RunOn(c, stateRoot, <<>>)
      BY <1>13, <2>1 DEF StartCall
    <3>2. RunOn(c, LastRoot, <<>>) /\ RootAsked(c) = LastRoot
      BY <1>11, <1>12, <2>1, <3>1
    <3>3. QED
      BY <1>10, <3>1, <3>2
  <2>2. CASE kind[c].block # Latest
    <3>1. work[c].at = "block" /\ RunOn(c, RootAsked(c), <<stateRoot>>)
      BY <1>13, <2>2 DEF StartCall
    <3>2. RunOn(c, RootAsked(c), <<LastRoot>>)
      BY <1>12, <3>1
    <3>3. QED
      BY <1>10, <3>1, <3>2
  <2>3. QED
    BY <2>1, <2>2
<1>14. ASSUME EndCall(c) PROVE TrieInv'
  <2>1. /\ Active(c) /\ stateRoot = RootAsked(c) /\ checkpoints = <<stateRoot>>
        /\ \/ work[c].held = <<LastRoot>>
           \/ work[c].held = <<>> /\ stateRoot = LastRoot
        /\ BlockExists(c) /\ NextAction(c) /\ PopCheckpoint
        /\ stateRoot' = IF work[c].held = <<>> \/ Refused(c) THEN Popped
                        ELSE work[c].held[1]
        /\ seen' = [seen EXCEPT ![c] = <<stateRoot>>]
        /\ UNCHANGED <<kind, blocks>>
    BY <1>1, <1>2, <1>14 DEF EndCall, Active, TrieOf, BlocksChosen, Succeed, Fail
  <2>2. work'[c].at = "done"
    BY <1>2, <2>1, FinishKeeps DEF EndsAndStarts, At, Work
  <2>3. work[c].held # <<>> => ~Refused(c)
    BY <1>14, <2>2 DEF KeepsOlderRoot, EndCall
  <2>4. Popped = stateRoot /\ checkpoints' = <<>>
    BY <2>1 DEF Popped, PopCheckpoint
  <2>5. stateRoot' = LastRoot
    BY <2>1, <2>3, <2>4
  <2>6. Settled'
    BY <1>6, <2>1, <2>4, <2>5 DEF Settled
  <2>7. QED
    BY <1>4, <2>1, <2>6, SeesBlock
<1>15. ASSUME StartTrace(c) PROVE TrieInv'
  <2>1. work[c].at = "block" /\ RunOn(c, RootAsked(c), <<stateRoot>>)
    BY <1>15 DEF StartTrace
  <2>2. RunOn(c, RootAsked(c), <<LastRoot>>)
    BY <1>12, <2>1
  <2>3. QED
    BY <1>10, <2>1, <2>2
<1>16. ASSUME EndTrace(c) PROVE TrieInv'
  <2>1. /\ Active(c) /\ stateRoot = RootAsked(c) /\ checkpoints = <<stateRoot>>
        /\ work[c].held = <<LastRoot>>
        /\ BlockExists(c) /\ NextAction(c) /\ PopCheckpoint
        /\ stateRoot' = work[c].held[1]
        /\ seen' = [seen EXCEPT ![c] = <<stateRoot>>]
        /\ UNCHANGED <<kind, blocks>>
    BY <1>1, <1>2, <1>16 DEF EndTrace, Active, TrieOf, BlocksChosen, RootsHeld, Succeed
  <2>2. checkpoints' = <<>> /\ stateRoot' = LastRoot
    BY <2>1 DEF PopCheckpoint
  <2>3. Settled'
    BY <1>6, <2>1, <2>2 DEF Settled
  <2>4. QED
    BY <1>4, <2>1, <2>3, SeesBlock
<1>17. QED
  BY <1>3, <1>7, <1>8, <1>9, <1>13, <1>14, <1>15, <1>16

LEMMA EnqueueKeepsTrie ==
  ASSUME QueueInv, TrieInv, ~spoiled, ~Crossing', NEW c \in Calls, Enqueue(c)
  PROVE  TrieInv'
<1>1. /\ work \in [Calls -> Works] /\ work[c].at = "unsent" /\ Method(c) \in Queued
      /\ UNCHANGED <<kind, blocks, trie, seen>> /\ TypeOK /\ OneActionAtATime
  BY DEF Enqueue, MayStart, QueueInv, TypeOK, Works
<1>2. CASE MustWait
  <2>1. work' = [work EXCEPT ![c] = At("queued")]
    BY <1>2 DEF Enqueue
  <2>2. \A d \in Calls : /\ Active(d)' <=> Active(d)
                         /\ Active(d) => work'[d] = work[d]
    BY <1>1, <2>1 DEF Active, At, Work
  <2>3. QED
    BY <1>1, <2>2, UntouchedKeepsTrie
<1>3. CASE ~MustWait
  <2>1. work' = [work EXCEPT ![c] = FirstStep(c)]
    BY <1>3 DEF Enqueue
  <2>2. /\ work'[c].at \in {"nonce", "block"}
        /\ \A d \in Calls \ {c} : work'[d] = work[d]
    BY <1>1, <2>1, FirstStepType
  <2>3. ASSUME NEW d \in Calls, Active(d) PROVE FALSE
    <3>1. d # c /\ InProgress(d) /\ InProgress(d)' /\ InProgress(c)'
      BY <1>1, <2>2, <2>3 DEF Active, InProgress
    <3>2. d \notin Executing
      BY <1>1, <1>3 DEF OneActionAtATime, MustWait
    <3>3. Method(d) \notin Queued
      BY <2>3, <3>1, <3>2 DEF Executing, Active
    <3>4. Method(d)' \in Unqueued
      BY <1>1, <3>3, KindType DEF Method
    <3>5. QED
      BY <3>1, <3>4 DEF Crossing
  <2>4. Settled
    BY <2>3 DEF TrieInv
  <2>5. Settled'
    BY <1>1, <2>4 DEF Settled, LastRoot, trie
  <2>6. \A d \in Calls : Active(d)' => work'[d].at \in Quiet
    BY <2>2, <2>3 DEF Active, Quiet
  <2>7. QED
    BY <1>1, <2>5, <2>6, SameHistory, SettledKeepsTrie
<1>4. QED
  BY <1>2, <1>3

LEMMA InitTrieInv == Init => TrieInv
<1> SUFFICES ASSUME Init PROVE TrieInv
  OBVIOUS
<1>1. \A c \in Calls : work[c].at = "unsent"
  BY DEF Init, At, Work
<1>2. ~Crossing /\ \A c \in Calls : ~Active(c)
  BY <1>1 DEF Crossing, InProgress, Active
<1>3. Len(blocks) = 1 /\ blocks[1].root = GenesisRoot
  BY DEF Init
<1>4. Settled /\ Replayed
  BY <1>3 DEF Init, Settled, LastRoot, Replayed
<1>5. ReadFromChain
  BY DEF Init, ReadFromChain
<1>6. QED
  BY <1>2, <1>4, <1>5 DEF TrieInv

LEMMA StepKeepsTrieInv == QueueInv /\ TrieInv /\ [Next]_vars => TrieInv'
<1> SUFFICES ASSUME QueueInv, TrieInv, [Next]_vars, ~spoiled' PROVE TrieInv'
  BY DEF TrieInv
<1>1. CASE Next
  <2>1. ~spoiled /\ ~Crossing' /\ \A c \in Calls : ~KeepsOlderRoot(c)
    BY <1>1 DEF Next
  <2>2. PICK c \in Calls : Start(c) \/ Step(c)
    BY <1>1 DEF Next
  <2>3. spoiled' \in BOOLEAN
    BY <1>1 DEF Next, QueueInv, TypeOK
  <2>4. CASE Start(c)
    BY <2>1, <2>3, <2>4, EnqueueKeepsTrie, MiningKeepsTrie, ReadingKeepsTrie DEF Start
  <2>5. CASE Step(c)
    BY <2>1, <2>3, <2>5, CheckKeepsTrie, MiningKeepsTrie, ReadingKeepsTrie DEF Step
  <2>6. QED
    BY <2>2, <2>4, <2>5
<1>2. CASE UNCHANGED vars
  <2>1. ~spoiled /\ UNCHANGED <<kind, blocks, trie, seen, work>>
    BY <1>2 DEF vars
  <2>2. ~Crossing'
    BY <2>1 DEF TrieInv, Crossing, InProgress, Method
  <2>3. \A d \in Calls : (Active(d)' <=> Active(d)) /\ work'[d] = work[d]
    BY <2>1 DEF Active
  <2>4. QED
    BY <2>1, <2>2, <2>3, UntouchedKeepsTrie
<1>3. QED
  BY <1>1, <1>2

LEMMA TrieInvHolds == Spec => [](QueueInv /\ TrieInv)
BY InitQueueInv, StepKeepsQueueInv, InitTrieInv, StepKeepsTrieInv, PTL DEF Spec
-----------------------------------------------------------------------------
(* The theorems.                                                            *)

(* Every variable has its type: a checkpoint is only popped when there is  *)
(* one, a root only put back by a call that has one, and a call only       *)
(* executes on a block the chain has.                                      *)
THEOREM TypeCorrect == Spec => []TypeOK
<1>1. QueueInv => TypeOK
  BY DEF QueueInv
<1>2. QED
  BY <1>1, QueueInvHolds, PTL

(* The action queue runs one action at a time, action_processing tells     *)
(* whether one runs, and a call waits in the queue once and only behind an *)
(* action that will start the next (queueTransaction, processNextAction).  *)
THEOREM OneActionRuns == Spec => []OneActionAtATime
<1>1. QueueInv => OneActionAtATime
  BY DEF QueueInv
<1>2. QED
  BY <1>1, QueueInvHolds, PTL

(* As many checkpoints are open as calls are between a checkpoint of       *)
(* theirs and its commit or revert, however the calls cross each other.    *)
THEOREM CheckpointsAreThoseOfCalls == Spec => []CheckpointsCounted
<1>1. QueueInv => CheckpointsCounted
  BY DEF QueueInv
<1>2. QED
  BY <1>1, QueueInvHolds, PTL

(* At rest the trie has the root of the last block and no checkpoint, as   *)
(* long as no method outside the queue crossed another call and no call on *)
(* an older block was refused (getAccount, processCall, processBlock).     *)
THEOREM TrieIsPutBack == Spec => []StateIsOfLastBlock
<1>1. ASSUME TrieInv PROVE StateIsOfLastBlock
  <2> SUFFICES ASSUME AtRest, ~spoiled
               PROVE  stateRoot = blocks[Len(blocks)].root /\ checkpoints = <<>>
    BY DEF StateIsOfLastBlock
  <2>1. \A c \in Calls : ~Active(c)
    BY DEF AtRest, InProgress, Active
  <2>2. QED
    BY <1>1, <2>1 DEF TrieInv, Settled, LastRoot
<1>2. TrieInv => StateIsOfLastBlock
  BY <1>1
<1>3. QED
  BY <1>2, TrieInvHolds, PTL

(* Until then every block has been executed on the state of the block      *)
(* before it (processBlock).                                               *)
THEOREM ChainReplays == Spec => []ChainIsReplay
<1>1. TrieInv => ChainIsReplay
  BY DEF TrieInv, ChainIsReplay, Replayed
<1>2. QED
  BY <1>1, TrieInvHolds, PTL

(* Until then a call that reads or executes sees the state of the block it *)
(* asks for (getAccount, getStorage, processCall, processTransactionTrace).*)
THEOREM ReadsAreOfBlocks == Spec => []ReadsStateOfBlock
<1>1. TrieInv => ReadsStateOfBlock
  BY DEF TrieInv, ReadsStateOfBlock, ReadFromChain, SeenIn
<1>2. QED
  BY <1>1, TrieInvHolds, PTL
=============================================================================
