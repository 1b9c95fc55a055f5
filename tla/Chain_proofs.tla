----------------------------- MODULE Chain_proofs -----------------------------
(***************************************************************************)
(* Proofs about Chain, for any accounts, transactions and bounds, in three *)
(* parts, and about PoolSort; each has its inductive invariant:            *)
(*                                                                         *)
(*   - types, and the state as a replay of the blocks;                     *)
(*   - what a revert takes back: the time of blocks is in order over       *)
(*     evm_increaseTime and reverts, and Chain implements SnapshotSpec,    *)
(*     since a revert that pops one block and one snapshot at a time       *)
(*     brings back what the snapshot saw, whole;                           *)
(*   - nonces: those on the chain, those that wait, the receipts, and what *)
(*     a step may do to a transaction that waits;                          *)
(*   - the sort of the pool, and the packing of a block: what PoolSort     *)
(*     computes is what PoolOrder, and so Chain, takes it to be.           *)
(***************************************************************************)
EXTENDS Chain, PoolSort, TLAPS, FiniteSetTheorems, SequenceTheorems

-----------------------------------------------------------------------------
(***************************************************************************)
(* Types, and the state as a replay.                                       *)
(***************************************************************************)
(* Types.                                                                   *)

\* The VM leaves an account state behind, whatever transactions it is given.
LEMMA RunBlockType ==
  ASSUME NEW root \in Root, NEW txs \in Seq(Tx) PROVE RunBlock(root, txs) \in Root
<1>1. \A a \in Accounts : Cardinality(SentBy(txs, a)) \in Nat
  <2> TAKE a \in Accounts
  <2>1. SentBy(txs, a) \subseteq 1..Len(txs)
    BY DEF SentBy
  <2>2. IsFiniteSet(1..Len(txs))
    BY FS_Interval
  <2>3. IsFiniteSet(SentBy(txs, a))
    BY <2>1, <2>2, FS_Subset
  <2>4. QED
    BY <2>3, FS_CardinalityType
<1>2. Append(root.history, txs) \in Seq(Seq(Tx))
  BY DEF Root
<1>3. QED
  BY <1>1, <1>2 DEF RunBlock, Root

\* A sorted pool is a pool, and so are its two parts.
LEMMA SortedType ==
  ASSUME NEW pool \in Seq(Tx), NEW sorted \in PriceNonceOrders(pool),
         NEW cut \in BlockCuts(sorted, BlockGasLimit)
  PROVE  /\ sorted \in Seq(Tx)
         /\ SubSeq(sorted, 1, cut) \in Seq(Tx)
         /\ Remaining(sorted, cut) \in Seq(Tx)
<1>1. Range(pool) \subseteq Tx
  BY DEF Range
<1>2. sorted \in [1..Len(pool) -> Range(pool)]
  BY DEF PriceNonceOrders
<1>3. sorted \in Seq(Tx)
  BY <1>1, <1>2
<1>4. cut \in 0..Len(sorted)
  BY DEF BlockCuts
<1>5. QED
  BY <1>3, <1>4 DEF Remaining

LEMMA ReceiptType ==
  ASSUME NEW block \in Block, NEW tx \in Range(block.txs)
  PROVE  tx \in Tx /\ ReceiptOf(block, tx) \in Receipt
<1>1. PICK i \in DOMAIN block.txs : block.txs[i] = tx
  BY DEF Range
<1>2. block.txs \in Seq(Tx) /\ block.number \in Nat
  BY DEF Block
<1>3. (CHOOSE j \in DOMAIN block.txs : block.txs[j] = tx) \in DOMAIN block.txs
  BY <1>1
<1>4. (CHOOSE j \in DOMAIN block.txs : block.txs[j] = tx) \in Nat
  BY <1>2, <1>3
<1>5. QED
  BY <1>1, <1>2, <1>4 DEF ReceiptOf, Receipt

LEMMA PutBlockType ==
  ASSUME TypeOK, NEW block \in Block, putBlock(block)
  PROVE  /\ blocks' \in Seq(Block) /\ blocks' # <<>>
         /\ DOMAIN receipts' \subseteq Tx
         /\ \A tx \in DOMAIN receipts' : receipts'[tx] \in Receipt
         /\ stateRoot' \in Root
<1>1. blocks' \in Seq(Block) /\ blocks' # <<>>
  BY DEF TypeOK, putBlock
<1>2. stateRoot' \in Root
  BY DEF putBlock, Block
<1>3. \A tx \in Range(block.txs) : tx \in Tx /\ ReceiptOf(block, tx) \in Receipt
  BY ReceiptType
<1>4. DOMAIN receipts' = DOMAIN receipts \cup Range(block.txs)
  BY DEF putBlock
<1>5. \A tx \in DOMAIN receipts' :
        receipts'[tx] = IF tx \in Range(block.txs) THEN ReceiptOf(block, tx)
                        ELSE receipts[tx]
  BY DEF putBlock
<1>6. QED
  BY <1>1, <1>2, <1>3, <1>4, <1>5 DEF TypeOK

LEMMA QueuedNonceType ==
  ASSUME NEW pool \in Seq(Tx), NEW root \in Root, NEW account \in Accounts
  PROVE  QueuedNonce(pool, root, account) \subseteq Nat
<1>1. DEFINE queued == {pool[i].nonce : i \in {j \in DOMAIN pool :
                                                  pool[j].from = account}}
<1>2. queued \subseteq Nat
  <2> SUFFICES ASSUME NEW i \in DOMAIN pool PROVE pool[i].nonce \in Nat
    OBVIOUS
  <2>1. pool[i] \in Tx
    OBVIOUS
  <2>2. QED
    BY <2>1 DEF Tx
<1>3. root.nonce[account] \in Nat
  BY DEF Root
<1>4. QueuedNonce(pool, root, account) =
        IF queued = {} THEN {root.nonce[account]}
        ELSE {q + 1 : q \in {h \in queued : \A other \in queued : other <= h}}
  BY DEF QueuedNonce
<1> HIDE DEF queued
<1>5. CASE queued = {}
  BY <1>3, <1>4, <1>5
<1>6. CASE queued # {}
  <2>1. \A q \in queued : q + 1 \in Nat
    BY <1>2
  <2>2. QED
    BY <1>4, <1>6, <2>1
<1>7. QED
  BY <1>5, <1>6

LEMMA CreateBlockType ==
  ASSUME TypeOK, NEW txs \in Seq(Tx) PROVE createBlock(txs) \in Block
<1>1. latestBlock \in Block
  BY DEF TypeOK, latestBlock
<1>2. RunBlock(stateRoot, txs) \in Root
  BY RunBlockType DEF TypeOK
<1>3. QED
  BY <1>1, <1>2 DEF createBlock, currentTime, Block, TypeOK

\* A request that is answered, and one that goes on, leave these two typed.
LEMMA RespondType ==
  ASSUME NEW call \in Methods, NEW err \in {"none", "rejected", "runtime", "vm"},
         Respond(call, err)
  PROVE  request' \in Requests /\ reply' \in Replies
<1>1. request' = Idle /\ reply' = Answer(call, err)
  BY DEF Respond
<1>2. Idle \in Requests
  BY DEF Requests
<1>3. Answer(call, err) \in Replies
  BY DEF Answer, Replies
<1>4. QED
  BY <1>1, <1>2, <1>3

LEMMA ProceedType ==
  ASSUME NEW next \in Requests, Proceed(next)
  PROVE  request' \in Requests /\ reply' \in Replies
<1>1. request' = next /\ reply' = [call |-> "", err |-> "none"]
  BY DEF Proceed, Unanswered, Answer
<1>2. reply' \in Replies
  BY <1>1 DEF Replies
<1>3. QED
  BY <1>1, <1>2

LEMMA MineBlocksType ==
  ASSUME NEW call \in {"eth_sendTransaction", "evm_mine", "miner_start"},
         NEW all \in BOOLEAN, NEW left \in {0, 1}, NEW threw \in BOOLEAN
  PROVE  MineBlocks(call, all, left, threw) \in Requests
BY DEF Requests

LEMMA RevertingType ==
  ASSUME NEW id \in Nat \ {0}, NEW adjustment \in Nat, NEW unwinding \in Seq(Snapshot)
  PROVE  Reverting(id, adjustment, unwinding) \in Requests
BY DEF Requests, Reverting

\* The two kinds of work a request can have in progress.
LEMMA MiningRequest ==
  ASSUME request \in Requests, request.op = "mine"
  PROVE  /\ request.call \in {"eth_sendTransaction", "evm_mine", "miner_start"}
         /\ request.all \in BOOLEAN /\ request.left \in {0, 1}
         /\ request.threw \in BOOLEAN
BY DEF Requests, MineBlocks, Idle

LEMMA RevertingRequest ==
  ASSUME request \in Requests, request.op = "revert"
  PROVE  /\ request.id \in Nat \ {0} /\ request.adjustment \in Nat
         /\ request.unwinding \in Seq(Snapshot)
BY DEF Requests, MineBlocks, Idle
-----------------------------------------------------------------------------
LEMMA InitType == Init => TypeOK
<1> SUFFICES ASSUME Init PROVE TypeOK
  OBVIOUS
<1>1. GenesisRoot \in Root
  BY DEF GenesisRoot, Root
<1>2. [number |-> 0, time |-> 0, txs |-> <<>>, root |-> GenesisRoot] \in Block
  BY <1>1 DEF Block
<1>3. blocks \in Seq(Block) /\ blocks # <<>>
  BY <1>2 DEF Init
<1>4. DOMAIN receipts \subseteq Tx /\ \A tx \in DOMAIN receipts : receipts[tx] \in Receipt
  BY DEF Init
<1>5. pending \in Seq(Tx) /\ snapshots \in Seq(Snapshot)
  BY DEF Init
<1>6. request \in Requests
  BY DEF Init, Requests
<1>7. reply \in Replies
  BY DEF Init, Unanswered, Answer, Replies
<1>8. QED
  BY <1>1, <1>3, <1>4, <1>5, <1>6, <1>7 DEF Init, TypeOK

\* The ledger, the pool and the rest, when a step changes only some of them.
LedgerType ==
  /\ blocks \in Seq(Block) /\ blocks # <<>>
  /\ DOMAIN receipts \subseteq Tx
  /\ \A tx \in DOMAIN receipts : receipts[tx] \in Receipt
  /\ stateRoot \in Root

ClockType == timeAdjustment \in Nat /\ clock \in Nat /\ is_mining \in BOOLEAN

CallType == request \in Requests /\ reply \in Replies

LEMMA TypeParts ==
  TypeOK <=> /\ LedgerType /\ ClockType /\ CallType
             /\ pending \in Seq(Tx) /\ snapshots \in Seq(Snapshot)
BY DEF TypeOK, LedgerType, ClockType, CallType

LEMMA SendType ==
  ASSUME TypeOK, NEW from \in Accounts, NEW shape \in Shapes,
         eth_sendTransaction(from, shape)
  PROVE  pending' \in Seq(Tx) /\ CallType'
<1>1. PICK nonce \in QueuedNonce(pending, stateRoot, from) :
        pending' = Append(pending,
                     [from |-> from, nonce |-> nonce, price |-> shape.price,
                      gas |-> shape.gas, fate |-> shape.fate])
  BY DEF eth_sendTransaction
<1>2. nonce \in Nat
  BY QueuedNonceType DEF TypeOK
<1>3. shape \in [price : Nat, gas : Nat \ {0}, fate : Fates]
  BY ShapesAssumption
<1>4. [from |-> from, nonce |-> nonce, price |-> shape.price,
       gas |-> shape.gas, fate |-> shape.fate] \in Tx
  BY <1>2, <1>3 DEF Tx
<1>5. pending' \in Seq(Tx)
  BY <1>1, <1>4 DEF TypeOK
<1>6. CallType'
  <2>1. MineBlocks("eth_sendTransaction", TRUE, 0, FALSE) \in Requests
    BY MineBlocksType
  <2>2. CASE is_mining /\ ~OnInterval
    <3>1. Proceed(MineBlocks("eth_sendTransaction", TRUE, 0, FALSE))
      BY <2>2 DEF eth_sendTransaction
    <3>2. QED
      BY <2>1, <3>1, ProceedType DEF CallType
  <2>3. CASE ~(is_mining /\ ~OnInterval)
    <3>1. Respond("eth_sendTransaction", "none")
      BY <2>3 DEF eth_sendTransaction
    <3>2. "eth_sendTransaction" \in Methods
      BY DEF Methods
    <3>3. QED
      BY <3>1, <3>2, RespondType DEF CallType
  <2>4. QED
    BY <2>2, <2>3
<1>7. QED
  BY <1>5, <1>6

LEMMA MineBlockType ==
  ASSUME TypeOK, MineBlock
  PROVE  LedgerType' /\ pending' \in Seq(Tx) /\ CallType'
<1>0. PICK sorted \in PriceNonceOrders(pending) :
        \E cut \in BlockCuts(sorted, BlockGasLimit) :
          /\ putBlock(createBlock(SubSeq(sorted, 1, cut)))
          /\ pending' = Remaining(sorted, cut)
          /\ Proceed(MineBlocks(request.call, request.all,
                       IF request.all THEN 0 ELSE request.left - 1,
                       request.threw \/ Threw(SubSeq(sorted, 1, cut))))
  BY DEF MineBlock
<1>1. PICK cut \in BlockCuts(sorted, BlockGasLimit) :
        /\ putBlock(createBlock(SubSeq(sorted, 1, cut)))
        /\ pending' = Remaining(sorted, cut)
        /\ Proceed(MineBlocks(request.call, request.all,
                     IF request.all THEN 0 ELSE request.left - 1,
                     request.threw \/ Threw(SubSeq(sorted, 1, cut))))
  BY <1>0
<1>2. SubSeq(sorted, 1, cut) \in Seq(Tx) /\ pending' \in Seq(Tx)
  BY <1>1, SortedType DEF TypeOK
<1>3. createBlock(SubSeq(sorted, 1, cut)) \in Block
  BY <1>2, CreateBlockType
<1>4. LedgerType'
  BY <1>1, <1>3, PutBlockType DEF LedgerType
<1>5. CallType'
  <2>1. /\ request.call \in {"eth_sendTransaction", "evm_mine", "miner_start"}
        /\ request.all \in BOOLEAN /\ request.left \in {0, 1}
        /\ request.threw \in BOOLEAN
    BY MiningRequest DEF TypeOK, MineBlock, BlocksLeft
  <2>2. (IF request.all THEN 0 ELSE request.left - 1) \in {0, 1}
    BY <2>1 DEF MineBlock, BlocksLeft
  <2>3. (request.threw \/ Threw(SubSeq(sorted, 1, cut))) \in BOOLEAN
    OBVIOUS
  <2>4. QED
    BY <1>1, <2>1, <2>2, <2>3, MineBlocksType, ProceedType DEF CallType
<1>6. QED
  BY <1>2, <1>4, <1>5

LEMMA FailBlockType ==
  ASSUME TypeOK, FailBlock
  PROVE  pending' \in Seq(Tx) /\ CallType'
<1>0. PICK sorted \in PriceNonceOrders(pending) :
        \E cut \in BlockCuts(sorted, BlockGasLimit) :
          pending' = Remaining(sorted, cut)
  BY DEF FailBlock
<1>1. PICK cut \in BlockCuts(sorted, BlockGasLimit) :
        pending' = Remaining(sorted, cut)
  BY <1>0
<1>2. pending' \in Seq(Tx)
  BY <1>1, SortedType DEF TypeOK
<1>3. request \in Requests /\ request.op = "mine"
  BY DEF TypeOK, FailBlock, BlocksLeft
<1>4. request.call \in {"eth_sendTransaction", "evm_mine", "miner_start"}
  BY <1>3, MiningRequest
<1>5. request.call \in Methods
  BY <1>4 DEF Methods
<1>6. Respond(request.call, "vm")
  BY DEF FailBlock
<1>7. QED
  BY <1>2, <1>5, <1>6, RespondType DEF CallType

LEMMA PopBlockType ==
  ASSUME TypeOK, PopBlock
  PROVE  Len(blocks) > 1 /\ LedgerType'
<1>1. request.unwinding[1] \in Snapshot
  BY RevertingRequest DEF TypeOK, PopBlock
<1>2. Len(blocks) > 1
  BY <1>1 DEF TypeOK, PopBlock, MinedSince, Height, Snapshot
<1>3. blocks[Len(blocks) - 1] \in Block
  BY <1>2 DEF TypeOK
<1>4. blocks' \in Seq(Block) /\ blocks' # <<>>
  <2>1. blocks \in Seq(Block) /\ Len(blocks) - 1 \in 1..Len(blocks)
    BY <1>2 DEF TypeOK
  <2>2. blocks' = SubSeq(blocks, 1, Len(blocks) - 1)
    BY DEF PopBlock, popBlock
  <2>3. blocks' \in Seq(Block) /\ Len(blocks') = Len(blocks) - 1
    BY <2>1, <2>2
  <2>4. blocks' # <<>>
    BY <2>1, <2>3
  <2>5. QED
    BY <2>3, <2>4
<1>5. stateRoot' \in Root
  BY <1>3 DEF PopBlock, popBlock, Block
<1>6. DOMAIN receipts' \subseteq DOMAIN receipts
        /\ \A tx \in DOMAIN receipts' : receipts'[tx] = receipts[tx]
  BY DEF PopBlock, popBlock
<1>7. QED
  BY <1>2, <1>4, <1>5, <1>6 DEF TypeOK, LedgerType

\* The step of a request that is answered, or goes on, and leaves the ledger.
LEMMA CallTypeOfStep ==
  ASSUME TypeOK,
         \/ \E call \in Methods :
              \E err \in {"none", "rejected", "runtime", "vm"} :
                Respond(call, err)
         \/ \E next \in Requests : Proceed(next)
  PROVE  CallType'
BY RespondType, ProceedType DEF CallType

LEMMA StepType == TypeOK /\ [Next]_vars => TypeOK'
<1> SUFFICES ASSUME TypeOK, [Next]_vars PROVE TypeOK'
  OBVIOUS
<1> USE DEF LedgerType, ClockType, ledger
<1>0. /\ LedgerType /\ ClockType /\ CallType
      /\ pending \in Seq(Tx) /\ snapshots \in Seq(Snapshot)
  BY TypeParts
<1>a. Methods = {"eth_sendTransaction", "evm_mine", "miner_start",
                 "miner_stop", "evm_snapshot", "evm_increaseTime", "evm_revert"}
  BY DEF Methods
<1>1. ASSUME NEW from \in Accounts, NEW shape \in Shapes,
             eth_sendTransaction(from, shape)
      PROVE  TypeOK'
  <2>1. pending' \in Seq(Tx) /\ CallType'
    BY <1>1, SendType
  <2>2. UNCHANGED <<ledger, snapshots, timeAdjustment, clock, is_mining>>
    BY <1>1 DEF eth_sendTransaction
  <2>3. QED
    BY <1>0, <2>1, <2>2, TypeParts DEF TypeOK, CallType
<1>2. ASSUME NEW from \in Accounts, NEW shape \in Shapes, NEW nonce \in 0..MaxNonce,
             RejectTransaction(from, shape, nonce)
      PROVE  TypeOK'
  <2>1. CallType'
    BY <1>a, <1>2, CallTypeOfStep DEF RejectTransaction
  <2>2. UNCHANGED <<ledger, pending, snapshots, timeAdjustment, clock, is_mining>>
    BY <1>2 DEF RejectTransaction
  <2>3. QED
    BY <1>0, <2>1, <2>2 DEF TypeOK, CallType
<1>3. ASSUME NEW seconds \in Advances, evm_increaseTime(seconds)
      PROVE  TypeOK'
  <2>1. CallType'
    BY <1>a, <1>3, CallTypeOfStep DEF evm_increaseTime
  <2>2. /\ UNCHANGED <<ledger, pending, snapshots, clock, is_mining>>
        /\ timeAdjustment' = timeAdjustment + seconds /\ seconds \in Nat
    BY <1>3, LimitsAssumption DEF evm_increaseTime
  <2>3. QED
    BY <1>0, <2>1, <2>2 DEF TypeOK, CallType
<1>4. ASSUME NEW id \in 0..(MaxSnapshots + 1), evm_revert(id)
      PROVE  TypeOK'
  <2>1. snapshots[id] \in Snapshot /\ id \in Nat \ {0}
    BY <1>0, <1>4 DEF evm_revert
  <2>a. snapshots[id].timeAdjustment \in Nat /\ <<>> \in Seq(Snapshot)
    BY <2>1 DEF Snapshot
  <2>2. Reverting(id, snapshots[id].timeAdjustment, <<>>) \in Requests
    BY <2>1, <2>a, RevertingType
  <2>3. CallType'
    BY <1>4, <2>2, CallTypeOfStep DEF evm_revert
  <2>4. UNCHANGED <<ledger, pending, snapshots, timeAdjustment, clock, is_mining>>
    BY <1>4 DEF evm_revert
  <2>5. QED
    BY <1>0, <2>3, <2>4 DEF TypeOK, CallType
<1>5. ASSUME NEW id \in 0..(MaxSnapshots + 1), RevertToNothing(id)
      PROVE  TypeOK'
  <2>1. [op |-> "abandoned"] \in Requests
    BY DEF Requests
  <2>2. CallType'
    BY <1>5, <2>1, CallTypeOfStep DEF RevertToNothing
  <2>3. UNCHANGED <<ledger, pending, snapshots, timeAdjustment, clock, is_mining>>
    BY <1>5 DEF RevertToNothing
  <2>4. QED
    BY <1>0, <2>2, <2>3 DEF TypeOK, CallType
<1>6. CASE evm_mine
  <2>1. MineBlocks("evm_mine", FALSE, 1, FALSE) \in Requests
    BY MineBlocksType
  <2>2. CallType'
    BY <1>6, <2>1, CallTypeOfStep DEF evm_mine
  <2>3. UNCHANGED <<ledger, pending, snapshots, timeAdjustment, clock, is_mining>>
    BY <1>6 DEF evm_mine
  <2>4. QED
    BY <1>0, <2>2, <2>3 DEF TypeOK, CallType
<1>7. CASE miner_start
  <2>1. MineBlocks("miner_start", TRUE, 0, FALSE) \in Requests
    BY MineBlocksType
  <2>2. ASSUME OnInterval PROVE CallType'
    <3>1. Respond("miner_start", "none")
      BY <1>7, <2>2 DEF miner_start
    <3>2. QED
      BY <1>a, <3>1, CallTypeOfStep
  <2>3. ASSUME ~OnInterval PROVE CallType'
    <3>1. Proceed(MineBlocks("miner_start", TRUE, 0, FALSE))
      BY <1>7, <2>3 DEF miner_start
    <3>2. QED
      BY <2>1, <3>1, CallTypeOfStep
  <2>4. CallType'
    BY <2>2, <2>3
  <2>5. /\ UNCHANGED <<ledger, pending, snapshots, timeAdjustment, clock>>
        /\ is_mining' = TRUE
    BY <1>7 DEF miner_start
  <2>6. QED
    BY <1>0, <2>4, <2>5 DEF TypeOK, CallType
<1>8. CASE miner_stop
  <2>1. CallType'
    BY <1>a, <1>8, CallTypeOfStep DEF miner_stop
  <2>2. /\ UNCHANGED <<ledger, pending, snapshots, timeAdjustment, clock>>
        /\ is_mining' = FALSE
    BY <1>8 DEF miner_stop
  <2>3. QED
    BY <1>0, <2>1, <2>2 DEF TypeOK, CallType
<1>9. CASE evm_snapshot
  <2>1. CallType'
    BY <1>a, <1>9, CallTypeOfStep DEF evm_snapshot
  <2>2. [blockNumber |-> Height, timeAdjustment |-> timeAdjustment] \in Snapshot
    BY <1>0 DEF Height, Snapshot
  <2>3. snapshots' \in Seq(Snapshot)
    BY <1>0, <1>9, <2>2 DEF evm_snapshot
  <2>4. UNCHANGED <<ledger, pending, timeAdjustment, clock, is_mining>>
    BY <1>9 DEF evm_snapshot
  <2>5. QED
    BY <1>0, <2>1, <2>3, <2>4 DEF TypeOK, CallType
<1>10. CASE MineBlock
  <2>1. LedgerType' /\ pending' \in Seq(Tx) /\ CallType'
    BY <1>10, MineBlockType
  <2>2. UNCHANGED <<snapshots, timeAdjustment, clock, is_mining>>
    BY <1>10 DEF MineBlock
  <2>3. QED
    BY <1>0, <2>1, <2>2 DEF TypeOK, CallType
<1>11. CASE FailBlock
  <2>1. pending' \in Seq(Tx) /\ CallType'
    BY <1>11, FailBlockType
  <2>2. UNCHANGED <<ledger, snapshots, timeAdjustment, clock, is_mining>>
    BY <1>11 DEF FailBlock
  <2>3. QED
    BY <1>0, <2>1, <2>2 DEF TypeOK, CallType
<1>12. CASE FinishMining
  <2>1. request \in Requests /\ request.op = "mine"
    BY <1>12 DEF TypeOK, FinishMining
  <2>2. request.call \in Methods
    BY <1>a, <2>1, MiningRequest
  <2>3. PICK err \in {"none", "runtime"} : Respond(request.call, err)
    BY <1>12 DEF FinishMining
  <2>4. CallType'
    BY <2>2, <2>3, RespondType DEF CallType
  <2>5. UNCHANGED <<ledger, pending, snapshots, timeAdjustment, clock, is_mining>>
    BY <1>12 DEF FinishMining
  <2>6. QED
    BY <1>0, <2>4, <2>5 DEF TypeOK, CallType
<1>13. CASE PopSnapshot
  <2>1. request.id \in Nat \ {0} /\ request.adjustment \in Nat
    BY <1>13, RevertingRequest DEF TypeOK, PopSnapshot
  <2>2. Len(snapshots) \in 1..Len(snapshots)
    BY <1>0, <1>13, <2>1 DEF PopSnapshot
  <2>3. <<snapshots[Len(snapshots)]>> \in Seq(Snapshot)
    BY <1>0, <2>2
  <2>4. CallType'
    BY <1>13, <2>1, <2>3, RevertingType, CallTypeOfStep DEF PopSnapshot
  <2>5. /\ UNCHANGED <<ledger, pending, timeAdjustment, clock, is_mining>>
        /\ snapshots' = SubSeq(snapshots, 1, Len(snapshots) - 1)
    BY <1>13 DEF PopSnapshot
  <2>6. snapshots' \in Seq(Snapshot)
    BY <1>0, <2>2, <2>5
  <2>7. QED
    BY <1>0, <2>4, <2>5, <2>6 DEF TypeOK, CallType
<1>14. CASE PopBlock
  <2>1. LedgerType'
    BY <1>14, PopBlockType
  <2>2. UNCHANGED <<pending, snapshots, timeAdjustment, clock, is_mining, request, reply>>
    BY <1>14 DEF PopBlock
  <2>3. QED
    BY <1>0, <2>1, <2>2 DEF TypeOK, CallType
<1>15. CASE SnapshotUnwound
  <2>1. /\ request.id \in Nat \ {0} /\ request.adjustment \in Nat
        /\ <<>> \in Seq(Snapshot)
    BY <1>15, RevertingRequest DEF TypeOK, SnapshotUnwound
  <2>2. Reverting(request.id, request.adjustment, <<>>) \in Requests
    BY <2>1, RevertingType
  <2>3. CallType'
    BY <1>15, <2>2, CallTypeOfStep DEF SnapshotUnwound
  <2>4. UNCHANGED <<ledger, pending, snapshots, timeAdjustment, clock, is_mining>>
    BY <1>15 DEF SnapshotUnwound
  <2>5. QED
    BY <1>0, <2>3, <2>4 DEF TypeOK, CallType
<1>16. CASE FinishRevert
  <2>1. request.adjustment \in Nat
    BY <1>16, RevertingRequest DEF TypeOK, FinishRevert
  <2>2. CallType'
    BY <1>a, <1>16, CallTypeOfStep DEF FinishRevert
  <2>3. /\ UNCHANGED <<ledger, snapshots, clock, is_mining>>
        /\ pending' = <<>> /\ timeAdjustment' = request.adjustment
    BY <1>16 DEF FinishRevert
  <2>4. QED
    BY <1>0, <2>1, <2>2, <2>3 DEF TypeOK, CallType
<1>17. CASE Tick
  BY <1>0, <1>17 DEF Tick, TypeOK
<1>18. CASE UNCHANGED vars
  BY <1>0, <1>18 DEF vars, TypeOK
<1>19. QED
  BY <1>1, <1>2, <1>3, <1>4, <1>5, <1>6, <1>7, <1>8, <1>9, <1>10, <1>11, <1>12,
     <1>13, <1>14, <1>15, <1>16, <1>17, <1>18 DEF Next, Call, Serve

(* The variables of the ledger, the pool, the snapshots and the request    *)
(* being served have their types.                                          *)
THEOREM TypeCorrect == Spec => []TypeOK
BY InitType, StepType, PTL DEF Spec
-----------------------------------------------------------------------------
(* The account state is the replay of the chain.                            *)

\* Only two steps touch the chain and the account state.
LEMMA LedgerSteps ==
  ASSUME [Next]_vars PROVE UNCHANGED <<blocks, stateRoot>> \/ MineBlock \/ PopBlock
BY DEF Next, Call, Serve, Tick, vars, ledger, eth_sendTransaction,
       RejectTransaction, evm_increaseTime, evm_revert, RevertToNothing, evm_mine,
       miner_start, miner_stop, evm_snapshot, FailBlock, FinishMining,
       PopSnapshot, SnapshotUnwound, FinishRevert

\* RootIsReplay, and the number of the genesis block it does not speak of.
Replayed ==
  /\ stateRoot = blocks[Len(blocks)].root
  /\ \A n \in 1..Len(blocks) : blocks[n].number = n - 1
  /\ \A n \in 2..Len(blocks) :
       blocks[n].root = RunBlock(blocks[n - 1].root, blocks[n].txs)

LEMMA ReplayedInit == Init => Replayed
BY DEF Init, Replayed

\* The block MineBlock makes: it is the next one, executed on the last.
LEMMA MinedBlock ==
  ASSUME TypeOK, MineBlock
  PROVE  \E txs \in Seq(Tx) :
           LET block == createBlock(txs)
           IN  /\ block \in Block
               /\ blocks' = Append(blocks, block)
               /\ stateRoot' = block.root
<1>0. PICK sorted \in PriceNonceOrders(pending) :
        \E cut \in BlockCuts(sorted, BlockGasLimit) :
          putBlock(createBlock(SubSeq(sorted, 1, cut)))
  BY DEF MineBlock
<1>1. PICK cut \in BlockCuts(sorted, BlockGasLimit) :
        putBlock(createBlock(SubSeq(sorted, 1, cut)))
  BY <1>0
<1>2. SubSeq(sorted, 1, cut) \in Seq(Tx)
  BY SortedType DEF TypeOK
<1>3. createBlock(SubSeq(sorted, 1, cut)) \in Block
  BY <1>2, CreateBlockType
<1>4. QED
  BY <1>1, <1>2, <1>3 DEF putBlock

LEMMA ReplayedStep == TypeOK /\ Replayed /\ [Next]_vars => Replayed'
<1> SUFFICES ASSUME TypeOK, Replayed, [Next]_vars PROVE Replayed'
  OBVIOUS
<1>1. blocks \in Seq(Block) /\ Len(blocks) \in Nat \ {0}
  BY DEF TypeOK
<1>2. CASE UNCHANGED <<blocks, stateRoot>>
  BY <1>2 DEF Replayed
<1>3. CASE MineBlock
  <2>1. PICK txs \in Seq(Tx) :
          /\ createBlock(txs) \in Block
          /\ blocks' = Append(blocks, createBlock(txs))
          /\ stateRoot' = createBlock(txs).root
    BY <1>3, MinedBlock
  <2>2. /\ createBlock(txs).number = Len(blocks)
        /\ createBlock(txs).root = RunBlock(blocks[Len(blocks)].root, txs)
        /\ createBlock(txs).txs = txs
    BY <1>1 DEF createBlock, latestBlock, Replayed
  <2> DEFINE block == createBlock(txs)
  <2>3. block.number = Len(blocks) /\ block.root = RunBlock(blocks[Len(blocks)].root, block.txs)
    BY <2>2
  <2>4. blocks' = Append(blocks, block) /\ stateRoot' = block.root /\ block \in Block
    BY <2>1
  <2> HIDE DEF block
  <2>5. /\ Len(blocks') = Len(blocks) + 1 /\ blocks'[Len(blocks) + 1] = block
        /\ \A n \in 1..Len(blocks) : blocks'[n] = blocks[n]
    BY <1>1, <2>4
  <2>6. \A n \in 1..Len(blocks') : blocks'[n].number = n - 1
    BY <1>1, <2>3, <2>5 DEF Replayed
  <2>7. \A n \in 2..Len(blocks') :
          blocks'[n].root = RunBlock(blocks'[n - 1].root, blocks'[n].txs)
    <3> SUFFICES ASSUME NEW n \in 2..Len(blocks')
                 PROVE  blocks'[n].root = RunBlock(blocks'[n - 1].root, blocks'[n].txs)
      OBVIOUS
    <3>1. CASE n = Len(blocks) + 1
      BY <1>1, <2>3, <2>5, <3>1
    <3>2. CASE n # Len(blocks) + 1
      <4>1. n \in 2..Len(blocks) /\ n - 1 \in 1..Len(blocks)
        BY <1>1, <2>5, <3>2
      <4>2. blocks'[n] = blocks[n] /\ blocks'[n - 1] = blocks[n - 1]
        BY <2>5, <4>1
      <4>3. QED
        BY <4>1, <4>2 DEF Replayed
    <3>3. QED
      BY <3>1, <3>2
  <2>8. QED
    BY <2>4, <2>5, <2>6, <2>7 DEF Replayed
<1>4. CASE PopBlock
  <2>1. Len(blocks) > 1
    BY <1>4, PopBlockType
  <2>2. /\ blocks' = SubSeq(blocks, 1, Len(blocks) - 1)
        /\ stateRoot' = blocks[Len(blocks) - 1].root
    BY <1>4 DEF PopBlock, popBlock
  <2>3. /\ Len(blocks') = Len(blocks) - 1
        /\ \A n \in 1..(Len(blocks) - 1) : blocks'[n] = blocks[n]
    BY <1>1, <2>1, <2>2
  <2>4. stateRoot' = blocks'[Len(blocks')].root
    BY <1>1, <2>1, <2>2, <2>3
  <2>5. \A n \in 1..Len(blocks') : blocks'[n].number = n - 1
    BY <1>1, <2>1, <2>3 DEF Replayed
  <2>6. \A n \in 2..Len(blocks') :
          blocks'[n].root = RunBlock(blocks'[n - 1].root, blocks'[n].txs)
    <3> SUFFICES ASSUME NEW n \in 2..Len(blocks')
                 PROVE  blocks'[n].root = RunBlock(blocks'[n - 1].root, blocks'[n].txs)
      OBVIOUS
    <3>1. n \in 2..Len(blocks) /\ n \in 1..(Len(blocks) - 1)
            /\ n - 1 \in 1..(Len(blocks) - 1)
      BY <1>1, <2>1, <2>3
    <3>2. QED
      BY <2>3, <3>1 DEF Replayed
  <2>7. QED
    BY <2>4, <2>5, <2>6 DEF Replayed
<1>5. QED
  BY <1>2, <1>3, <1>4, LedgerSteps

(* The account state is that of the last block, and every block's is what  *)
(* its transactions make of its parent's, for any accounts, transactions   *)
(* and bounds, and any mix of mining, failed blocks and reverts.           *)
THEOREM Replay == Spec => []RootIsReplay
<1>1. Replayed /\ TypeOK => RootIsReplay
  BY DEF Replayed, RootIsReplay, latestBlock, TypeOK
<1>2. QED
  BY <1>1, InitType, StepType, ReplayedInit, ReplayedStep, PTL DEF Spec
-----------------------------------------------------------------------------
(***************************************************************************)
(* What a revert takes back.                                               *)
(***************************************************************************)
(* The inductive invariant.  That blocks are made in order of time is not  *)
(* inductive: a revert lowers the time adjustment, and must have removed   *)
(* the blocks made with the higher one by then.                            *)

\* Blocks are made one after the other, the last not after now.
BlocksInTime ==
  /\ \A n \in 1..(Len(blocks) - 1) : blocks[n].time <= blocks[n + 1].time
  /\ blocks[Len(blocks)].time <= clock + timeAdjustment

\* The snapshots are of blocks of the chain, in its order, ...
SnapshotsInOrder ==
  /\ \A i \in DOMAIN snapshots : snapshots[i].blockNumber < Len(blocks)
  /\ \A i, j \in DOMAIN snapshots :
       i <= j => snapshots[i].blockNumber <= snapshots[j].blockNumber

\* ... and the time adjustment each keeps is not behind its block.
SnapshotsInTime ==
  \A i \in DOMAIN snapshots :
    blocks[snapshots[i].blockNumber + 1].time <= clock + snapshots[i].timeAdjustment

\* A snapshot is unwound before any that is left, and down to its own block.
UnwindingInOrder ==
  request.op = "revert" /\ request.unwinding # <<>> =>
    /\ request.unwinding[1].blockNumber < Len(blocks)
    /\ \A i \in DOMAIN snapshots :
         snapshots[i].blockNumber <= request.unwinding[1].blockNumber

\* The adjustment a revert restores is not behind the block it stops at: that
\* of its snapshot, while this is in the list and then while it is unwound.
RevertInTime ==
  request.op = "revert" =>
    /\ Len(snapshots) >= request.id =>
         request.adjustment = snapshots[request.id].timeAdjustment
    /\ Len(snapshots) < request.id /\ request.unwinding # <<>> =>
         blocks[request.unwinding[1].blockNumber + 1].time
           <= clock + request.adjustment
    /\ Len(snapshots) < request.id /\ request.unwinding = <<>> =>
         blocks[Len(blocks)].time <= clock + request.adjustment

InTime ==
  /\ BlocksInTime /\ SnapshotsInOrder /\ SnapshotsInTime
  /\ UnwindingInOrder /\ RevertInTime
-----------------------------------------------------------------------------
\* The numbers the invariant compares.
LEMMA TimeTypes ==
  ASSUME TypeOK
  PROVE  /\ blocks \in Seq(Block) /\ Len(blocks) \in Nat \ {0}
         /\ \A n \in 1..Len(blocks) : blocks[n].time \in Nat
         /\ snapshots \in Seq(Snapshot) /\ DOMAIN snapshots = 1..Len(snapshots)
         /\ Len(snapshots) \in Nat
         /\ \A i \in DOMAIN snapshots :
              /\ snapshots[i].blockNumber \in Nat
              /\ snapshots[i].timeAdjustment \in Nat
         /\ timeAdjustment \in Nat /\ clock \in Nat
<1>1. /\ blocks \in Seq(Block) /\ Len(blocks) \in Nat \ {0}
      /\ snapshots \in Seq(Snapshot) /\ timeAdjustment \in Nat /\ clock \in Nat
  BY DEF TypeOK
<1>2. \A n \in 1..Len(blocks) : blocks[n].time \in Nat
  <2> TAKE n \in 1..Len(blocks)
  <2>1. blocks[n] \in Block
    BY <1>1
  <2>2. QED
    BY <2>1 DEF Block
<1>3. \A i \in DOMAIN snapshots :
        snapshots[i].blockNumber \in Nat /\ snapshots[i].timeAdjustment \in Nat
  <2> TAKE i \in DOMAIN snapshots
  <2>1. snapshots[i] \in Snapshot
    BY <1>1
  <2>2. QED
    BY <2>1 DEF Snapshot
<1>4. QED
  BY <1>1, <1>2, <1>3

\* What a step that is not about time or reverts leaves alone.
Quiet ==
  /\ UNCHANGED <<blocks, stateRoot, snapshots, timeAdjustment, clock>>
  /\ request.op # "revert" /\ request'.op # "revert"

LEMMA TimeSteps ==
  ASSUME TypeOK, [Next]_vars
  PROVE  \/ Quiet \/ UNCHANGED vars \/ Tick
         \/ \E seconds \in Advances : evm_increaseTime(seconds)
         \/ \E id \in 0..(MaxSnapshots + 1) : evm_revert(id)
         \/ evm_snapshot \/ MineBlock \/ PopSnapshot \/ PopBlock
         \/ SnapshotUnwound \/ FinishRevert
<1>1. \A call, err : Respond(call, err) => request'.op # "revert"
  BY DEF Respond, Idle
<1>2. \A call, all, left, threw :
        Proceed(MineBlocks(call, all, left, threw)) => request'.op # "revert"
  BY DEF Proceed, MineBlocks
<1>0. request = Idle \/ request.op = "mine" => request.op # "revert"
  BY DEF Idle
<1>3. ASSUME NEW from \in Accounts, NEW shape \in Shapes,
             eth_sendTransaction(from, shape)
      PROVE  Quiet
  BY <1>0, <1>1, <1>2, <1>3 DEF eth_sendTransaction, Quiet, ledger
<1>4. ASSUME NEW from \in Accounts, NEW shape \in Shapes, NEW nonce \in 0..MaxNonce,
             RejectTransaction(from, shape, nonce)
      PROVE  Quiet
  BY <1>0, <1>1, <1>4 DEF RejectTransaction, Quiet, ledger
<1>5. evm_mine \/ miner_start \/ miner_stop => Quiet
  BY <1>0, <1>1, <1>2 DEF evm_mine, miner_start, miner_stop, Quiet, ledger
<1>6. FailBlock \/ FinishMining => Quiet
  BY <1>0, <1>1 DEF FailBlock, FinishMining, BlocksLeft, Quiet, ledger
<1>7. ASSUME NEW id \in 0..(MaxSnapshots + 1), RevertToNothing(id) PROVE Quiet
  BY <1>0, <1>7 DEF RevertToNothing, Proceed, Quiet, ledger
<1>8. QED
  BY <1>3, <1>4, <1>5, <1>6, <1>7 DEF Next, Call, Serve

LEMMA InTimeInit == Init => InTime
BY DEF Init, InTime, BlocksInTime, SnapshotsInOrder, SnapshotsInTime,
       UnwindingInOrder, RevertInTime, Idle

LEMMA QuietInTime == ASSUME InTime, Quiet PROVE InTime'
BY DEF Quiet, InTime, BlocksInTime, SnapshotsInOrder, SnapshotsInTime,
       UnwindingInOrder, RevertInTime

LEMMA StutterInTime == ASSUME InTime, UNCHANGED vars PROVE InTime'
BY DEF vars, ledger, InTime, BlocksInTime, SnapshotsInOrder, SnapshotsInTime,
       UnwindingInOrder, RevertInTime

LEMMA TickInTime == ASSUME TypeOK, InTime, Tick PROVE InTime'
<1>0. clock \in Nat /\ timeAdjustment \in Nat /\ blocks[Len(blocks)].time \in Nat
  BY TimeTypes
<1>1. /\ UNCHANGED <<blocks, snapshots, timeAdjustment, request>>
      /\ clock' = clock + 1
  BY DEF Tick, ledger
<1>2. BlocksInTime'
  <2>1. blocks[Len(blocks)].time <= clock + timeAdjustment
    BY DEF InTime, BlocksInTime
  <2>2. blocks'[Len(blocks')].time <= clock' + timeAdjustment'
    BY <1>0, <1>1, <2>1
  <2>3. QED
    BY <1>1, <2>2 DEF InTime, BlocksInTime
<1>3. SnapshotsInOrder' /\ UnwindingInOrder'
  BY <1>1 DEF InTime, SnapshotsInOrder, UnwindingInOrder
<1>4. SnapshotsInTime'
  <2> SUFFICES ASSUME NEW i \in DOMAIN snapshots
               PROVE  blocks[snapshots[i].blockNumber + 1].time
                        <= clock + 1 + snapshots[i].timeAdjustment
    BY <1>1 DEF SnapshotsInTime
  <2>1. snapshots[i].blockNumber + 1 \in 1..Len(blocks)
    BY TimeTypes DEF InTime, SnapshotsInOrder
  <2>2. /\ blocks[snapshots[i].blockNumber + 1].time \in Nat
        /\ snapshots[i].timeAdjustment \in Nat /\ clock \in Nat
    BY <2>1, TimeTypes
  <2>3. blocks[snapshots[i].blockNumber + 1].time
          <= clock + snapshots[i].timeAdjustment
    BY DEF InTime, SnapshotsInTime
  <2>4. QED
    BY <2>2, <2>3
<1>5. RevertInTime'
  <2> SUFFICES ASSUME request.op = "revert" PROVE RevertInTime'
    BY <1>1 DEF RevertInTime
  <2>1. request.id \in Nat \ {0} /\ request.adjustment \in Nat
    BY RevertingRequest DEF TypeOK
  <2>2. ASSUME Len(snapshots) < request.id, request.unwinding # <<>>
        PROVE  blocks[request.unwinding[1].blockNumber + 1].time
                 <= clock + 1 + request.adjustment
    <3>1. request.unwinding[1] \in Snapshot
      BY <2>2, RevertingRequest DEF TypeOK
    <3>2. request.unwinding[1].blockNumber + 1 \in 1..Len(blocks)
      <4>1. request.unwinding[1].blockNumber < Len(blocks)
        BY <2>2 DEF InTime, UnwindingInOrder
      <4>2. request.unwinding[1].blockNumber \in Nat
        BY <3>1 DEF Snapshot
      <4>3. Len(blocks) \in Nat
        BY TimeTypes
      <4>4. QED
        BY <4>1, <4>2, <4>3
    <3>3. blocks[request.unwinding[1].blockNumber + 1].time \in Nat
      BY <3>2, TimeTypes
    <3>4. blocks[request.unwinding[1].blockNumber + 1].time
            <= clock + request.adjustment
      BY <2>2 DEF InTime, RevertInTime
    <3>5. QED
      BY <1>0, <2>1, <3>3, <3>4
  <2>3. ASSUME Len(snapshots) < request.id, request.unwinding = <<>>
        PROVE  blocks[Len(blocks)].time <= clock + 1 + request.adjustment
    <3>1. blocks[Len(blocks)].time <= clock + request.adjustment
      BY <2>3 DEF InTime, RevertInTime
    <3>2. QED
      BY <1>0, <2>1, <3>1
  <2>4. Len(snapshots) >= request.id =>
          request.adjustment = snapshots[request.id].timeAdjustment
    BY DEF InTime, RevertInTime
  <2>5. QED
    BY <1>1, <2>2, <2>3, <2>4 DEF RevertInTime
<1>6. QED
  BY <1>2, <1>3, <1>4, <1>5 DEF InTime

LEMMA IncreaseInTime ==
  ASSUME TypeOK, InTime, NEW seconds \in Advances, evm_increaseTime(seconds)
  PROVE  InTime'
<1>1. /\ UNCHANGED <<blocks, snapshots, clock>> /\ seconds \in Nat
      /\ timeAdjustment' = timeAdjustment + seconds /\ request'.op # "revert"
  BY LimitsAssumption DEF evm_increaseTime, Respond, Idle, ledger
<1>2. BlocksInTime'
  <2>1. clock \in Nat /\ timeAdjustment \in Nat /\ blocks[Len(blocks)].time \in Nat
    BY TimeTypes
  <2>2. blocks[Len(blocks)].time <= clock + timeAdjustment
    BY DEF InTime, BlocksInTime
  <2>3. blocks'[Len(blocks')].time <= clock' + timeAdjustment'
    BY <1>1, <2>1, <2>2
  <2>4. QED
    BY <1>1, <2>3 DEF InTime, BlocksInTime
<1>3. QED
  BY <1>1, <1>2 DEF InTime, SnapshotsInOrder, SnapshotsInTime, UnwindingInOrder,
                    RevertInTime

LEMMA SnapshotInTime == ASSUME TypeOK, InTime, evm_snapshot PROVE InTime'
<1>1. /\ UNCHANGED <<blocks, timeAdjustment, clock>> /\ request'.op # "revert"
  BY DEF evm_snapshot, Respond, Idle, ledger
<1> DEFINE new == [blockNumber |-> Height, timeAdjustment |-> timeAdjustment]
<1>2. /\ snapshots' = Append(snapshots, new) /\ new.timeAdjustment = timeAdjustment
      /\ new.blockNumber = Len(blocks) - 1
  BY DEF evm_snapshot, Height
<1> HIDE DEF new
<1>3. /\ DOMAIN snapshots' = 1..(Len(snapshots) + 1)
      /\ snapshots'[Len(snapshots) + 1] = new
      /\ \A i \in 1..Len(snapshots) : snapshots'[i] = snapshots[i]
  BY <1>2, TimeTypes
<1>4. BlocksInTime'
  BY <1>1 DEF InTime, BlocksInTime
<1>5. SnapshotsInOrder'
  <2>1. \A i \in DOMAIN snapshots' : snapshots'[i].blockNumber < Len(blocks)
    BY <1>2, <1>3, TimeTypes DEF InTime, SnapshotsInOrder
  <2>2. \A i, j \in DOMAIN snapshots' :
          i <= j => snapshots'[i].blockNumber <= snapshots'[j].blockNumber
    BY <1>2, <1>3, TimeTypes DEF InTime, SnapshotsInOrder
  <2>3. QED
    BY <1>1, <2>1, <2>2 DEF SnapshotsInOrder
<1>6. SnapshotsInTime'
  <2>1. blocks[Len(blocks)].time <= clock + timeAdjustment
    BY DEF InTime, BlocksInTime
  <2>2. new.blockNumber + 1 = Len(blocks)
    BY <1>2, TimeTypes
  <2>3. QED
    BY <1>1, <1>2, <1>3, <2>1, <2>2, TimeTypes DEF InTime, SnapshotsInTime
<1>7. QED
  BY <1>1, <1>4, <1>5, <1>6 DEF InTime, UnwindingInOrder, RevertInTime
\* A block takes its time from now, so it is not before the last one, and the
\* blocks that are there stay.
LEMMA MineInTime == ASSUME TypeOK, InTime, MineBlock PROVE InTime'
<1>1. PICK txs \in Seq(Tx) :
        createBlock(txs) \in Block /\ blocks' = Append(blocks, createBlock(txs))
  BY MinedBlock
<1> DEFINE block == createBlock(txs)
<1>2. blocks' = Append(blocks, block) /\ block.time = clock + timeAdjustment
  BY <1>1 DEF createBlock, currentTime
<1> HIDE DEF block
<1>3. /\ Len(blocks') = Len(blocks) + 1 /\ blocks'[Len(blocks) + 1] = block
      /\ \A n \in 1..Len(blocks) : blocks'[n] = blocks[n]
  BY <1>2, TimeTypes
<1>4. UNCHANGED <<snapshots, timeAdjustment, clock>>
  BY DEF MineBlock
<1>5. request'.op # "revert"
  <2>1. PICK continuation : Proceed(continuation) /\ continuation.op = "mine"
    BY DEF MineBlock, MineBlocks
  <2>2. QED
    BY <2>1 DEF Proceed
<1>6. BlocksInTime'
  <2>1. blocks'[Len(blocks')].time <= clock' + timeAdjustment'
    BY <1>2, <1>3, <1>4, TimeTypes
  <2>2. ASSUME NEW n \in 1..(Len(blocks') - 1)
        PROVE  blocks'[n].time <= blocks'[n + 1].time
    <3>1. CASE n = Len(blocks)
      BY <1>2, <1>3, <3>1, TimeTypes DEF InTime, BlocksInTime
    <3>2. CASE n # Len(blocks)
      <4>1. n \in 1..(Len(blocks) - 1) /\ n + 1 \in 1..Len(blocks)
              /\ n \in 1..Len(blocks)
        BY <1>3, <3>2, TimeTypes
      <4>2. QED
        BY <1>3, <4>1 DEF InTime, BlocksInTime
    <3>3. QED
      BY <3>1, <3>2
  <2>3. QED
    BY <2>1, <2>2 DEF BlocksInTime
<1>7. SnapshotsInOrder'
  BY <1>3, <1>4, TimeTypes DEF InTime, SnapshotsInOrder
<1>8. SnapshotsInTime'
  <2> SUFFICES ASSUME NEW i \in DOMAIN snapshots
               PROVE  blocks'[snapshots[i].blockNumber + 1].time
                        <= clock + snapshots[i].timeAdjustment
    BY <1>4 DEF SnapshotsInTime
  <2>1. snapshots[i].blockNumber + 1 \in 1..Len(blocks)
    BY TimeTypes DEF InTime, SnapshotsInOrder
  <2>2. QED
    BY <1>3, <2>1 DEF InTime, SnapshotsInTime
<1>9. QED
  BY <1>5, <1>6, <1>7, <1>8 DEF InTime, UnwindingInOrder, RevertInTime

LEMMA RevertStartsInTime ==
  ASSUME TypeOK, InTime, NEW id \in Nat, evm_revert(id) PROVE InTime'
<1>1. /\ UNCHANGED <<blocks, snapshots, timeAdjustment, clock>>
      /\ id \in DOMAIN snapshots
      /\ request'.id = id /\ request'.unwinding = <<>>
      /\ request'.adjustment = snapshots[id].timeAdjustment
  BY DEF evm_revert, Proceed, Reverting, ledger
<1>2. Len(snapshots) >= id
  BY <1>1, TimeTypes
<1>3. RevertInTime'
  BY <1>1, <1>2, TimeTypes DEF RevertInTime
<1>4. UnwindingInOrder'
  BY <1>1 DEF UnwindingInOrder
<1>5. QED
  BY <1>1, <1>3, <1>4 DEF InTime, BlocksInTime, SnapshotsInOrder, SnapshotsInTime

\* The last snapshot moves from the list into the request.
LEMMA PopSnapshotInTime == ASSUME TypeOK, InTime, PopSnapshot PROVE InTime'
<1> DEFINE last == Len(snapshots)
<1>1. /\ UNCHANGED <<blocks, timeAdjustment, clock>>
      /\ snapshots' = SubSeq(snapshots, 1, last - 1)
      /\ request.op = "revert" /\ last >= request.id
      /\ request'.id = request.id /\ request'.adjustment = request.adjustment
      /\ request'.unwinding = <<snapshots[last]>>
  BY DEF PopSnapshot, Proceed, Reverting, ledger
<1>2. request.id \in Nat \ {0} /\ request.adjustment \in Nat
  BY <1>1, RevertingRequest DEF TypeOK
<1>3. last \in 1..Len(snapshots) /\ last \in Nat \ {0}
  BY <1>1, <1>2, TimeTypes
<1>4. /\ Len(snapshots') = last - 1 /\ DOMAIN snapshots' = 1..(last - 1)
      /\ \A i \in 1..(last - 1) : snapshots'[i] = snapshots[i]
  BY <1>1, <1>3, TimeTypes
<1>5. BlocksInTime'
  BY <1>1 DEF InTime, BlocksInTime
<1>6. SnapshotsInOrder'
  BY <1>1, <1>3, <1>4, TimeTypes DEF InTime, SnapshotsInOrder
<1>7. SnapshotsInTime'
  BY <1>1, <1>3, <1>4, TimeTypes DEF InTime, SnapshotsInTime
<1>8. UnwindingInOrder'
  <2>1. request'.unwinding[1] = snapshots[last]
    BY <1>1
  <2>2. snapshots[last].blockNumber < Len(blocks)
    BY <1>3, TimeTypes DEF InTime, SnapshotsInOrder
  <2>3. ASSUME NEW i \in DOMAIN snapshots'
        PROVE  snapshots'[i].blockNumber <= snapshots[last].blockNumber
    <3>1. /\ i \in DOMAIN snapshots /\ last \in DOMAIN snapshots /\ i <= last
          /\ snapshots'[i] = snapshots[i]
      BY <1>3, <1>4, TimeTypes
    <3>2. QED
      BY <3>1 DEF InTime, SnapshotsInOrder
  <2>4. QED
    BY <1>1, <2>1, <2>2, <2>3 DEF UnwindingInOrder
<1>9. RevertInTime'
  <2>1. request.adjustment = snapshots[request.id].timeAdjustment
    BY <1>1 DEF InTime, RevertInTime
  <2>2. ASSUME Len(snapshots') >= request'.id
        PROVE  request'.adjustment = snapshots'[request'.id].timeAdjustment
    <3>1. request.id \in 1..(last - 1)
      BY <1>1, <1>2, <1>3, <1>4, <2>2
    <3>2. QED
      BY <1>1, <1>4, <2>1, <3>1
  <2>3. ASSUME Len(snapshots') < request'.id
        PROVE  blocks[request'.unwinding[1].blockNumber + 1].time
                 <= clock + request'.adjustment
    <3>1. request.id = last
      BY <1>1, <1>2, <1>3, <1>4, <2>3
    <3>2. blocks[snapshots[last].blockNumber + 1].time
            <= clock + snapshots[last].timeAdjustment
      BY <1>3, TimeTypes DEF InTime, SnapshotsInTime
    <3>3. QED
      BY <1>1, <2>1, <3>1, <3>2
  <2>4. request'.unwinding # <<>>
    BY <1>1
  <2>5. QED
    BY <1>1, <2>2, <2>3, <2>4 DEF RevertInTime
<1>10. QED
  BY <1>5, <1>6, <1>7, <1>8, <1>9 DEF InTime

\* The last block goes; it was mined after every snapshot that is left.
LEMMA PopBlockInTime == ASSUME TypeOK, InTime, PopBlock PROVE InTime'
<1>1. /\ UNCHANGED <<snapshots, timeAdjustment, clock, request>>
      /\ request.op = "revert" /\ request.unwinding # <<>>
      /\ blocks' = SubSeq(blocks, 1, Len(blocks) - 1)
  BY DEF PopBlock, popBlock
<1>2. request.unwinding[1] \in Snapshot
  BY <1>1, RevertingRequest DEF TypeOK
<1>3. request.unwinding[1].blockNumber \in Nat
  BY <1>2 DEF Snapshot
<1>4. request.unwinding[1].blockNumber + 1 <= Len(blocks) - 1
  BY <1>3, TimeTypes DEF PopBlock, MinedSince, Height
<1>5. /\ Len(blocks') = Len(blocks) - 1 /\ Len(blocks') \in Nat \ {0}
      /\ \A n \in 1..(Len(blocks) - 1) : blocks'[n] = blocks[n]
  BY <1>1, <1>3, <1>4, TimeTypes
<1>6. \A i \in DOMAIN snapshots :
        snapshots[i].blockNumber + 1 \in 1..(Len(blocks) - 1)
  <2> TAKE i \in DOMAIN snapshots
  <2>1. snapshots[i].blockNumber <= request.unwinding[1].blockNumber
    BY <1>1 DEF InTime, UnwindingInOrder
  <2>2. snapshots[i].blockNumber \in Nat /\ Len(blocks) \in Nat
    BY TimeTypes
  <2>3. QED
    BY <1>3, <1>4, <2>1, <2>2
<1>7. blocks'[Len(blocks')].time <= blocks[Len(blocks)].time
  <2>1. Len(blocks) - 1 \in 1..(Len(blocks) - 1)
    BY <1>3, <1>4, TimeTypes
  <2>2. blocks[Len(blocks) - 1].time <= blocks[Len(blocks) - 1 + 1].time
    BY <2>1 DEF InTime, BlocksInTime
  <2>3. QED
    BY <1>5, <2>1, <2>2, TimeTypes
<1>8. BlocksInTime'
  <2>1. blocks'[Len(blocks')].time <= clock + timeAdjustment
    <3>1. Len(blocks) - 1 \in 1..Len(blocks)
      BY <1>3, <1>4, TimeTypes
    <3>2. blocks[Len(blocks) - 1].time \in Nat /\ blocks[Len(blocks)].time \in Nat
      BY <3>1, TimeTypes
    <3>3. blocks[Len(blocks)].time <= clock + timeAdjustment
      BY DEF InTime, BlocksInTime
    <3>4. blocks'[Len(blocks')] = blocks[Len(blocks) - 1]
      BY <1>5
    <3>5. QED
      BY <1>7, <3>2, <3>3, <3>4, TimeTypes
  <2>2. ASSUME NEW n \in 1..(Len(blocks') - 1)
        PROVE  blocks'[n].time <= blocks'[n + 1].time
    <3>1. /\ n \in 1..(Len(blocks) - 1) /\ blocks'[n] = blocks[n]
          /\ blocks'[n + 1] = blocks[n + 1]
      BY <1>5, TimeTypes
    <3>2. QED
      BY <3>1 DEF InTime, BlocksInTime
  <2>3. QED
    BY <1>1, <2>1, <2>2 DEF BlocksInTime
<1>9. SnapshotsInOrder'
  BY <1>1, <1>5, <1>6, TimeTypes DEF InTime, SnapshotsInOrder
<1>10. SnapshotsInTime'
  BY <1>1, <1>5, <1>6 DEF InTime, SnapshotsInTime
<1>11. UnwindingInOrder'
  BY <1>1, <1>3, <1>4, <1>5, TimeTypes DEF InTime, UnwindingInOrder
<1>12. RevertInTime'
  <2>1. request.unwinding[1].blockNumber + 1 \in 1..(Len(blocks) - 1)
    BY <1>3, <1>4, TimeTypes
  <2>2. blocks'[request.unwinding[1].blockNumber + 1]
          = blocks[request.unwinding[1].blockNumber + 1]
    BY <1>5, <2>1
  <2>3. QED
    BY <1>1, <2>2 DEF InTime, RevertInTime
<1>13. QED
  BY <1>8, <1>9, <1>10, <1>11, <1>12 DEF InTime

\* The inner loop stops exactly at the block of the snapshot.
LEMMA UnwoundInTime == ASSUME TypeOK, InTime, SnapshotUnwound PROVE InTime'
<1>1. /\ UNCHANGED <<blocks, snapshots, timeAdjustment, clock>>
      /\ request.op = "revert" /\ request.unwinding # <<>>
      /\ ~MinedSince(request.unwinding[1])
      /\ request'.id = request.id /\ request'.adjustment = request.adjustment
      /\ request'.unwinding = <<>>
  BY DEF SnapshotUnwound, Proceed, Reverting, ledger
<1>2. request.unwinding[1] \in Snapshot
  BY <1>1, RevertingRequest DEF TypeOK
<1>3. request.unwinding[1].blockNumber \in Nat
  BY <1>2 DEF Snapshot
<1>4. request.unwinding[1].blockNumber + 1 = Len(blocks)
  BY <1>1, <1>3, TimeTypes DEF InTime, UnwindingInOrder, MinedSince, Height
<1>5. RevertInTime'
  BY <1>1, <1>4 DEF InTime, RevertInTime
<1>6. QED
  BY <1>1, <1>5 DEF InTime, BlocksInTime, SnapshotsInOrder, SnapshotsInTime,
                    UnwindingInOrder

LEMMA FinishRevertInTime == ASSUME TypeOK, InTime, FinishRevert PROVE InTime'
<1>1. /\ UNCHANGED <<blocks, snapshots, clock>> /\ request'.op # "revert"
      /\ timeAdjustment' = request.adjustment
      /\ request.op = "revert" /\ request.unwinding = <<>>
      /\ Len(snapshots) < request.id
  BY DEF FinishRevert, Respond, Idle, ledger
<1>2. blocks[Len(blocks)].time <= clock + request.adjustment
  BY <1>1 DEF InTime, RevertInTime
<1>3. QED
  BY <1>1, <1>2 DEF InTime, BlocksInTime, SnapshotsInOrder, SnapshotsInTime,
                    UnwindingInOrder, RevertInTime

LEMMA InTimeStep == TypeOK /\ InTime /\ [Next]_vars => InTime'
<1> SUFFICES ASSUME TypeOK, InTime, [Next]_vars PROVE InTime'
  OBVIOUS
<1>1. \A id \in 0..(MaxSnapshots + 1) : id \in Nat
  BY LimitsAssumption
<1>2. QED
  BY <1>1, TimeSteps, QuietInTime, StutterInTime, TickInTime, IncreaseInTime,
     SnapshotInTime, MineInTime, RevertStartsInTime, PopSnapshotInTime,
     PopBlockInTime, UnwoundInTime, FinishRevertInTime

(* Time never runs backwards along the chain, for any advances of the      *)
(* clock, snapshots and reverts.                                           *)
THEOREM TimeOrdered == Spec => []TimeNeverRunsBack
<1>1. TypeOK /\ InTime => TimeNeverRunsBack
  <2> SUFFICES ASSUME TypeOK, InTime PROVE TimeNeverRunsBack
    OBVIOUS
  <2>1. ASSUME NEW n \in 2..Len(blocks)
        PROVE  blocks[n - 1].time <= blocks[n].time
    <3>1. n - 1 \in 1..(Len(blocks) - 1) /\ n - 1 + 1 = n
      BY TimeTypes
    <3>2. QED
      BY <3>1 DEF InTime, BlocksInTime
  <2>2. QED
    BY <2>1 DEF TimeNeverRunsBack, InTime, BlocksInTime, latestBlock, currentTime
<1>2. QED
  BY <1>1, InitType, StepType, InTimeInit, InTimeStep, PTL DEF Spec
-----------------------------------------------------------------------------
(* The refinement of SnapshotSpec.                                          *)

\* The state of the ledger the steps below start from.
Sound == TypeOK /\ Replayed /\ InTime

SavedEntry == [chain : Seq(Block), world : Root, adjustment : Nat]

-----------------------------------------------------------------------------
(* What a snapshot stands for.                                              *)

LEMMA PrefixType ==
  ASSUME TypeOK, NEW height \in Nat, height < Len(blocks)
  PROVE  /\ ChainUpTo(height) \in Seq(Block)
         /\ Len(ChainUpTo(height)) = height + 1
         /\ \A n \in 1..(height + 1) : ChainUpTo(height)[n] = blocks[n]
         /\ RootAt(height) \in Root
<1>1. \A n \in 1..(height + 1) : blocks[n] \in Block
  BY TimeTypes
<1>2. RootAt(height) \in Root
  <2>1. blocks[height + 1] \in Block
    BY <1>1
  <2>2. QED
    BY <2>1 DEF RootAt, Block
<1>3. height + 1 >= 1 /\ height + 1 \in Int /\ 1 \in Int
  OBVIOUS
<1>4. /\ SubSeq(blocks, 1, height + 1) \in Seq(Block)
      /\ Len(SubSeq(blocks, 1, height + 1)) = height + 1
      /\ \A n \in 1..(height + 1) : SubSeq(blocks, 1, height + 1)[n] = blocks[n]
  BY <1>1, <1>3, TimeTypes
<1>5. QED
  BY <1>2, <1>4 DEF ChainUpTo

\* A step that keeps the chain up to a height keeps what is saved there.
LEMMA PrefixKept ==
  ASSUME TypeOK, TypeOK', NEW height \in Nat,
         height < Len(blocks), height < Len(blocks'),
         \A n \in 1..(height + 1) : blocks'[n] = blocks[n]
  PROVE  ChainUpTo(height)' = ChainUpTo(height) /\ RootAt(height)' = RootAt(height)
<1>1. /\ SubSeq(blocks, 1, height + 1) \in Seq(Block)
      /\ Len(SubSeq(blocks, 1, height + 1)) = height + 1
      /\ \A n \in 1..(height + 1) : SubSeq(blocks, 1, height + 1)[n] = blocks[n]
  BY PrefixType DEF ChainUpTo
<1>2. blocks' \in Seq(Block) /\ Len(blocks') \in Nat
  BY DEF TypeOK
<1>3. /\ SubSeq(blocks', 1, height + 1) \in Seq(Block)
      /\ Len(SubSeq(blocks', 1, height + 1)) = height + 1
      /\ \A n \in 1..(height + 1) : SubSeq(blocks', 1, height + 1)[n] = blocks'[n]
  BY <1>2
<1>4. SubSeq(blocks', 1, height + 1) = SubSeq(blocks, 1, height + 1)
  BY <1>1, <1>3, SeqEqual
<1>5. blocks'[height + 1] = blocks[height + 1]
  OBVIOUS
<1>6. QED
  BY <1>4, <1>5 DEF ChainUpTo, RootAt

LEMMA WholeChain ==
  ASSUME Sound
  PROVE  ChainUpTo(Height) = blocks /\ RootAt(Height) = stateRoot
<1>1. Height + 1 = Len(blocks) /\ blocks \in Seq(Block)
  BY TimeTypes DEF Height, Sound
<1>2. SubSeq(blocks, 1, Len(blocks)) = blocks
  BY <1>1, SubSeqFull
<1>3. QED
  BY <1>1, <1>2 DEF ChainUpTo, RootAt, Sound, Replayed

LEMMA SavedType ==
  ASSUME Sound, NEW count \in 0..Len(snapshots)
  PROVE  /\ SavedUpTo(count) \in Seq(SavedEntry) /\ Len(SavedUpTo(count)) = count
         /\ \A i \in 1..count :
              SavedUpTo(count)[i] = [chain |-> ChainUpTo(snapshots[i].blockNumber),
                                     world |-> RootAt(snapshots[i].blockNumber),
                                     adjustment |-> snapshots[i].timeAdjustment]
<1>1. ASSUME NEW i \in 1..count
      PROVE  [chain      |-> ChainUpTo(snapshots[i].blockNumber),
              world      |-> RootAt(snapshots[i].blockNumber),
              adjustment |-> snapshots[i].timeAdjustment] \in SavedEntry
  <2>1. /\ i \in DOMAIN snapshots /\ snapshots[i].blockNumber \in Nat
        /\ snapshots[i].timeAdjustment \in Nat
        /\ snapshots[i].blockNumber < Len(blocks)
    <3>1. i \in DOMAIN snapshots
      BY TimeTypes DEF Sound
    <3>2. snapshots[i].blockNumber < Len(blocks)
      BY <3>1 DEF Sound, InTime, SnapshotsInOrder
    <3>3. snapshots[i].blockNumber \in Nat /\ snapshots[i].timeAdjustment \in Nat
      BY <3>1, TimeTypes DEF Sound
    <3>4. QED
      BY <3>1, <3>2, <3>3
  <2>2. QED
    BY <2>1, PrefixType DEF Sound, SavedEntry
<1>2. count \in Nat
  BY TimeTypes DEF Sound
<1>3. SavedUpTo(count) \in [1..count -> SavedEntry]
  BY <1>1 DEF SavedUpTo
<1>4. SavedUpTo(count) \in Seq(SavedEntry) /\ Len(SavedUpTo(count)) = count
  BY <1>2, <1>3
<1>5. QED
  BY <1>4 DEF SavedUpTo

\* A step that keeps some snapshots and the chain up to them keeps what they
\* stand for.
LEMMA SavedKept ==
  ASSUME Sound, Sound', NEW count \in 0..Len(snapshots),
         count <= Len(snapshots'),
         \A i \in 1..count : snapshots'[i] = snapshots[i],
         \A i \in 1..count : \A n \in 1..(snapshots[i].blockNumber + 1) :
           blocks'[n] = blocks[n]
  PROVE  SavedUpTo(count)' = SavedUpTo(count)
<1>1. ASSUME NEW i \in 1..count
      PROVE  /\ ChainUpTo(snapshots[i].blockNumber)' = ChainUpTo(snapshots[i].blockNumber)
             /\ RootAt(snapshots[i].blockNumber)' = RootAt(snapshots[i].blockNumber)
             /\ snapshots'[i].timeAdjustment = snapshots[i].timeAdjustment
  <2> DEFINE height == snapshots[i].blockNumber
  <2>1. i \in DOMAIN snapshots /\ height \in Nat /\ height < Len(blocks)
    BY TimeTypes DEF Sound, InTime, SnapshotsInOrder
  <2>2. i \in DOMAIN snapshots' /\ snapshots'[i].blockNumber < Len(blocks')
    <3>1. snapshots' \in Seq(Snapshot) /\ Len(snapshots') \in Nat
      BY DEF Sound, TypeOK
    <3>2. i \in DOMAIN snapshots'
      BY <3>1, TimeTypes DEF Sound
    <3>3. QED
      BY <3>2 DEF Sound, InTime, SnapshotsInOrder
  <2>3. snapshots'[i].blockNumber = height
    OBVIOUS
  <2>4. \A n \in 1..(height + 1) : blocks'[n] = blocks[n]
    OBVIOUS
  <2>5. TypeOK /\ TypeOK'
    BY DEF Sound
  <2>6. QED
    <3> HIDE DEF height
    <3>1. /\ SubSeq(blocks', 1, height + 1) = SubSeq(blocks, 1, height + 1)
          /\ blocks'[height + 1].root = blocks[height + 1].root
      BY <2>1, <2>2, <2>3, <2>4, <2>5, PrefixKept DEF ChainUpTo, RootAt
    <3>2. QED
      BY <2>3, <3>1 DEF ChainUpTo, RootAt, height
<1>2. QED
  BY <1>1 DEF SavedUpTo
-----------------------------------------------------------------------------
(* The steps.                                                               *)

\* The promised state, outside a revert and during one.
LEMMA ViewOutside ==
  ASSUME request.op # "revert"
  PROVE  /\ (IF IsReverting THEN ChainUpTo(RevertHeight) ELSE blocks) = blocks
         /\ (IF IsReverting THEN RootAt(RevertHeight) ELSE stateRoot) = stateRoot
         /\ (IF IsReverting THEN request.adjustment ELSE timeAdjustment)
              = timeAdjustment
         /\ Kept = Len(snapshots)
BY DEF IsReverting, Kept

LEMMA ViewInside ==
  ASSUME request.op = "revert"
  PROVE  /\ (IF IsReverting THEN ChainUpTo(RevertHeight) ELSE blocks)
              = ChainUpTo(RevertHeight)
         /\ (IF IsReverting THEN RootAt(RevertHeight) ELSE stateRoot)
              = RootAt(RevertHeight)
         /\ (IF IsReverting THEN request.adjustment ELSE timeAdjustment)
              = request.adjustment
         /\ Kept = IF request.id <= Len(snapshots) THEN request.id - 1
                   ELSE Len(snapshots)
BY DEF IsReverting, Kept

\* A revert ends at a block of the chain, no earlier than any it keeps.
LEMMA RevertHeightType ==
  ASSUME Sound, request.op = "revert"
  PROVE  RevertHeight \in Nat /\ RevertHeight < Len(blocks)
<1>1. request.id \in Nat \ {0} /\ request.unwinding \in Seq(Snapshot)
  BY RevertingRequest DEF Sound, TypeOK
<1>2. CASE Len(snapshots) >= request.id
  <2>1. request.id \in DOMAIN snapshots
    BY <1>1, <1>2, TimeTypes DEF Sound
  <2>2. QED
    BY <1>2, <2>1, TimeTypes DEF Sound, InTime, SnapshotsInOrder, RevertHeight
<1>3. CASE Len(snapshots) < request.id /\ request.unwinding # <<>>
  <2>1. request.unwinding[1] \in Snapshot
    BY <1>1, <1>3
  <2>2. request.unwinding[1].blockNumber \in Nat
    BY <2>1 DEF Snapshot
  <2>3. RevertHeight = request.unwinding[1].blockNumber
    BY <1>1, <1>3, TimeTypes DEF Sound, RevertHeight
  <2>4. QED
    BY <1>3, <2>2, <2>3 DEF Sound, InTime, UnwindingInOrder
<1>4. CASE Len(snapshots) < request.id /\ request.unwinding = <<>>
  <2>1. RevertHeight = Height
    BY <1>1, <1>4, TimeTypes DEF Sound, RevertHeight
  <2>2. QED
    BY <2>1, TimeTypes DEF Sound, Height
<1>5. QED
  BY <1>1, <1>2, <1>3, <1>4, TimeTypes DEF Sound

LEMMA KeptType ==
  ASSUME Sound PROVE Kept \in 0..Len(snapshots)
<1>1. CASE request.op = "revert"
  <2>1. request.id \in Nat \ {0}
    BY <1>1, RevertingRequest DEF Sound, TypeOK
  <2>2. QED
    BY <1>1, <2>1, ViewInside, TimeTypes DEF Sound
<1>2. CASE request.op # "revert"
  BY <1>2, ViewOutside, TimeTypes DEF Sound
<1>3. QED
  BY <1>1, <1>2

LEMMA PromisedInit == Init => Promised!Init
<1> SUFFICES ASSUME Init PROVE Promised!Init
  OBVIOUS
<1>1. request.op # "revert"
  BY DEF Init, Idle
<1>2. /\ blocks = <<[number |-> 0, time |-> 0, txs |-> <<>>, root |-> GenesisRoot]>>
      /\ stateRoot = GenesisRoot /\ timeAdjustment = 0 /\ snapshots = <<>>
  BY DEF Init
<1>3. Len(blocks) = 1 /\ stateRoot = blocks[1].root
  BY <1>2
<1>4. Kept = 0
  BY <1>1, <1>2, ViewOutside
<1>5. SavedUpTo(0) = <<>>
  BY DEF SavedUpTo
<1>6. QED
  BY <1>1, <1>2, <1>3, <1>4, <1>5, ViewOutside DEF Promised!Init, IsReverting

\* Between requests and while mining, what does not touch the chain, the
\* snapshots or the time adjustment does not touch what is promised.
LEMMA OutsideKeeps ==
  ASSUME Sound, Sound', request.op # "revert", request'.op # "revert",
         UNCHANGED <<blocks, stateRoot, snapshots, timeAdjustment>>
  PROVE  UNCHANGED Promised!vars
<1>1. Kept = Len(snapshots) /\ Kept' = Len(snapshots)
  BY ViewOutside DEF Kept, IsReverting
<1>2. SavedUpTo(Kept)' = SavedUpTo(Kept)
  BY <1>1 DEF SavedUpTo, ChainUpTo, RootAt
<1>3. QED
  BY <1>2 DEF Promised!vars, IsReverting

\* The three steps in a revert: what it will bring back is settled.
LEMMA InsideKeeps ==
  ASSUME Sound, Sound', request.op = "revert", request'.op = "revert",
         request'.adjustment = request.adjustment,
         Kept' = Kept, Kept <= Len(snapshots'),
         \A i \in 1..Kept : snapshots'[i] = snapshots[i],
         RevertHeight' = RevertHeight, RevertHeight < Len(blocks'),
         Len(blocks') <= Len(blocks),
         \A n \in 1..Len(blocks') : blocks'[n] = blocks[n]
  PROVE  UNCHANGED Promised!vars
<1>1. RevertHeight \in Nat /\ RevertHeight < Len(blocks)
  BY RevertHeightType
<1>2. Len(blocks') \in Nat /\ TypeOK /\ TypeOK'
  BY DEF Sound, TypeOK
<1>3. /\ SubSeq(blocks', 1, RevertHeight + 1) = SubSeq(blocks, 1, RevertHeight + 1)
      /\ blocks'[RevertHeight + 1].root = blocks[RevertHeight + 1].root
  <2>1. \A n \in 1..(RevertHeight + 1) : blocks'[n] = blocks[n]
    BY <1>1, <1>2
  <2>2. QED
    BY <1>1, <1>2, <2>1, PrefixKept DEF ChainUpTo, RootAt
<1>4. /\ ChainUpTo(RevertHeight)' = ChainUpTo(RevertHeight)
      /\ RootAt(RevertHeight)' = RootAt(RevertHeight)
  BY <1>3 DEF ChainUpTo, RootAt
<1>5. SavedUpTo(Kept)' = SavedUpTo(Kept)
  <2>1. Kept \in 0..Len(snapshots)
    BY KeptType
  <2>2. ASSUME NEW i \in 1..Kept
        PROVE  snapshots[i].blockNumber < Len(blocks')
    <3>1. snapshots' \in Seq(Snapshot) /\ Len(snapshots') \in Nat
      BY DEF Sound, TypeOK
    <3>2. i \in DOMAIN snapshots'
      BY <2>1, <3>1, TimeTypes DEF Sound
    <3>3. snapshots'[i].blockNumber < Len(blocks')
      BY <3>2 DEF Sound, InTime, SnapshotsInOrder
    <3>4. QED
      BY <3>3
  <2>3. \A i \in 1..Kept : \A n \in 1..(snapshots[i].blockNumber + 1) :
          blocks'[n] = blocks[n]
    <3> TAKE i \in 1..Kept
    <3>1. snapshots[i].blockNumber \in Nat
      BY <2>1, TimeTypes DEF Sound
    <3>2. QED
      BY <1>2, <2>2, <3>1
  <2>4. [i \in 1..Kept |->
           [chain      |-> SubSeq(blocks', 1, snapshots'[i].blockNumber + 1),
            world      |-> blocks'[snapshots'[i].blockNumber + 1].root,
            adjustment |-> snapshots'[i].timeAdjustment]] = SavedUpTo(Kept)
    BY <2>1, <2>3, SavedKept DEF SavedUpTo, ChainUpTo, RootAt
  <2>5. QED
    BY <2>4 DEF SavedUpTo, ChainUpTo, RootAt
<1>6. QED
  BY <1>4, <1>5 DEF Promised!vars, IsReverting

\* Mining extends the chain.
LEMMA MineIsMine ==
  ASSUME Sound, Sound', MineBlock PROVE Promised!Mine
<1>1. request.op # "revert" /\ request'.op # "revert"
  <2>1. PICK continuation : Proceed(continuation) /\ continuation.op = "mine"
    BY DEF MineBlock, MineBlocks
  <2>2. QED
    BY <2>1 DEF Proceed, MineBlock, BlocksLeft
<1>2. PICK txs \in Seq(Tx) :
        createBlock(txs) \in Block /\ blocks' = Append(blocks, createBlock(txs))
  BY MinedBlock DEF Sound
<1>3. blocks \in Seq(Block) /\ Len(blocks) \in Nat \ {0}
  BY TimeTypes DEF Sound
<1>4. /\ Len(blocks') = Len(blocks) + 1
      /\ \A n \in 1..Len(blocks) : blocks'[n] = blocks[n]
  BY <1>2, <1>3
<1>5. SubSeq(blocks', 1, Len(blocks)) = blocks
  <2>1. /\ SubSeq(blocks', 1, Len(blocks)) \in Seq(Block)
        /\ Len(SubSeq(blocks', 1, Len(blocks))) = Len(blocks)
        /\ \A n \in 1..Len(blocks) : SubSeq(blocks', 1, Len(blocks))[n] = blocks'[n]
    <3>1. blocks' \in Seq(Block)
      BY DEF Sound, TypeOK
    <3>2. QED
      BY <1>3, <1>4, <3>1
  <2>2. QED
    BY <1>3, <1>4, <2>1, SeqEqual
<1>6. stateRoot' = blocks'[Len(blocks')].root
  BY DEF Sound, Replayed
<1>7. UNCHANGED <<snapshots, timeAdjustment>>
  BY DEF MineBlock
<1>8. [i \in 1..Len(snapshots) |->
         [chain      |-> SubSeq(blocks', 1, snapshots'[i].blockNumber + 1),
          world      |-> blocks'[snapshots'[i].blockNumber + 1].root,
          adjustment |-> snapshots'[i].timeAdjustment]] = SavedUpTo(Len(snapshots))
  <2>1. \A i \in 1..Len(snapshots) : \A n \in 1..(snapshots[i].blockNumber + 1) :
          blocks'[n] = blocks[n]
    <3> TAKE i \in 1..Len(snapshots)
    <3>1. /\ snapshots[i].blockNumber \in Nat
          /\ snapshots[i].blockNumber < Len(blocks)
      BY TimeTypes DEF Sound, InTime, SnapshotsInOrder
    <3>2. QED
      BY <1>3, <1>4, <3>1
  <2>2. Len(snapshots) \in 0..Len(snapshots) /\ Len(snapshots) <= Len(snapshots')
    BY <1>7, TimeTypes DEF Sound
  <2>3. QED
    BY <1>7, <2>1, <2>2, SavedKept DEF SavedUpTo, ChainUpTo, RootAt
<1>9. SavedUpTo(Kept)' = SavedUpTo(Kept)
  <2>1. Kept = Len(snapshots) /\ Kept' = Len(snapshots)
    BY <1>1, <1>7, ViewOutside DEF Kept, IsReverting
  <2>2. QED
    BY <1>8, <2>1 DEF SavedUpTo, ChainUpTo, RootAt
<1>10. QED
  BY <1>1, <1>4, <1>5, <1>6, <1>7, <1>9 DEF Promised!Mine, IsReverting

\* evm_increaseTime only moves the time.
LEMMA IncreaseIsIncrease ==
  ASSUME Sound, NEW seconds \in Advances, evm_increaseTime(seconds)
  PROVE  Promised!IncreaseTime
<1>1. /\ request.op # "revert" /\ request'.op # "revert"
      /\ UNCHANGED <<blocks, stateRoot, snapshots>> /\ seconds \in Nat
      /\ timeAdjustment' = timeAdjustment + seconds
  BY LimitsAssumption DEF evm_increaseTime, Respond, Idle, ledger
<1>2. timeAdjustment' >= timeAdjustment
  BY <1>1, TimeTypes DEF Sound
<1>3. SavedUpTo(Kept)' = SavedUpTo(Kept)
  BY <1>1 DEF SavedUpTo, ChainUpTo, RootAt, Kept, IsReverting
<1>4. QED
  BY <1>1, <1>2, <1>3 DEF Promised!IncreaseTime, IsReverting

\* evm_snapshot saves the chain, the account state and the time adjustment.
LEMMA SnapshotIsSave ==
  ASSUME Sound, Sound', evm_snapshot PROVE Promised!Save
<1>1. /\ request.op # "revert" /\ request'.op # "revert"
      /\ UNCHANGED <<blocks, stateRoot, timeAdjustment>>
      /\ snapshots' = Append(snapshots, [blockNumber |-> Height,
                                         timeAdjustment |-> timeAdjustment])
  BY DEF evm_snapshot, Respond, Idle, ledger
<1> DEFINE last == Len(snapshots) + 1
           new  == [chain |-> blocks, world |-> stateRoot,
                    adjustment |-> timeAdjustment]
<1>2. /\ Len(snapshots') = last /\ last \in Nat
      /\ snapshots'[last].blockNumber = Height
      /\ snapshots'[last].timeAdjustment = timeAdjustment
      /\ \A i \in 1..Len(snapshots) : snapshots'[i] = snapshots[i]
  BY <1>1, TimeTypes DEF Sound
<1>3. Kept = Len(snapshots) /\ Kept' = last
  BY <1>1, <1>2, ViewOutside DEF Kept, IsReverting
<1>4. SubSeq(blocks, 1, Height + 1) = blocks /\ blocks[Height + 1].root = stateRoot
  BY WholeChain DEF ChainUpTo, RootAt
<1>5. /\ SavedUpTo(Len(snapshots)) \in Seq(SavedEntry)
      /\ Len(SavedUpTo(Len(snapshots))) = Len(snapshots)
      /\ \A i \in 1..Len(snapshots) :
           SavedUpTo(Len(snapshots))[i] =
             [chain      |-> SubSeq(blocks, 1, snapshots[i].blockNumber + 1),
              world      |-> blocks[snapshots[i].blockNumber + 1].root,
              adjustment |-> snapshots[i].timeAdjustment]
  <2>1. Len(snapshots) \in 0..Len(snapshots)
    BY TimeTypes DEF Sound
  <2>2. QED
    BY <2>1, SavedType DEF ChainUpTo, RootAt
<1>6. new \in SavedEntry
  BY DEF Sound, TypeOK, SavedEntry
<1> DEFINE saved2 == [i \in 1..last |->
                        [chain |-> SubSeq(blocks', 1, snapshots'[i].blockNumber + 1),
                         world |-> blocks'[snapshots'[i].blockNumber + 1].root,
                         adjustment |-> snapshots'[i].timeAdjustment]]
<1>7. saved2[last] = new /\ DOMAIN saved2 = 1..last
  <2>1. last \in 1..last
    BY TimeTypes DEF Sound
  <2>2. /\ SubSeq(blocks', 1, snapshots'[last].blockNumber + 1) = blocks
        /\ blocks'[snapshots'[last].blockNumber + 1].root = stateRoot
        /\ snapshots'[last].timeAdjustment = timeAdjustment
    <3> HIDE DEF last
    <3>1. QED
      BY <1>1, <1>2, <1>4
  <2>3. saved2[last] = [chain |-> SubSeq(blocks', 1, snapshots'[last].blockNumber + 1),
                        world |-> blocks'[snapshots'[last].blockNumber + 1].root,
                        adjustment |-> snapshots'[last].timeAdjustment]
    <3> HIDE DEF last
    <3>1. QED
      BY <2>1
  <2>4. QED
    BY <2>2, <2>3
<1>8. \A i \in 1..Len(snapshots) : saved2[i] = SavedUpTo(Len(snapshots))[i]
  BY <1>1, <1>2, <1>5
<1>9. saved2 = Append(SavedUpTo(Len(snapshots)), new)
  <2> HIDE DEF new
  <2>1. saved2 \in Seq(SavedEntry) /\ Len(saved2) = last
    <3>1. \A i \in 1..last : saved2[i] \in SavedEntry
      <4> HIDE DEF saved2
      <4>1. \A i \in 1..Len(snapshots) : saved2[i] \in SavedEntry
        BY <1>5, <1>8
      <4>2. QED
        BY <1>2, <1>6, <1>7, <4>1, TimeTypes DEF Sound
    <3>2. saved2 \in [1..last -> SavedEntry]
      BY <3>1
    <3>3. QED
      BY <1>2, <3>2
  <2> HIDE DEF saved2
  <2>2. /\ Append(SavedUpTo(Len(snapshots)), new) \in Seq(SavedEntry)
        /\ Len(Append(SavedUpTo(Len(snapshots)), new)) = last
        /\ Append(SavedUpTo(Len(snapshots)), new)[last] = new
        /\ \A i \in 1..Len(snapshots) :
             Append(SavedUpTo(Len(snapshots)), new)[i] = SavedUpTo(Len(snapshots))[i]
    BY <1>5, <1>6, AppendProperties
  <2>3. \A i \in 1..last :
          saved2[i] = Append(SavedUpTo(Len(snapshots)), new)[i]
    BY <1>2, <1>7, <1>8, <2>2, TimeTypes DEF Sound
  <2>4. QED
    BY <2>1, <2>2, <2>3, SeqEqual
<1>10. SavedUpTo(Kept)' = Append(SavedUpTo(Kept), new)
  BY <1>3, <1>9 DEF SavedUpTo, ChainUpTo, RootAt
<1>11. QED
  BY <1>1, <1>10 DEF Promised!Save, IsReverting

\* The turn that accepts evm_revert settles what it will bring back.
LEMMA RevertIsRestore ==
  ASSUME Sound, NEW id \in Nat, evm_revert(id) PROVE Promised!Restore
<1>1. /\ request.op # "revert" /\ request'.op = "revert"
      /\ UNCHANGED <<blocks, stateRoot, snapshots, timeAdjustment>>
      /\ id \in 1..Len(snapshots)
      /\ request'.id = id /\ request'.unwinding = <<>>
      /\ request'.adjustment = snapshots[id].timeAdjustment
  BY TimeTypes DEF evm_revert, Proceed, Reverting, Idle, ledger, Sound
<1>2. Kept = Len(snapshots) /\ Kept' = id - 1
  BY <1>1, ViewOutside, TimeTypes DEF Kept, IsReverting, Sound
<1>3. RevertHeight' = snapshots[id].blockNumber
  BY <1>1, TimeTypes DEF RevertHeight, Sound
<1>4. /\ SavedUpTo(Len(snapshots)) \in Seq(SavedEntry)
      /\ Len(SavedUpTo(Len(snapshots))) = Len(snapshots)
      /\ \A i \in 1..Len(snapshots) :
           SavedUpTo(Len(snapshots))[i] =
             [chain      |-> SubSeq(blocks, 1, snapshots[i].blockNumber + 1),
              world      |-> blocks[snapshots[i].blockNumber + 1].root,
              adjustment |-> snapshots[i].timeAdjustment]
  <2>1. Len(snapshots) \in 0..Len(snapshots)
    BY TimeTypes DEF Sound
  <2>2. QED
    BY <2>1, SavedType DEF ChainUpTo, RootAt
<1>5. /\ SavedUpTo(id - 1) \in Seq(SavedEntry) /\ Len(SavedUpTo(id - 1)) = id - 1
      /\ \A i \in 1..(id - 1) :
           SavedUpTo(id - 1)[i] =
             [chain      |-> SubSeq(blocks, 1, snapshots[i].blockNumber + 1),
              world      |-> blocks[snapshots[i].blockNumber + 1].root,
              adjustment |-> snapshots[i].timeAdjustment]
  <2>1. id - 1 \in 0..Len(snapshots)
    BY <1>1, TimeTypes DEF Sound
  <2>2. QED
    BY <2>1, SavedType DEF ChainUpTo, RootAt
<1>6. SavedUpTo(id - 1) = SubSeq(SavedUpTo(Len(snapshots)), 1, id - 1)
  <2>1. /\ SubSeq(SavedUpTo(Len(snapshots)), 1, id - 1) \in Seq(SavedEntry)
        /\ Len(SubSeq(SavedUpTo(Len(snapshots)), 1, id - 1)) = id - 1
        /\ \A i \in 1..(id - 1) : SubSeq(SavedUpTo(Len(snapshots)), 1, id - 1)[i]
                                  = SavedUpTo(Len(snapshots))[i]
    BY <1>1, <1>4
  <2>2. \A i \in 1..(id - 1) : SavedUpTo(id - 1)[i]
                             = SubSeq(SavedUpTo(Len(snapshots)), 1, id - 1)[i]
    <3> TAKE i \in 1..(id - 1)
    <3>1. i \in 1..Len(snapshots)
      BY <1>1, TimeTypes DEF Sound
    <3>2. SavedUpTo(id - 1)[i] = SavedUpTo(Len(snapshots))[i]
      BY <1>4, <1>5, <3>1
    <3>3. QED
      BY <2>1, <3>2
  <2>3. QED
    BY <1>5, <2>1, <2>2, SeqEqual
<1>7. SavedUpTo(Kept)' = SubSeq(SavedUpTo(Kept), 1, id - 1)
  <2>1. SavedUpTo(Kept)' = SavedUpTo(id - 1)
    BY <1>1, <1>2 DEF SavedUpTo, ChainUpTo, RootAt
  <2>2. QED
    BY <1>2, <1>6, <2>1
<1>8. /\ id \in DOMAIN SavedUpTo(Kept)
      /\ ChainUpTo(RevertHeight)' = SavedUpTo(Kept)[id].chain
      /\ RootAt(RevertHeight)' = SavedUpTo(Kept)[id].world
      /\ request'.adjustment = SavedUpTo(Kept)[id].adjustment
  <2>1. DOMAIN SavedUpTo(Kept) = 1..Len(snapshots)
    BY <1>2, <1>4
  <2>2. SavedUpTo(Kept)[id] =
          [chain      |-> SubSeq(blocks, 1, snapshots[id].blockNumber + 1),
           world      |-> blocks[snapshots[id].blockNumber + 1].root,
           adjustment |-> snapshots[id].timeAdjustment]
    BY <1>1, <1>2, <1>4
  <2>3. /\ ChainUpTo(RevertHeight)' = SubSeq(blocks, 1, snapshots[id].blockNumber + 1)
        /\ RootAt(RevertHeight)' = blocks[snapshots[id].blockNumber + 1].root
    BY <1>1, <1>3 DEF ChainUpTo, RootAt
  <2>4. id \in DOMAIN SavedUpTo(Kept)
    BY <1>1, <2>1
  <2>5. /\ SavedUpTo(Kept)[id].chain
              = SubSeq(blocks, 1, snapshots[id].blockNumber + 1)
        /\ SavedUpTo(Kept)[id].world = blocks[snapshots[id].blockNumber + 1].root
        /\ SavedUpTo(Kept)[id].adjustment = snapshots[id].timeAdjustment
    <3> DEFINE entry == SavedUpTo(Kept)[id]
               upTo  == SubSeq(blocks, 1, snapshots[id].blockNumber + 1)
               root  == blocks[snapshots[id].blockNumber + 1].root
               time  == snapshots[id].timeAdjustment
    <3>1. entry = [chain |-> upTo, world |-> root, adjustment |-> time]
      BY <2>2
    <3> HIDE DEF entry, upTo, root, time
    <3>2. entry.chain = upTo /\ entry.world = root /\ entry.adjustment = time
      BY <3>1
    <3>3. QED
      BY <3>2 DEF entry, upTo, root, time
  <2>6. QED
    BY <1>1, <2>3, <2>4, <2>5
<1>9. QED
  BY <1>1, <1>7, <1>8 DEF Promised!Restore, IsReverting

\* Popping a snapshot leaves those before the one reverted to, and that one is
\* being unwound when it has left the list.
LEMMA PopSnapshotKeeps ==
  ASSUME Sound, Sound', PopSnapshot PROVE UNCHANGED Promised!vars
<1> DEFINE last == Len(snapshots)
<1>1. /\ UNCHANGED <<blocks, timeAdjustment>>
      /\ snapshots' = SubSeq(snapshots, 1, last - 1)
      /\ request.op = "revert" /\ request'.op = "revert" /\ last >= request.id
      /\ request'.id = request.id /\ request'.adjustment = request.adjustment
      /\ request'.unwinding = <<snapshots[last]>>
  BY DEF PopSnapshot, Proceed, Reverting, ledger
<1>2. request.id \in Nat \ {0}
  BY <1>1, RevertingRequest DEF Sound, TypeOK
<1>3. last \in Nat \ {0} /\ blocks \in Seq(Block)
  BY <1>1, <1>2, TimeTypes DEF Sound
<1>4. /\ Len(snapshots') = last - 1
      /\ \A i \in 1..(last - 1) : snapshots'[i] = snapshots[i]
  BY <1>1, <1>3, TimeTypes DEF Sound
<1>5. Kept = request.id - 1 /\ Kept' = request.id - 1
  <2>1. Kept = request.id - 1
    BY <1>1, <1>2, <1>3, ViewInside
  <2>2. Kept' = IF request.id <= last - 1 THEN request.id - 1 ELSE last - 1
    BY <1>1, <1>4 DEF Kept, IsReverting
  <2>3. QED
    BY <1>1, <1>2, <1>3, <2>1, <2>2
<1>6. RevertHeight = snapshots[request.id].blockNumber
  BY <1>1 DEF RevertHeight
<1>7. RevertHeight' = snapshots[request.id].blockNumber
  <2>1. CASE request.id <= last - 1
    BY <1>1, <1>2, <1>3, <1>4, <2>1 DEF RevertHeight
  <2>2. CASE request.id > last - 1
    <3>1. request.id = last /\ ~(last - 1 >= last)
      BY <1>1, <1>2, <1>3, <2>2
    <3>2. RevertHeight' = request'.unwinding[1].blockNumber
      <4>1. ~(Len(snapshots') >= request'.id)
        BY <1>1, <1>4, <3>1
      <4>2. request'.unwinding # <<>>
        BY <1>1
      <4>3. QED
        BY <4>1, <4>2 DEF RevertHeight
    <3>3. QED
      BY <1>1, <3>1, <3>2
  <2>3. QED
    BY <1>2, <1>3, <2>1, <2>2
<1>8. RevertHeight < Len(blocks)
  BY <1>1, RevertHeightType
<1>9. Kept <= Len(snapshots') /\ \A i \in 1..Kept : snapshots'[i] = snapshots[i]
  BY <1>1, <1>2, <1>3, <1>4, <1>5
<1>10. QED
  BY <1>1, <1>3, <1>5, <1>6, <1>7, <1>8, <1>9, InsideKeeps

\* The block popped is above the one the revert ends at.
LEMMA PopBlockKeeps ==
  ASSUME Sound, Sound', PopBlock PROVE UNCHANGED Promised!vars
<1>1. /\ UNCHANGED <<snapshots, timeAdjustment, request>>
      /\ request.op = "revert" /\ request.unwinding # <<>>
      /\ blocks' = SubSeq(blocks, 1, Len(blocks) - 1)
  BY DEF PopBlock, popBlock
<1>2. request.id \in Nat \ {0} /\ request.unwinding[1] \in Snapshot
  BY <1>1, RevertingRequest DEF Sound, TypeOK
<1>3. /\ request.unwinding[1].blockNumber \in Nat
      /\ request.unwinding[1].blockNumber < Len(blocks) - 1
  BY <1>2, TimeTypes DEF Sound, PopBlock, MinedSince, Height, Snapshot
<1>4. /\ Len(blocks') = Len(blocks) - 1
      /\ \A n \in 1..(Len(blocks) - 1) : blocks'[n] = blocks[n]
  BY <1>1, <1>3, TimeTypes DEF Sound
<1>5. RevertHeight < Len(blocks) - 1 /\ RevertHeight' = RevertHeight
  <2>1. CASE Len(snapshots) >= request.id
    <3>1. request.id \in DOMAIN snapshots
      BY <1>2, <2>1, TimeTypes DEF Sound
    <3>2. snapshots[request.id].blockNumber <= request.unwinding[1].blockNumber
      BY <1>1, <3>1 DEF Sound, InTime, UnwindingInOrder
    <3>3. snapshots[request.id].blockNumber \in Nat
      BY <3>1, TimeTypes DEF Sound
    <3>4. RevertHeight = snapshots[request.id].blockNumber
            /\ RevertHeight' = snapshots[request.id].blockNumber
      BY <1>1, <2>1 DEF RevertHeight
    <3>5. QED
      BY <1>3, <3>2, <3>3, <3>4, TimeTypes DEF Sound
  <2>2. CASE ~(Len(snapshots) >= request.id)
    <3>1. RevertHeight = request.unwinding[1].blockNumber
            /\ RevertHeight' = request.unwinding[1].blockNumber
      BY <1>1, <2>2 DEF RevertHeight
    <3>2. QED
      BY <1>3, <3>1
  <2>3. QED
    BY <2>1, <2>2
<1>6. Kept' = Kept /\ Kept <= Len(snapshots')
  BY <1>1, KeptType, TimeTypes DEF Kept, IsReverting, Sound
<1>7. QED
  BY <1>1, <1>4, <1>5, <1>6, TimeTypes, InsideKeeps DEF Sound

\* A snapshot is unwound when its block is the last.
LEMMA UnwoundKeeps ==
  ASSUME Sound, Sound', SnapshotUnwound PROVE UNCHANGED Promised!vars
<1>1. /\ UNCHANGED <<blocks, snapshots, timeAdjustment>>
      /\ request.op = "revert" /\ request'.op = "revert"
      /\ request.unwinding # <<>> /\ ~MinedSince(request.unwinding[1])
      /\ request'.id = request.id /\ request'.adjustment = request.adjustment
      /\ request'.unwinding = <<>>
  BY DEF SnapshotUnwound, Proceed, Reverting, ledger
<1>2. request.unwinding[1] \in Snapshot
  BY <1>1, RevertingRequest DEF Sound, TypeOK
<1>3. request.unwinding[1].blockNumber \in Nat
  BY <1>2 DEF Snapshot
<1>4. request.unwinding[1].blockNumber = Height
  BY <1>1, <1>3, TimeTypes
     DEF Sound, InTime, UnwindingInOrder, MinedSince, Height
<1>5. RevertHeight' = RevertHeight
  BY <1>1, <1>4 DEF RevertHeight, Height
<1>6. Kept' = Kept
  BY <1>1 DEF Kept, IsReverting
<1>7. RevertHeight < Len(blocks) /\ Kept \in 0..Len(snapshots)
  BY <1>1, RevertHeightType, KeptType
<1>8. QED
  BY <1>1, <1>5, <1>6, <1>7, TimeTypes, InsideKeeps DEF Sound

\* When the handler answers, the ledger is what was promised.
LEMMA FinishIsAnswer ==
  ASSUME Sound, FinishRevert PROVE Promised!AnswerRestore
<1>1. /\ UNCHANGED <<blocks, stateRoot, snapshots>>
      /\ timeAdjustment' = request.adjustment
      /\ request.op = "revert" /\ request'.op # "revert"
      /\ request.unwinding = <<>> /\ Len(snapshots) < request.id
  BY DEF FinishRevert, Respond, Idle, ledger
<1>2. request.id \in Nat \ {0}
  BY <1>1, RevertingRequest DEF Sound, TypeOK
<1>3. RevertHeight = Height /\ Kept = Len(snapshots)
  BY <1>1, <1>2, ViewInside, TimeTypes DEF Sound, RevertHeight
<1>4. Kept' = Len(snapshots)
  BY <1>1 DEF Kept, IsReverting
<1>5. ChainUpTo(RevertHeight) = blocks /\ RootAt(RevertHeight) = stateRoot
  BY <1>3, WholeChain
<1>6. SavedUpTo(Kept)' = SavedUpTo(Kept)
  BY <1>1, <1>3, <1>4 DEF SavedUpTo, ChainUpTo, RootAt
<1>7. QED
  BY <1>1, <1>5, <1>6 DEF Promised!AnswerRestore, IsReverting

\* A tick of the clock, and a stuttering step, change nothing promised.
LEMMA NothingKeeps ==
  ASSUME UNCHANGED <<ledger, snapshots, timeAdjustment, request>>
  PROVE  UNCHANGED Promised!vars
<1>1. IsReverting' = IsReverting /\ RevertHeight' = RevertHeight /\ Kept' = Kept
  BY DEF ledger, IsReverting, RevertHeight, Height, Kept
<1>2. QED
  BY <1>1 DEF ledger, Promised!vars, SavedUpTo, ChainUpTo, RootAt

LEMMA SnapshotStep ==
  ASSUME Sound, Sound', [Next]_vars PROVE [Promised!Next]_(Promised!vars)
<1>1. TypeOK
  BY DEF Sound
<1>2. Quiet => UNCHANGED Promised!vars
  BY OutsideKeeps DEF Quiet
<1>3. Tick \/ UNCHANGED vars => UNCHANGED Promised!vars
  BY NothingKeeps DEF Tick, vars, ledger
<1>4. \A id \in 0..(MaxSnapshots + 1) : id \in Nat
  BY LimitsAssumption
<1>5. ASSUME NEW seconds \in Advances, evm_increaseTime(seconds)
      PROVE  Promised!Next
  BY <1>5, IncreaseIsIncrease DEF Promised!Next
<1>6. ASSUME NEW id \in 0..(MaxSnapshots + 1), evm_revert(id) PROVE Promised!Next
  BY <1>4, <1>6, RevertIsRestore DEF Promised!Next
<1>7. evm_snapshot \/ MineBlock => Promised!Next
  BY SnapshotIsSave, MineIsMine DEF Promised!Next
<1>8. PopSnapshot \/ PopBlock \/ SnapshotUnwound => UNCHANGED Promised!vars
  BY PopSnapshotKeeps, PopBlockKeeps, UnwoundKeeps
<1>9. FinishRevert => Promised!Next
  BY FinishIsAnswer DEF Promised!Next
<1>10. QED
  BY <1>1, <1>2, <1>3, <1>5, <1>6, <1>7, <1>8, <1>9, TimeSteps

(* evm_snapshot saves the whole ledger and evm_revert answers when it has  *)
(* brought back all of it, and no more: the ledger implements SnapshotSpec *)
(* (snapshot, revert, popBlock).                                           *)
THEOREM Snapshots == Spec => SnapshotsKept
<1>1. Init => Sound
  BY InitType, ReplayedInit, InTimeInit DEF Sound
<1>2. Sound /\ [Next]_vars => Sound'
  BY StepType, ReplayedStep, InTimeStep DEF Sound
<1>3. Sound /\ Sound' /\ [Next]_vars => [Promised!Next]_(Promised!vars)
  BY SnapshotStep
<1>4. QED
  BY <1>1, <1>2, <1>3, PromisedInit, PTL DEF Spec, SnapshotsKept, Promised!Spec
-----------------------------------------------------------------------------
(***************************************************************************)
(* Nonces.                                                                 *)
(***************************************************************************)
(* Counting transactions.                                                   *)

\* As many values as indices, when no two indices have the same.
LEMMA ImageOfInjective ==
  ASSUME NEW I, IsFiniteSet(I), NEW f, DOMAIN f = I,
         \A i, j \in I : f[i] = f[j] => i = j
  PROVE  /\ IsFiniteSet({f[i] : i \in I})
         /\ Cardinality({f[i] : i \in I}) = Cardinality(I)
<1> DEFINE T == {f[i] : i \in I}
<1>1. \A i \in I : f[i] \in T
  OBVIOUS
<1>2. \A t \in T : \E i \in I : f[i] = t
  OBVIOUS
<1>a. \E g \in [I -> T] : /\ \A i, j \in I : g[i] = g[j] => i = j
                          /\ \A t \in T : \E i \in I : g[i] = t
  <2> DEFINE g == [i \in I |-> f[i]]
  <2>1. g \in [I -> T] /\ \A i \in I : g[i] = f[i]
    BY <1>1
  <2> HIDE DEF g
  <2>2. \A i, j \in I : g[i] = g[j] => i = j
    BY <2>1
  <2>3. \A t \in T : \E i \in I : g[i] = t
    BY <1>2, <2>1
  <2>4. QED
    BY <2>1, <2>2, <2>3
<1> HIDE DEF T
<1>3. ExistsBijection(I, T)
  BY <1>a DEF ExistsBijection, Bijection, Injection, Surjection, IsInjective
<1>4. QED
  BY <1>3, FS_Bijection DEF T

LEMMA SentByFinite ==
  ASSUME NEW txs \in Seq(Tx), NEW a \in Accounts
  PROVE  /\ SentBy(txs, a) \subseteq 1..Len(txs)
         /\ IsFiniteSet(SentBy(txs, a)) /\ Cardinality(SentBy(txs, a)) \in Nat
<1>1. SentBy(txs, a) \subseteq 1..Len(txs)
  BY DEF SentBy
<1>2. IsFiniteSet(1..Len(txs))
  BY FS_Interval
<1>3. QED
  BY <1>1, <1>2, FS_Subset, FS_CardinalityType

\* A later transaction of the same sender has more before it.
LEMMA SentBeforeGrows ==
  ASSUME NEW txs \in Seq(Tx), NEW i \in DOMAIN txs
  PROVE  /\ IsFiniteSet(SentBefore(txs, i)) /\ Cardinality(SentBefore(txs, i)) \in Nat
         /\ Cardinality(SentBefore(txs, i)) < Cardinality(SentBy(txs, txs[i].from))
         /\ \A k \in DOMAIN txs : i < k /\ txs[k].from = txs[i].from =>
              Cardinality(SentBefore(txs, i)) < Cardinality(SentBefore(txs, k))
<1>0. txs[i] \in Tx
  OBVIOUS
<1>1. txs[i].from \in Accounts
  BY <1>0 DEF Tx
<1> DEFINE all == SentBy(txs, txs[i].from)
           before == SentBefore(txs, i)
<1>2. IsFiniteSet(all) /\ Cardinality(all) \in Nat
  BY <1>1, SentByFinite
<1>3. \A S \in SUBSET all : IsFiniteSet(S) /\ Cardinality(S) \in Nat
  BY <1>2, FS_Subset, FS_CardinalityType
<1>4. before \subseteq all /\ i \in all /\ i \notin before
  BY DEF SentBefore, SentBy
<1>5. \A S \in SUBSET all : before \subseteq S /\ i \in S =>
         Cardinality(before) < Cardinality(S)
  <2> SUFFICES ASSUME NEW S \in SUBSET all, before \subseteq S, i \in S
               PROVE  Cardinality(before) < Cardinality(S)
    OBVIOUS
  <2>1. IsFiniteSet(S) /\ Cardinality(S) \in Nat /\ Cardinality(before) \in Nat
    BY <1>3, <1>4
  <2>2. /\ Cardinality(before) <= Cardinality(S)
        /\ Cardinality(S) = Cardinality(before) => S = before
    BY <2>1, FS_Subset
  <2>3. S # before
    BY <1>4
  <2> HIDE DEF before
  <2>4. QED
    BY <2>1, <2>2, <2>3
<1>6. \A k \in DOMAIN txs : i < k /\ txs[k].from = txs[i].from =>
         SentBefore(txs, k) \in SUBSET all /\ before \subseteq SentBefore(txs, k)
           /\ i \in SentBefore(txs, k)
  BY DEF SentBefore, SentBy
<1>7. IsFiniteSet(before) /\ Cardinality(before) \in Nat
  BY <1>3, <1>4
<1> HIDE DEF before, all
<1>8. QED
  BY <1>4, <1>5, <1>6, <1>7 DEF before, all

\* What the VM accepts has consecutive nonces from that of the account on.
LEMMA AcceptedNonces ==
  ASSUME NEW root \in Root, NEW txs \in Seq(Tx), VMAccepts(root, txs),
         NEW i \in DOMAIN txs
  PROVE  /\ root.nonce[txs[i].from] <= txs[i].nonce
         /\ txs[i].nonce < RunBlock(root, txs).nonce[txs[i].from]
         /\ \A k \in DOMAIN txs : i < k /\ txs[k].from = txs[i].from =>
              txs[i].nonce < txs[k].nonce
<1>a. \A k \in DOMAIN txs : txs[k] \in Tx
  OBVIOUS
<1>b. \A a \in Accounts : root.nonce[a] \in Nat
  BY DEF Root
<1>1. /\ \A k \in DOMAIN txs : txs[k] \in Tx /\ txs[k].from \in Accounts
      /\ \A a \in Accounts : root.nonce[a] \in Nat
  BY <1>a, <1>b DEF Tx
<1>2. \A k \in DOMAIN txs :
        txs[k].nonce = root.nonce[txs[k].from] + Cardinality(SentBefore(txs, k))
  BY DEF VMAccepts
<1>3. \A k \in DOMAIN txs : Cardinality(SentBefore(txs, k)) \in Nat
  BY SentBeforeGrows
<1>4. /\ Cardinality(SentBefore(txs, i)) < Cardinality(SentBy(txs, txs[i].from))
      /\ \A k \in DOMAIN txs : i < k /\ txs[k].from = txs[i].from =>
           Cardinality(SentBefore(txs, i)) < Cardinality(SentBefore(txs, k))
  BY SentBeforeGrows
<1>5. RunBlock(root, txs).nonce[txs[i].from]
        = root.nonce[txs[i].from] + Cardinality(SentBy(txs, txs[i].from))
  BY <1>1 DEF RunBlock
<1>6. Cardinality(SentBy(txs, txs[i].from)) \in Nat
  BY <1>1, SentByFinite
<1>7. root.nonce[txs[i].from] <= txs[i].nonce
  BY <1>1, <1>2, <1>3
<1>8. txs[i].nonce < RunBlock(root, txs).nonce[txs[i].from]
  BY <1>1, <1>2, <1>3, <1>4, <1>5, <1>6
<1>9. ASSUME NEW k \in DOMAIN txs, i < k, txs[k].from = txs[i].from
      PROVE  txs[i].nonce < txs[k].nonce
  BY <1>1, <1>2, <1>3, <1>4, <1>9
<1>10. QED
  BY <1>7, <1>8, <1>9
-----------------------------------------------------------------------------
(* The chain.                                                               *)

\* The positions, in the first n blocks, of what an account has sent.
SentUpTo(n, account) ==
  {p \in (1..n) \X (1..MaxPool) : p[2] \in SentBy(blocks[p[1]].txs, account)}

\* Every block was accepted on the state of its parent.
BlocksAccepted ==
  /\ blocks[1].txs = <<>>
  /\ \A n \in 1..Len(blocks) : Len(blocks[n].txs) <= MaxPool
  /\ \A n \in 2..Len(blocks) : VMAccepts(blocks[n - 1].root, blocks[n].txs)

\* The nonce of an account is the number of its transactions so far.
NoncesCounted ==
  \A n \in 1..Len(blocks) : \A a \in Accounts :
    blocks[n].root.nonce[a] = Cardinality(SentUpTo(n, a))

ChainInv == TypeOK /\ Replayed /\ BlocksAccepted /\ NoncesCounted

LEMMA BlockTypes ==
  ASSUME TypeOK
  PROVE  /\ Len(blocks) \in Nat \ {0} /\ DOMAIN blocks = 1..Len(blocks)
         /\ \A n \in 1..Len(blocks) :
              /\ blocks[n] \in Block /\ blocks[n].root \in Root
              /\ blocks[n].txs \in Seq(Tx)
              /\ \A a \in Accounts : blocks[n].root.nonce[a] \in Nat
              /\ \A i \in DOMAIN blocks[n].txs :
                   blocks[n].txs[i] \in Tx /\ blocks[n].txs[i].from \in Accounts
<1>1. Len(blocks) \in Nat \ {0} /\ \A n \in 1..Len(blocks) : blocks[n] \in Block
  BY DEF TypeOK
<1>2. \A n \in 1..Len(blocks) : blocks[n].root \in Root /\ blocks[n].txs \in Seq(Tx)
  BY <1>1 DEF Block
<1>3. \A n \in 1..Len(blocks) : \A a \in Accounts : blocks[n].root.nonce[a] \in Nat
  BY <1>2 DEF Root
<1>4. ASSUME NEW n \in 1..Len(blocks), NEW i \in DOMAIN blocks[n].txs
      PROVE  blocks[n].txs[i] \in Tx /\ blocks[n].txs[i].from \in Accounts
  <2>1. blocks[n].txs[i] \in Tx
    BY <1>2
  <2>2. QED
    BY <2>1 DEF Tx
<1>5. DOMAIN blocks = 1..Len(blocks)
  BY DEF TypeOK
<1>6. QED
  BY <1>1, <1>2, <1>3, <1>4, <1>5

LEMMA SentUpToFinite ==
  ASSUME NEW n \in Nat, NEW a \in Accounts
  PROVE  IsFiniteSet(SentUpTo(n, a)) /\ Cardinality(SentUpTo(n, a)) \in Nat
<1>1. MaxPool \in Nat
  BY LimitsAssumption
<1>a. IsFiniteSet(1..n) /\ IsFiniteSet(1..MaxPool)
  BY <1>1, FS_Interval
<1>2. IsFiniteSet((1..n) \X (1..MaxPool))
  BY <1>a, FS_Product
<1>3. SentUpTo(n, a) \subseteq (1..n) \X (1..MaxPool)
  BY DEF SentUpTo
<1>4. QED
  BY <1>2, <1>3, FS_Subset, FS_CardinalityType

\* The nonce of an account does not go back along the chain.
LEMMA NoncesGrow ==
  ASSUME TypeOK, NoncesCounted, NEW n \in 1..Len(blocks), NEW m \in n..Len(blocks),
         NEW a \in Accounts
  PROVE  blocks[n].root.nonce[a] <= blocks[m].root.nonce[a]
<1>0. Len(blocks) \in Nat /\ m \in 1..Len(blocks) /\ n \in Nat /\ m \in Nat
  BY BlockTypes
<1>1. SentUpTo(n, a) \subseteq SentUpTo(m, a)
  BY <1>0 DEF SentUpTo
<1>2. IsFiniteSet(SentUpTo(m, a))
  BY <1>0, SentUpToFinite
<1>3. Cardinality(SentUpTo(n, a)) <= Cardinality(SentUpTo(m, a))
  BY <1>1, <1>2, FS_Subset
<1>4. QED
  BY <1>0, <1>3 DEF NoncesCounted

\* The nonces an account used lie between those the blocks around left it.
LEMMA NonceInBlock ==
  ASSUME ChainInv, NEW n \in 1..Len(blocks), NEW i \in DOMAIN blocks[n].txs
  PROVE  LET tx == blocks[n].txs[i]
         IN  /\ n > 1
             /\ blocks[n - 1].root.nonce[tx.from] <= tx.nonce
             /\ tx.nonce < blocks[n].root.nonce[tx.from]
             /\ \A k \in DOMAIN blocks[n].txs :
                  i < k /\ blocks[n].txs[k].from = tx.from =>
                    tx.nonce < blocks[n].txs[k].nonce
<1>0. TypeOK /\ Replayed /\ BlocksAccepted
  BY DEF ChainInv
<1>1. n # 1
  BY <1>0 DEF BlocksAccepted
<1>2. n \in 2..Len(blocks) /\ n - 1 \in 1..Len(blocks) /\ n > 1
  BY <1>0, <1>1, BlockTypes
<1>3. blocks[n - 1].root \in Root /\ blocks[n].txs \in Seq(Tx)
  BY <1>0, <1>2, BlockTypes
<1>4. VMAccepts(blocks[n - 1].root, blocks[n].txs)
  BY <1>0, <1>2 DEF BlocksAccepted
<1>5. blocks[n].root = RunBlock(blocks[n - 1].root, blocks[n].txs)
  BY <1>0, <1>2 DEF Replayed
<1>6. QED
  BY <1>2, <1>3, <1>4, <1>5, AcceptedNonces

\* No sender used a nonce twice on the chain.
LEMMA OnceOnChain ==
  ASSUME ChainInv, NEW n \in 1..Len(blocks), NEW m \in 1..Len(blocks),
         NEW i \in DOMAIN blocks[n].txs, NEW j \in DOMAIN blocks[m].txs,
         blocks[n].txs[i].from = blocks[m].txs[j].from,
         blocks[n].txs[i].nonce = blocks[m].txs[j].nonce
  PROVE  n = m /\ i = j
<1>0. TypeOK /\ NoncesCounted
  BY DEF ChainInv
<1>1. ASSUME NEW n1 \in 1..Len(blocks), NEW m1 \in 1..Len(blocks), n1 < m1,
             NEW i1 \in DOMAIN blocks[n1].txs, NEW j1 \in DOMAIN blocks[m1].txs,
             blocks[n1].txs[i1].from = blocks[m1].txs[j1].from
      PROVE  blocks[n1].txs[i1].nonce < blocks[m1].txs[j1].nonce
  <2>1. m1 - 1 \in n1..Len(blocks) /\ m1 - 1 \in 1..Len(blocks)
    BY <1>0, <1>1, BlockTypes
  <2> DEFINE a == blocks[n1].txs[i1].from
  <2>2. a \in Accounts /\ blocks[n1].txs[i1] \in Tx /\ blocks[m1].txs[j1] \in Tx
    BY <1>0, BlockTypes
  <2>3. blocks[n1].root.nonce[a] \in Nat /\ blocks[m1 - 1].root.nonce[a] \in Nat
    BY <1>0, <2>1, <2>2, BlockTypes
  <2>4. blocks[n1].txs[i1].nonce < blocks[n1].root.nonce[a]
    BY NonceInBlock
  <2>5. blocks[m1 - 1].root.nonce[a] <= blocks[m1].txs[j1].nonce
    BY <1>1, NonceInBlock
  <2>6. blocks[n1].root.nonce[a] <= blocks[m1 - 1].root.nonce[a]
    BY <1>0, <2>1, <2>2, NoncesGrow
  <2>7. blocks[n1].txs[i1].nonce \in Nat /\ blocks[m1].txs[j1].nonce \in Nat
    BY <2>2 DEF Tx
  <2> HIDE DEF a
  <2>8. QED
    BY <2>3, <2>4, <2>5, <2>6, <2>7
<1>2. blocks[n].txs[i] \in Tx /\ blocks[m].txs[j] \in Tx
  BY <1>0, BlockTypes
<1>3. blocks[n].txs[i].nonce \in Nat /\ blocks[m].txs[j].nonce \in Nat
  BY <1>2 DEF Tx
<1>4. ~(n < m) /\ ~(m < n)
  BY <1>1, <1>3
<1>5. n = m
  BY <1>4
<1>6. i \in Nat /\ j \in Nat
  <2>1. blocks[n].txs \in Seq(Tx) /\ blocks[m].txs \in Seq(Tx)
    BY <1>0, BlockTypes
  <2>2. QED
    BY <2>1
<1>7. (i < j => blocks[n].txs[i].nonce < blocks[n].txs[j].nonce)
        /\ (j < i => blocks[n].txs[j].nonce < blocks[n].txs[i].nonce)
  BY <1>5, NonceInBlock
<1>8. QED
  BY <1>3, <1>5, <1>6, <1>7
-----------------------------------------------------------------------------
(* The pool.                                                                *)

NoncesOf(pool, account) == {pool[i].nonce : i \in SentBy(pool, account)}

\* No nonce waits twice, none is executed already, and none is left out.
Consecutive(pool, root) ==
  /\ \A i, j \in DOMAIN pool :
       pool[i].from = pool[j].from /\ pool[i].nonce = pool[j].nonce => i = j
  /\ \A i \in DOMAIN pool : pool[i].nonce >= root.nonce[pool[i].from]
  /\ \A a \in Accounts : \A n, m \in NoncesOf(pool, a) : n..m \subseteq NoncesOf(pool, a)

\* A sorted pool: each sender's transactions by nonce.
ByNonce(pool) ==
  \A i, k \in DOMAIN pool :
    i < k /\ pool[i].from = pool[k].from => pool[i].nonce < pool[k].nonce

LEMMA PoolTypes ==
  ASSUME NEW pool \in Seq(Tx)
  PROVE  /\ DOMAIN pool = 1..Len(pool) /\ Len(pool) \in Nat
         /\ \A i \in DOMAIN pool : pool[i].from \in Accounts /\ pool[i].nonce \in Nat
         /\ \A a \in Accounts : NoncesOf(pool, a) \subseteq Nat
<1>1. \A i \in DOMAIN pool : pool[i] \in Tx
  OBVIOUS
<1>2. \A i \in DOMAIN pool : pool[i].from \in Accounts /\ pool[i].nonce \in Nat
  BY <1>1 DEF Tx
<1>3. QED
  BY <1>2 DEF NoncesOf, SentBy

\* Sorting a pool keeps what it holds, and orders it.
LEMMA SortKeepsConsecutive ==
  ASSUME NEW pool \in Seq(Tx), NEW root \in Root, Consecutive(pool, root),
         NEW sorted \in PriceNonceOrders(pool)
  PROVE  /\ sorted \in Seq(Tx) /\ Len(sorted) = Len(pool)
         /\ Range(sorted) = Range(pool)
         /\ Consecutive(sorted, root) /\ ByNonce(sorted)
<1>1. /\ sorted \in [1..Len(pool) -> Range(pool)]
      /\ Range(sorted) = Range(pool)
      /\ \A i, j \in DOMAIN sorted : sorted[i] = sorted[j] => i = j
      /\ \A i, k \in DOMAIN sorted :
           i < k /\ sorted[i].from = sorted[k].from => sorted[i].nonce <= sorted[k].nonce
  BY DEF PriceNonceOrders, IsReordering, IsPriceNonceOrder
<1>2. Range(pool) \subseteq Tx
  BY DEF Range
<1>3. sorted \in Seq(Tx) /\ Len(sorted) = Len(pool)
  BY <1>1, <1>2
<1>4. \A i \in DOMAIN sorted : \E h \in DOMAIN pool : sorted[i] = pool[h]
  BY <1>1 DEF Range
<1>5. \A h \in DOMAIN pool : \E i \in DOMAIN sorted : sorted[i] = pool[h]
  BY <1>1 DEF Range
<1>6. \A a \in Accounts : NoncesOf(sorted, a) = NoncesOf(pool, a)
  <2> SUFFICES ASSUME NEW a \in Accounts PROVE NoncesOf(sorted, a) = NoncesOf(pool, a)
    OBVIOUS
  <2>1. ASSUME NEW n \in NoncesOf(sorted, a) PROVE n \in NoncesOf(pool, a)
    <3>1. PICK i \in DOMAIN sorted : sorted[i].from = a /\ n = sorted[i].nonce
      BY <2>1 DEF NoncesOf, SentBy
    <3>2. PICK h \in DOMAIN pool : sorted[i] = pool[h]
      BY <1>4
    <3>3. QED
      BY <3>1, <3>2 DEF NoncesOf, SentBy
  <2>2. ASSUME NEW n \in NoncesOf(pool, a) PROVE n \in NoncesOf(sorted, a)
    <3>1. PICK h \in DOMAIN pool : pool[h].from = a /\ n = pool[h].nonce
      BY <2>2 DEF NoncesOf, SentBy
    <3>2. PICK i \in DOMAIN sorted : sorted[i] = pool[h]
      BY <1>5
    <3>3. QED
      BY <3>1, <3>2 DEF NoncesOf, SentBy
  <2>3. QED
    BY <2>1, <2>2
<1>7. ASSUME NEW i \in DOMAIN sorted, NEW j \in DOMAIN sorted,
             sorted[i].from = sorted[j].from, sorted[i].nonce = sorted[j].nonce
      PROVE  i = j
  <2>1. PICK h \in DOMAIN pool : sorted[i] = pool[h]
    BY <1>4
  <2>2. PICK k \in DOMAIN pool : sorted[j] = pool[k]
    BY <1>4
  <2>3. h = k
    BY <1>7, <2>1, <2>2 DEF Consecutive
  <2>4. QED
    BY <1>1, <2>1, <2>2, <2>3
<1>8. \A i \in DOMAIN sorted : sorted[i].nonce >= root.nonce[sorted[i].from]
  <2> TAKE i \in DOMAIN sorted
  <2>1. PICK h \in DOMAIN pool : sorted[i] = pool[h]
    BY <1>4
  <2>2. QED
    BY <2>1 DEF Consecutive
<1>9. Consecutive(sorted, root)
  <2>1. \A a \in Accounts : \A n, m \in NoncesOf(sorted, a) :
          n..m \subseteq NoncesOf(sorted, a)
    BY <1>6 DEF Consecutive
  <2>2. QED
    BY <1>7, <1>8, <2>1 DEF Consecutive
<1>10. ByNonce(sorted)
  <2> SUFFICES ASSUME NEW i \in DOMAIN sorted, NEW k \in DOMAIN sorted, i < k,
                      sorted[i].from = sorted[k].from
               PROVE  sorted[i].nonce < sorted[k].nonce
    BY DEF ByNonce
  <2>1. sorted[i].nonce \in Nat /\ sorted[k].nonce \in Nat /\ i \in Nat /\ k \in Nat
    BY <1>3, PoolTypes
  <2>2. sorted[i].nonce <= sorted[k].nonce
    BY <1>1
  <2>3. sorted[i].nonce # sorted[k].nonce
    BY <1>7, <2>1
  <2>4. QED
    BY <2>1, <2>2, <2>3
<1>11. QED
  BY <1>1, <1>3, <1>9, <1>10

\* The two parts of a pool that is cut.
LEMMA CutParts ==
  ASSUME NEW sorted \in Seq(Tx), NEW cut \in 0..Len(sorted)
  PROVE  /\ SubSeq(sorted, 1, cut) \in Seq(Tx)
         /\ DOMAIN SubSeq(sorted, 1, cut) = 1..cut
         /\ Len(SubSeq(sorted, 1, cut)) = cut
         /\ \A i \in 1..cut : SubSeq(sorted, 1, cut)[i] = sorted[i]
         /\ Remaining(sorted, cut) \in Seq(Tx)
         /\ Len(Remaining(sorted, cut)) = Len(sorted) - cut
         /\ DOMAIN Remaining(sorted, cut) = 1..(Len(sorted) - cut)
         /\ \A i \in 1..(Len(sorted) - cut) : Remaining(sorted, cut)[i] = sorted[cut + i]
BY DEF Remaining

\* What is left of a sorted pool is consecutive, on the state before the block
\* (which may fail) ...
LEMMA RemainingConsecutive ==
  ASSUME NEW sorted \in Seq(Tx), NEW root \in Root, Consecutive(sorted, root),
         ByNonce(sorted), NEW cut \in 0..Len(sorted)
  PROVE  Consecutive(Remaining(sorted, cut), root)
<1> DEFINE rest == Remaining(sorted, cut)
<1>a. DOMAIN sorted = 1..Len(sorted) /\ Len(sorted) \in Nat
        /\ \A i \in 1..(Len(sorted) - cut) : cut + i \in 1..Len(sorted)
  OBVIOUS
<1>1. /\ rest \in Seq(Tx) /\ DOMAIN rest = 1..(Len(sorted) - cut)
      /\ \A i \in DOMAIN rest : cut + i \in DOMAIN sorted /\ rest[i] = sorted[cut + i]
  BY <1>a, CutParts, Zenon
<1>2. \A k \in DOMAIN sorted : k > cut => k - cut \in DOMAIN rest /\ rest[k - cut] = sorted[k]
  BY <1>1
<1> HIDE DEF rest
<1>3. \A i, j \in DOMAIN rest :
        rest[i].from = rest[j].from /\ rest[i].nonce = rest[j].nonce => i = j
  <2> SUFFICES ASSUME NEW i \in DOMAIN rest, NEW j \in DOMAIN rest,
                      rest[i].from = rest[j].from, rest[i].nonce = rest[j].nonce
               PROVE  i = j
    OBVIOUS
  <2>1. cut + i = cut + j
    BY <1>1 DEF Consecutive
  <2>2. QED
    BY <1>1, <2>1
<1>4. \A i \in DOMAIN rest : rest[i].nonce >= root.nonce[rest[i].from]
  BY <1>1 DEF Consecutive
<1>5. ASSUME NEW a \in Accounts, NEW n \in NoncesOf(rest, a), NEW m \in NoncesOf(rest, a),
             NEW x \in n..m
      PROVE  x \in NoncesOf(rest, a)
  <2>1. PICK i \in DOMAIN rest : rest[i].from = a /\ n = rest[i].nonce
    BY <1>5 DEF NoncesOf, SentBy
  <2>2. n \in NoncesOf(sorted, a)
    BY <1>1, <2>1 DEF NoncesOf, SentBy
  <2>3. m \in NoncesOf(sorted, a)
    BY <1>1, <1>5 DEF NoncesOf, SentBy
  <2>4. x \in NoncesOf(sorted, a)
    BY <1>5, <2>2, <2>3 DEF Consecutive
  <2>5. PICK k \in DOMAIN sorted : sorted[k].from = a /\ x = sorted[k].nonce
    BY <2>4 DEF NoncesOf, SentBy
  <2>6. CASE k > cut
    BY <1>2, <2>5, <2>6 DEF NoncesOf, SentBy
  <2>7. CASE k <= cut
    <3>1. k < cut + i /\ cut + i \in DOMAIN sorted /\ sorted[cut + i] = rest[i]
      BY <1>1, <2>7
    <3>2. x < n
      BY <2>1, <2>5, <3>1 DEF ByNonce
    <3>3. n \in Nat /\ x \in Nat
      BY <2>1, <2>5, <1>1, PoolTypes
    <3>4. QED
      BY <1>5, <3>2, <3>3
  <2>8. k \in Int /\ cut \in Int
    BY <1>1
  <2>9. QED
    BY <2>6, <2>7, <2>8
<1>6. QED
  BY <1>3, <1>4, <1>5 DEF Consecutive, rest

\* ... and on the state it leaves: each sender's are taken from the first on.
LEMMA RemainingAfterBlock ==
  ASSUME NEW sorted \in Seq(Tx), NEW root \in Root, Consecutive(sorted, root),
         ByNonce(sorted), NEW cut \in 0..Len(sorted)
  PROVE  Consecutive(Remaining(sorted, cut), RunBlock(root, SubSeq(sorted, 1, cut)))
<1> DEFINE rest == Remaining(sorted, cut)
           txs == SubSeq(sorted, 1, cut)
           after == RunBlock(root, txs)
<1>1. Consecutive(rest, root)
  BY RemainingConsecutive
<1>a. DOMAIN sorted = 1..Len(sorted) /\ Len(sorted) \in Nat
        /\ \A i \in 1..(Len(sorted) - cut) : cut + i \in 1..Len(sorted)
  OBVIOUS
<1>2. /\ rest \in Seq(Tx)
      /\ \A i \in DOMAIN rest : cut + i \in DOMAIN sorted /\ rest[i] = sorted[cut + i]
                                 /\ i \in 1..(Len(sorted) - cut)
  BY <1>a, CutParts, Zenon
<1>3. /\ txs \in Seq(Tx) /\ DOMAIN txs = 1..cut
      /\ \A k \in DOMAIN txs : k \in DOMAIN sorted /\ txs[k] = sorted[k]
  BY CutParts
<1> HIDE DEF rest, txs
<1>4. ASSUME NEW i \in DOMAIN rest
      PROVE  rest[i].nonce >= after.nonce[rest[i].from]
  <2> DEFINE a == rest[i].from
             n == rest[i].nonce
             f == [k \in SentBy(txs, a) |-> txs[k].nonce]
             used == {f[k] : k \in SentBy(txs, a)}
  <2>1. a \in Accounts /\ n \in Nat
    BY <1>2, PoolTypes
  <2>2. root.nonce[a] \in Nat
    BY <2>1 DEF Root
  <2>3. IsFiniteSet(SentBy(txs, a)) /\ Cardinality(SentBy(txs, a)) \in Nat
    BY <1>3, <2>1, SentByFinite
  <2>4. after.nonce[a] = root.nonce[a] + Cardinality(SentBy(txs, a))
    BY <2>1 DEF RunBlock
  <2>5. n >= root.nonce[a]
    BY <1>1 DEF Consecutive
  <2>6. \A k \in SentBy(txs, a) :
          /\ k \in DOMAIN sorted /\ txs[k] = sorted[k] /\ sorted[k].from = a
          /\ k \in 1..cut
    BY <1>3 DEF SentBy
  <2>7. \A k \in SentBy(txs, a) : f[k] \in root.nonce[a]..(n - 1)
    <3> SUFFICES ASSUME NEW k \in SentBy(txs, a) PROVE f[k] \in root.nonce[a]..(n - 1)
      OBVIOUS
    <3>1. f[k] = sorted[k].nonce
      BY <2>6
    <3>2. sorted[k].nonce >= root.nonce[a] /\ sorted[k].nonce \in Nat
      BY <2>6, PoolTypes DEF Consecutive
    <3>3. k < cut + i /\ cut + i \in DOMAIN sorted /\ sorted[cut + i].nonce = n
            /\ sorted[cut + i].from = a
      BY <1>2, <2>6
    <3>4. sorted[k].nonce < n
      BY <2>6, <3>3 DEF ByNonce
    <3>5. QED
      BY <2>1, <2>2, <3>1, <3>2, <3>4
  <2>8. \A k, l \in SentBy(txs, a) : f[k] = f[l] => k = l
    <3> SUFFICES ASSUME NEW k \in SentBy(txs, a), NEW l \in SentBy(txs, a), f[k] = f[l]
                 PROVE  k = l
      OBVIOUS
    <3>1. sorted[k].nonce = sorted[l].nonce /\ sorted[k].from = sorted[l].from
      BY <2>6
    <3>2. QED
      BY <2>6, <3>1 DEF Consecutive
  <2>9. DOMAIN f = SentBy(txs, a)
    OBVIOUS
  <2>10. used \subseteq root.nonce[a]..(n - 1)
    BY <2>7
  <2> HIDE DEF f
  <2>11. IsFiniteSet(used) /\ Cardinality(used) = Cardinality(SentBy(txs, a))
    BY <2>3, <2>8, <2>9, ImageOfInjective
  <2>12. /\ IsFiniteSet(root.nonce[a]..(n - 1))
         /\ Cardinality(root.nonce[a]..(n - 1)) = n - root.nonce[a]
    <3>1. root.nonce[a] \in Int /\ n - 1 \in Int
      BY <2>1, <2>2
    <3>2. /\ IsFiniteSet(root.nonce[a]..(n - 1))
          /\ Cardinality(root.nonce[a]..(n - 1)) =
               IF root.nonce[a] > n - 1 THEN 0 ELSE (n - 1) - root.nonce[a] + 1
      BY <3>1, FS_Interval
    <3> HIDE DEF n, a
    <3>3. QED
      BY <2>1, <2>2, <2>5, <3>2
  <2>13. Cardinality(used) <= n - root.nonce[a]
    <3> HIDE DEF used, n, a
    <3>1. Cardinality(used) <= Cardinality(root.nonce[a]..(n - 1))
      BY <2>10, <2>12, FS_Subset
    <3>2. QED
      BY <2>12, <3>1
  <2> HIDE DEF used, n, a, after
  <2>14. n >= after.nonce[a]
    BY <2>1, <2>2, <2>3, <2>4, <2>11, <2>13
  <2>15. QED
    BY <2>14 DEF n, a
<1>5. QED
  BY <1>1, <1>4 DEF Consecutive, rest, txs
\* The transaction a client sends takes the next place of its sender.
LEMMA QueuedConsecutive ==
  ASSUME NEW pool \in Seq(Tx), NEW root \in Root, Consecutive(pool, root),
         NEW tx \in Tx, tx.nonce \in QueuedNonce(pool, root, tx.from)
  PROVE  Consecutive(Append(pool, tx), root)
<1> DEFINE longer == Append(pool, tx)
           a == tx.from
           new == Len(pool) + 1
<1>1. /\ DOMAIN longer = DOMAIN pool \cup {new} /\ new \notin DOMAIN pool
      /\ longer[new] = tx /\ \A i \in DOMAIN pool : longer[i] = pool[i]
  OBVIOUS
<1>2. a \in Accounts /\ tx.nonce \in Nat /\ root.nonce[a] \in Nat
  <2>1. a \in Accounts /\ tx.nonce \in Nat
    BY DEF Tx
  <2>2. QED
    BY <2>1 DEF Root
<1>3. /\ NoncesOf(pool, a) \subseteq Nat
      /\ \A i \in DOMAIN pool : pool[i].from \in Accounts /\ pool[i].nonce \in Nat
  BY <1>2, PoolTypes
<1>4. QueuedNonce(pool, root, a) =
        IF NoncesOf(pool, a) = {} THEN {root.nonce[a]}
        ELSE {q + 1 : q \in {h \in NoncesOf(pool, a) :
                               \A other \in NoncesOf(pool, a) : other <= h}}
  BY DEF QueuedNonce, NoncesOf, SentBy
<1> HIDE DEF longer, new
<1>5. /\ \A n \in NoncesOf(pool, a) : n < tx.nonce
      /\ tx.nonce >= root.nonce[a]
      /\ \A n \in NoncesOf(pool, a) :
           n..tx.nonce \subseteq NoncesOf(pool, a) \cup {tx.nonce}
  <2>1. CASE NoncesOf(pool, a) = {}
    BY <1>2, <1>4, <2>1
  <2>2. CASE NoncesOf(pool, a) # {}
    <3>1. PICK q \in NoncesOf(pool, a) : /\ \A other \in NoncesOf(pool, a) : other <= q
                                         /\ tx.nonce = q + 1
      BY <1>4, <2>2
    <3>2. q \in Nat
      BY <1>3
    <3>3. q >= root.nonce[a]
      <4>1. PICK i \in DOMAIN pool : pool[i].from = a /\ q = pool[i].nonce
        BY DEF NoncesOf, SentBy
      <4>2. QED
        BY <4>1 DEF Consecutive
    <3>4. ASSUME NEW n \in NoncesOf(pool, a)
          PROVE  n < tx.nonce /\ n..tx.nonce \subseteq NoncesOf(pool, a) \cup {tx.nonce}
      <4>1. n..q \subseteq NoncesOf(pool, a)
        BY <1>2 DEF Consecutive
      <4>2. n \in Nat /\ n <= q
        BY <1>3, <3>1
      <4>3. QED
        BY <3>1, <3>2, <4>1, <4>2
    <3>5. tx.nonce >= root.nonce[a]
      BY <1>2, <3>1, <3>2, <3>3
    <3>6. QED
      BY <3>4, <3>5
  <2>3. QED
    BY <2>1, <2>2
<1>6. /\ NoncesOf(longer, a) = NoncesOf(pool, a) \cup {tx.nonce}
      /\ \A b \in Accounts : b # a => NoncesOf(longer, b) = NoncesOf(pool, b)
  <2>1. SentBy(longer, a) = SentBy(pool, a) \cup {new}
    BY <1>1 DEF SentBy
  <2>2. \A b \in Accounts : b # a => SentBy(longer, b) = SentBy(pool, b)
    BY <1>1 DEF SentBy
  <2>3. \A b \in Accounts : \A i \in SentBy(pool, b) : longer[i].nonce = pool[i].nonce
    BY <1>1 DEF SentBy
  <2>4. longer[new].nonce = tx.nonce
    BY <1>1
  <2> HIDE DEF a
  <2>5. NoncesOf(longer, a) = NoncesOf(pool, a) \cup {tx.nonce}
    BY <1>2, <2>1, <2>3, <2>4 DEF NoncesOf
  <2>6. \A b \in Accounts : b # a => NoncesOf(longer, b) = NoncesOf(pool, b)
    BY <2>2, <2>3 DEF NoncesOf
  <2>7. QED
    BY <2>5, <2>6
<1>7. \A i, j \in DOMAIN longer :
        longer[i].from = longer[j].from /\ longer[i].nonce = longer[j].nonce => i = j
  <2>1. \A i \in DOMAIN pool : pool[i].from = a => pool[i].nonce < tx.nonce
    BY <1>5 DEF NoncesOf, SentBy
  <2>2. \A i \in DOMAIN pool : pool[i].from = a => pool[i].nonce # tx.nonce
    BY <1>2, <1>3, <2>1
  <2>3. \A i, j \in DOMAIN pool :
          pool[i].from = pool[j].from /\ pool[i].nonce = pool[j].nonce => i = j
    BY DEF Consecutive
  <2>4. QED
    BY <1>1, <2>2, <2>3
<1>8. \A i \in DOMAIN longer : longer[i].nonce >= root.nonce[longer[i].from]
  BY <1>1, <1>5 DEF Consecutive
<1>9. ASSUME NEW b \in Accounts, NEW n \in NoncesOf(longer, b), NEW m \in NoncesOf(longer, b)
      PROVE  n..m \subseteq NoncesOf(longer, b)
  <2>1. CASE b # a
    BY <1>6, <1>9, <2>1 DEF Consecutive
  <2>2. CASE b = a
    <3>1. CASE n \in NoncesOf(pool, a) /\ m \in NoncesOf(pool, a)
      BY <1>2, <1>6, <2>2, <3>1 DEF Consecutive
    <3>2. CASE n \in NoncesOf(pool, a) /\ m = tx.nonce
      BY <1>5, <1>6, <2>2, <3>2
    <3>3. CASE n = tx.nonce /\ m \in NoncesOf(pool, a)
      <4>1. m < n /\ m \in Nat /\ n \in Nat
        BY <1>2, <1>3, <1>5, <3>3
      <4>2. n..m = {}
        BY <4>1
      <4>3. QED
        BY <4>2
    <3>4. CASE n = tx.nonce /\ m = tx.nonce
      <4>1. n..m = {tx.nonce}
        BY <1>2, <3>4
      <4>2. QED
        BY <1>6, <2>2, <4>1
    <3>5. QED
      BY <1>6, <1>9, <2>2, <3>1, <3>2, <3>3, <3>4
  <2>3. QED
    BY <2>1, <2>2
<1>10. QED
  BY <1>7, <1>8, <1>9 DEF Consecutive, longer
-----------------------------------------------------------------------------
(* The receipts.                                                            *)

\* ReceiptsExact, position by position.
ReceiptsSound ==
  /\ \A n \in 1..Len(blocks) : \A i \in DOMAIN blocks[n].txs :
       /\ blocks[n].txs[i] \in DOMAIN receipts
       /\ receipts[blocks[n].txs[i]] =
            [block |-> n - 1, index |-> i,
             status |-> IF blocks[n].txs[i].fate = "throws" THEN 0 ELSE 1]
  /\ \A tx \in DOMAIN receipts :
       \E n \in 1..Len(blocks) : \E i \in DOMAIN blocks[n].txs : blocks[n].txs[i] = tx

LEMMA ReceiptsSoundIsExact == ASSUME TypeOK, ReceiptsSound PROVE ReceiptsExact
<1>0. DOMAIN blocks = 1..Len(blocks)
  BY BlockTypes
<1>1. \A n : \A tx : tx \in Range(blocks[n].txs)
                     <=> \E i \in DOMAIN blocks[n].txs : blocks[n].txs[i] = tx
  BY DEF Range
<1>3. \A tx : tx \in DOMAIN receipts
              <=> tx \in UNION {Range(blocks[n].txs) : n \in DOMAIN blocks}
  <2> DEFINE mined == UNION {Range(blocks[n].txs) : n \in DOMAIN blocks}
  <2> SUFFICES ASSUME NEW tx PROVE tx \in DOMAIN receipts <=> tx \in mined
    OBVIOUS
  <2>1. tx \in mined <=> \E n \in 1..Len(blocks) : \E i \in DOMAIN blocks[n].txs :
                           blocks[n].txs[i] = tx
    <3>1. tx \in mined <=> \E n \in 1..Len(blocks) : tx \in Range(blocks[n].txs)
      BY <1>0, Zenon
    <3>2. QED
      BY <1>1, <3>1, Zenon
  <2> HIDE DEF mined
  <2>2. QED
    BY <2>1 DEF ReceiptsSound
<1>4. DOMAIN receipts = UNION {Range(blocks[n].txs) : n \in DOMAIN blocks}
  BY <1>3
<1>5. \A n \in DOMAIN blocks : \A i \in DOMAIN blocks[n].txs :
        receipts[blocks[n].txs[i]] =
          [block |-> n - 1, index |-> i,
           status |-> IF blocks[n].txs[i].fate = "throws" THEN 0 ELSE 1]
  BY <1>0 DEF ReceiptsSound
<1>6. QED
  BY <1>4, <1>5 DEF ReceiptsExact
-----------------------------------------------------------------------------
(* The steps.                                                               *)

PoolInv == Len(pending) <= MaxPool /\ Consecutive(pending, stateRoot)

NonceInv == ChainInv /\ PoolInv /\ ReceiptsSound

\* Few steps touch the ledger or the pool.
LEMMA NonceSteps ==
  ASSUME [Next]_vars
  PROVE  \/ UNCHANGED <<ledger, pending>>
         \/ MineBlock
         \/ PopBlock
         \/ FailBlock
         \/ FinishRevert
         \/ \E from \in Accounts, shape \in Shapes : eth_sendTransaction(from, shape)
BY DEF Next, Call, Serve, Tick, vars, RejectTransaction, evm_increaseTime, evm_revert,
       RevertToNothing, evm_mine, miner_start, miner_stop, evm_snapshot, FinishMining,
       PopSnapshot, SnapshotUnwound

\* The block that is tried: the sorted pool, and where it is cut.
LEMMA SortedPool ==
  ASSUME TypeOK, PoolInv, NEW sorted \in PriceNonceOrders(pending),
         NEW cut \in BlockCuts(sorted, BlockGasLimit)
  PROVE  /\ sorted \in Seq(Tx) /\ cut \in 0..Len(sorted) /\ cut \in Nat
         /\ Len(sorted) = Len(pending) /\ Len(sorted) <= MaxPool /\ MaxPool \in Nat
         /\ Range(sorted) = Range(pending)
         /\ Consecutive(sorted, stateRoot) /\ ByNonce(sorted)
         /\ Len(Remaining(sorted, cut)) <= MaxPool
<1>1. pending \in Seq(Tx) /\ stateRoot \in Root /\ Consecutive(pending, stateRoot)
  BY DEF TypeOK, PoolInv
<1>2. /\ sorted \in Seq(Tx) /\ Len(sorted) = Len(pending)
      /\ Range(sorted) = Range(pending)
      /\ Consecutive(sorted, stateRoot) /\ ByNonce(sorted)
  BY <1>1, SortKeepsConsecutive
<1>3. cut \in 0..Len(sorted)
  BY DEF BlockCuts
<1>4. Len(sorted) <= MaxPool /\ MaxPool \in Nat /\ Len(sorted) \in Nat
  BY <1>2, LimitsAssumption DEF PoolInv
<1>5. Len(Remaining(sorted, cut)) = Len(sorted) - cut
  BY <1>2, <1>3, CutParts
<1>6. QED
  BY <1>2, <1>3, <1>4, <1>5

LEMMA MinedParts ==
  ASSUME TypeOK, PoolInv, MineBlock
  PROVE  \E sorted \in PriceNonceOrders(pending) :
           \E cut \in BlockCuts(sorted, BlockGasLimit) :
             /\ VMAccepts(stateRoot, SubSeq(sorted, 1, cut))
             /\ putBlock(createBlock(SubSeq(sorted, 1, cut)))
             /\ pending' = Remaining(sorted, cut)
BY DEF MineBlock, CanMine

\* A column of new positions adds its size.
LEMMA AddColumn ==
  ASSUME NEW S, IsFiniteSet(S), NEW C, IsFiniteSet(C), NEW n,
         \A p \in S : p[1] # n
  PROVE  Cardinality(S \cup ({n} \X C)) = Cardinality(S) + Cardinality(C)
<1>1. IsFiniteSet({n}) /\ Cardinality({n}) = 1
  BY FS_Singleton
<1>2. IsFiniteSet({n} \X C) /\ Cardinality({n} \X C) = 1 * Cardinality(C)
  BY <1>1, FS_Product
<1>3. Cardinality(C) \in Nat /\ Cardinality(S) \in Nat
  BY FS_CardinalityType
<1>4. S \cap ({n} \X C) = {}
  OBVIOUS
<1>5. Cardinality(S \cap ({n} \X C)) = 0
  BY <1>4, FS_EmptySet
<1>6. Cardinality(S \cup ({n} \X C))
        = Cardinality(S) + Cardinality({n} \X C) - Cardinality(S \cap ({n} \X C))
  BY <1>2, FS_Union
<1>7. QED
  BY <1>2, <1>3, <1>5, <1>6

LEMMA ChainInvInit == Init => BlocksAccepted /\ NoncesCounted
<1> SUFFICES ASSUME Init PROVE BlocksAccepted /\ NoncesCounted
  OBVIOUS
<1>1. /\ Len(blocks) = 1 /\ blocks[1].txs = <<>> /\ blocks[1].root = GenesisRoot
  BY DEF Init
<1>2. BlocksAccepted
  BY <1>1, LimitsAssumption DEF BlocksAccepted
<1>3. \A a \in Accounts : SentUpTo(1, a) = {}
  BY <1>1 DEF SentUpTo, SentBy
<1>a. \A a \in Accounts : blocks[1].root.nonce[a] = Cardinality(SentUpTo(1, a))
  <2> TAKE a \in Accounts
  <2>1. Cardinality(SentUpTo(1, a)) = 0
    BY <1>3, FS_EmptySet
  <2>2. GenesisRoot.nonce[a] = 0
    BY DEF GenesisRoot
  <2>3. QED
    BY <1>1, <2>1, <2>2
<1>4. NoncesCounted
  BY <1>1, <1>a DEF NoncesCounted
<1>5. QED
  BY <1>2, <1>4

LEMMA NonceInit == Init => NonceInv
<1> SUFFICES ASSUME Init PROVE NonceInv
  OBVIOUS
<1>1. ChainInv
  BY InitType, ReplayedInit, ChainInvInit DEF ChainInv
<1>2. PoolInv
  BY LimitsAssumption DEF Init, PoolInv, Consecutive, NoncesOf, SentBy
<1>3. ReceiptsSound
  BY DEF Init, ReceiptsSound
<1>4. QED
  BY <1>1, <1>2, <1>3 DEF NonceInv

\* A new block, for the chain: the next block, accepted on the last one's state.
LEMMA MineKeepsChain ==
  ASSUME ChainInv, NEW txs \in Seq(Tx), Len(txs) <= MaxPool,
         VMAccepts(stateRoot, txs), putBlock(createBlock(txs))
  PROVE  /\ Len(blocks') = Len(blocks) + 1
         /\ \A n \in 1..Len(blocks) : blocks'[n] = blocks[n]
         /\ blocks'[Len(blocks) + 1] = createBlock(txs)
         /\ BlocksAccepted' /\ NoncesCounted'
<1> DEFINE block == createBlock(txs)
<1>0. TypeOK /\ Replayed /\ BlocksAccepted /\ NoncesCounted
  BY DEF ChainInv
<1>1. /\ block \in Block /\ block.txs = txs /\ block.root = RunBlock(stateRoot, txs)
  BY <1>0, CreateBlockType DEF createBlock
<1>2. blocks' = Append(blocks, block)
  BY DEF putBlock
<1> HIDE DEF block
<1>a. PICK last \in Nat \ {0} : last = Len(blocks)
  BY <1>0, BlockTypes
<1>3. last \in Nat \ {0} /\ blocks \in Seq(Block) /\ MaxPool \in Nat
  BY <1>0, LimitsAssumption DEF TypeOK
<1>4. /\ Len(blocks') = last + 1 /\ blocks'[last + 1] = block
      /\ \A n \in 1..last : blocks'[n] = blocks[n]
  BY <1>1, <1>2, <1>3, <1>a
<1>5. stateRoot = blocks[last].root
  BY <1>0, <1>a DEF Replayed
<1>6. BlocksAccepted'
  <2>1. blocks'[1].txs = <<>>
    BY <1>0, <1>3, <1>4 DEF BlocksAccepted
  <2>2. \A n \in 1..(last + 1) : Len(blocks'[n].txs) <= MaxPool
    BY <1>0, <1>1, <1>3, <1>4, <1>a DEF BlocksAccepted
  <2>3. ASSUME NEW n \in 2..(last + 1)
        PROVE  VMAccepts(blocks'[n - 1].root, blocks'[n].txs)
    <3>1. CASE n = last + 1
      BY <1>1, <1>3, <1>4, <1>5, <3>1
    <3>2. CASE n # last + 1
      <4>1. n \in 2..last /\ n - 1 \in 1..last /\ n \in 1..last
        BY <1>3, <3>2
      <4>2. QED
        BY <1>0, <1>4, <1>a, <4>1 DEF BlocksAccepted
    <3>3. QED
      BY <3>1, <3>2
  <2>4. QED
    BY <1>4, <2>1, <2>2, <2>3 DEF BlocksAccepted
<1>7. NoncesCounted'
  <2> SUFFICES ASSUME NEW n \in 1..(last + 1), NEW a \in Accounts
               PROVE  blocks'[n].root.nonce[a] = Cardinality(SentUpTo(n, a)')
    BY <1>4 DEF NoncesCounted
  <2>1. \A m \in 1..last : SentUpTo(m, a)' = SentUpTo(m, a)
    <3> TAKE m \in 1..last
    <3>1. \A k \in 1..m : blocks'[k] = blocks[k]
      BY <1>3, <1>4
    <3>2. QED
      BY <3>1 DEF SentUpTo
  <2>2. CASE n \in 1..last
    BY <1>0, <1>4, <1>a, <2>1, <2>2 DEF NoncesCounted
  <2>3. CASE n = last + 1
    <3>1. SentBy(txs, a) \subseteq 1..MaxPool /\ IsFiniteSet(SentBy(txs, a))
      <4>1. SentBy(txs, a) \subseteq 1..Len(txs) /\ IsFiniteSet(SentBy(txs, a))
        BY SentByFinite
      <4>2. QED
        BY <1>3, <4>1
    <3>2. SentUpTo(last + 1, a)' = SentUpTo(last, a) \cup ({last + 1} \X SentBy(txs, a))
      <4>1. \A k \in 1..last : blocks'[k] = blocks[k]
        BY <1>4
      <4>2. 1..(last + 1) = (1..last) \cup {last + 1}
        BY <1>3
      <4>3. blocks'[last + 1].txs = txs
        BY <1>1, <1>4
      <4>4. QED
        BY <3>1, <4>1, <4>2, <4>3 DEF SentUpTo
    <3>3. IsFiniteSet(SentUpTo(last, a))
      BY <1>3, SentUpToFinite
    <3>4. \A p \in SentUpTo(last, a) : p[1] # last + 1
      BY <1>3 DEF SentUpTo
    <3>5. Cardinality(SentUpTo(last + 1, a)')
            = Cardinality(SentUpTo(last, a)) + Cardinality(SentBy(txs, a))
      <4>1. Cardinality(SentUpTo(last, a) \cup ({last + 1} \X SentBy(txs, a)))
              = Cardinality(SentUpTo(last, a)) + Cardinality(SentBy(txs, a))
        BY <3>1, <3>3, <3>4, AddColumn
      <4>2. QED
        BY <3>2, <4>1
    <3>6. Cardinality(SentUpTo(last, a)) = stateRoot.nonce[a]
      BY <1>0, <1>3, <1>5, <1>a DEF NoncesCounted
    <3>7. blocks'[last + 1].root.nonce[a] = stateRoot.nonce[a] + Cardinality(SentBy(txs, a))
      BY <1>1, <1>4 DEF RunBlock
    <3>8. QED
      BY <2>3, <3>5, <3>6, <3>7
  <2>4. QED
    BY <1>3, <2>2, <2>3
<1>8. QED
  BY <1>4, <1>6, <1>7, <1>a DEF block
\* A new block, for the receipts: its transactions are new to the chain.
LEMMA MineKeepsReceipts ==
  ASSUME ChainInv, ReceiptsSound, NEW txs \in Seq(Tx), Len(txs) <= MaxPool,
         VMAccepts(stateRoot, txs), putBlock(createBlock(txs))
  PROVE  ReceiptsSound'
<1> DEFINE block == createBlock(txs)
<1>0. TypeOK /\ Replayed /\ NoncesCounted
  BY DEF ChainInv
<1>a. PICK last \in Nat \ {0} : last = Len(blocks)
  BY <1>0, BlockTypes
<1>1. block.txs = txs /\ block.number = last
  <2>1. latestBlock.number = last - 1
    BY <1>0, <1>a DEF Replayed, latestBlock
  <2>2. QED
    BY <1>a, <2>1 DEF createBlock
<1>2. /\ Len(blocks') = last + 1
      /\ \A n \in 1..last : blocks'[n] = blocks[n]
      /\ blocks'[last + 1].txs = txs
  BY <1>1, <1>a, MineKeepsChain
<1>3. /\ DOMAIN receipts' = DOMAIN receipts \cup Range(txs)
      /\ \A tx \in DOMAIN receipts' :
           receipts'[tx] = IF tx \in Range(txs) THEN ReceiptOf(block, tx) ELSE receipts[tx]
  BY <1>1 DEF putBlock
<1> HIDE DEF block
<1>4. \A tx : tx \in Range(txs) <=> \E i \in DOMAIN txs : txs[i] = tx
  BY DEF Range
<1>5. stateRoot = blocks[last].root /\ stateRoot \in Root
  BY <1>0, <1>a DEF Replayed, TypeOK
<1>6. ASSUME NEW i \in DOMAIN txs
      PROVE  ReceiptOf(block, txs[i]) =
               [block |-> last, index |-> i,
                status |-> IF txs[i].fate = "throws" THEN 0 ELSE 1]
  <2>1. \A j \in DOMAIN txs : txs[j] = txs[i] => j = i
    <3> SUFFICES ASSUME NEW j \in DOMAIN txs, txs[j] = txs[i] PROVE j = i
      OBVIOUS
    <3>1. (i < j => txs[i].nonce < txs[j].nonce) /\ (j < i => txs[j].nonce < txs[i].nonce)
      BY <1>5, AcceptedNonces
    <3>2. txs[i].nonce \in Nat /\ txs[j].nonce \in Nat
      BY PoolTypes
    <3>3. i \in Nat /\ j \in Nat
      OBVIOUS
    <3>4. QED
      BY <3>1, <3>2, <3>3
  <2>2. (CHOOSE j \in DOMAIN txs : txs[j] = txs[i]) = i
    BY <2>1
  <2>3. QED
    BY <1>1, <2>2 DEF ReceiptOf
<1>7. ASSUME NEW n \in 1..last, NEW i \in DOMAIN blocks[n].txs
      PROVE  blocks[n].txs[i] \notin Range(txs)
  <2> SUFFICES ASSUME NEW j \in DOMAIN txs, txs[j] = blocks[n].txs[i] PROVE FALSE
    BY <1>4
  <2> DEFINE a == txs[j].from
  <2>0. n \in 1..Len(blocks) /\ last \in n..Len(blocks) /\ last \in 1..Len(blocks)
    BY <1>a
  <2>1. a \in Accounts /\ txs[j].nonce \in Nat
    BY PoolTypes
  <2>2. blocks[n].txs[i].nonce < blocks[n].root.nonce[a]
    BY <2>0, NonceInBlock
  <2>3. blocks[n].root.nonce[a] <= blocks[last].root.nonce[a]
    BY <1>0, <2>0, <2>1, NoncesGrow
  <2>4. stateRoot.nonce[a] <= txs[j].nonce
    BY <1>5, AcceptedNonces
  <2>5. blocks[n].root.nonce[a] \in Nat /\ blocks[last].root.nonce[a] \in Nat
    BY <1>0, <2>0, <2>1, BlockTypes
  <2> HIDE DEF a
  <2>6. QED
    BY <1>5, <2>1, <2>2, <2>3, <2>4, <2>5
<1>8. ASSUME NEW n \in 1..(last + 1), NEW i \in DOMAIN blocks'[n].txs
      PROVE  /\ blocks'[n].txs[i] \in DOMAIN receipts'
             /\ receipts'[blocks'[n].txs[i]] =
                  [block |-> n - 1, index |-> i,
                   status |-> IF blocks'[n].txs[i].fate = "throws" THEN 0 ELSE 1]
  <2>1. CASE n = last + 1
    <3>1. i \in DOMAIN txs /\ blocks'[n].txs[i] = txs[i] /\ txs[i] \in Range(txs)
      BY <1>2, <1>4, <2>1
    <3>2. n - 1 = last
      BY <2>1
    <3>3. QED
      BY <1>3, <1>6, <3>1, <3>2
  <2>2. CASE n # last + 1
    <3>1. n \in 1..last /\ blocks'[n] = blocks[n] /\ n \in 1..Len(blocks)
      BY <1>2, <1>a, <2>2
    <3>2. /\ blocks[n].txs[i] \in DOMAIN receipts
          /\ receipts[blocks[n].txs[i]] =
               [block |-> n - 1, index |-> i,
                status |-> IF blocks[n].txs[i].fate = "throws" THEN 0 ELSE 1]
      BY <1>8, <3>1 DEF ReceiptsSound
    <3>3. blocks[n].txs[i] \notin Range(txs)
      BY <1>7, <1>8, <3>1
    <3>4. QED
      BY <1>3, <3>1, <3>2, <3>3
  <2>3. QED
    BY <2>1, <2>2
<1>9. ASSUME NEW tx \in DOMAIN receipts'
      PROVE  \E n \in 1..(last + 1) : \E i \in DOMAIN blocks'[n].txs : blocks'[n].txs[i] = tx
  <2>1. CASE tx \in Range(txs)
    <3>1. last + 1 \in 1..(last + 1)
      OBVIOUS
    <3>2. QED
      BY <1>2, <1>4, <2>1, <3>1
  <2>2. CASE tx \notin Range(txs)
    <3>1. tx \in DOMAIN receipts
      BY <1>3, <2>2
    <3>2. PICK n \in 1..last : \E i \in DOMAIN blocks[n].txs : blocks[n].txs[i] = tx
      BY <1>a, <3>1 DEF ReceiptsSound
    <3>3. n \in 1..(last + 1) /\ blocks'[n] = blocks[n]
      BY <1>2
    <3>4. QED
      BY <3>2, <3>3
  <2>3. QED
    BY <2>1, <2>2
<1>10. QED
  BY <1>2, <1>8, <1>9 DEF ReceiptsSound

LEMMA MineKeeps ==
  ASSUME NonceInv, TypeOK', Replayed', MineBlock PROVE NonceInv'
<1>0. ChainInv /\ PoolInv /\ ReceiptsSound /\ TypeOK
  BY DEF NonceInv, ChainInv
<1>a. PICK sorted \in PriceNonceOrders(pending) :
        \E cut \in BlockCuts(sorted, BlockGasLimit) :
          /\ VMAccepts(stateRoot, SubSeq(sorted, 1, cut))
          /\ putBlock(createBlock(SubSeq(sorted, 1, cut)))
          /\ pending' = Remaining(sorted, cut)
  BY <1>0, MinedParts
<1>1. PICK cut \in BlockCuts(sorted, BlockGasLimit) :
        /\ VMAccepts(stateRoot, SubSeq(sorted, 1, cut))
        /\ putBlock(createBlock(SubSeq(sorted, 1, cut)))
        /\ pending' = Remaining(sorted, cut)
  BY <1>a
<1> DEFINE txs == SubSeq(sorted, 1, cut)
<1>2. /\ sorted \in Seq(Tx) /\ cut \in 0..Len(sorted) /\ Len(sorted) <= MaxPool
      /\ cut \in Nat /\ Len(sorted) \in Nat /\ MaxPool \in Nat
      /\ Consecutive(sorted, stateRoot) /\ ByNonce(sorted)
      /\ Len(Remaining(sorted, cut)) <= MaxPool
  BY <1>0, SortedPool
<1>3. txs \in Seq(Tx) /\ Len(txs) <= MaxPool
  <2>1. txs \in Seq(Tx) /\ Len(txs) = cut
    BY <1>2, CutParts
  <2>2. QED
    BY <1>2, <2>1
<1>4. stateRoot' = RunBlock(stateRoot, txs) /\ stateRoot \in Root
  BY <1>0, <1>1 DEF putBlock, createBlock, TypeOK
<1>5. Consecutive(Remaining(sorted, cut), RunBlock(stateRoot, txs))
  BY <1>2, <1>4, RemainingAfterBlock
<1> HIDE DEF txs
<1>6. VMAccepts(stateRoot, txs) /\ putBlock(createBlock(txs))
  BY <1>1 DEF txs
<1>7. BlocksAccepted' /\ NoncesCounted' /\ ReceiptsSound'
  BY <1>0, <1>3, <1>6, MineKeepsChain, MineKeepsReceipts
<1>8. PoolInv'
  BY <1>1, <1>2, <1>4, <1>5 DEF PoolInv, Consecutive, NoncesOf, SentBy
<1>9. QED
  BY <1>7, <1>8 DEF NonceInv, ChainInv

LEMMA PopKeeps ==
  ASSUME NonceInv, TypeOK', Replayed', PopBlock PROVE NonceInv'
<1>0. TypeOK /\ Replayed /\ BlocksAccepted /\ NoncesCounted /\ PoolInv /\ ReceiptsSound
        /\ ChainInv
  BY DEF NonceInv, ChainInv
<1>1. PICK last \in Nat \ {0} : last = Len(blocks)
  BY <1>0, BlockTypes
<1>2. last > 1
  BY <1>0, <1>1, PopBlockType
<1>3. /\ Len(blocks') = last - 1
      /\ \A n \in 1..(last - 1) : blocks'[n] = blocks[n] /\ n \in 1..last
  BY <1>0, <1>1, <1>2 DEF PopBlock, popBlock, TypeOK
<1>4. /\ stateRoot' = blocks[last - 1].root /\ pending' = pending
      /\ DOMAIN receipts' = DOMAIN receipts \ Range(blocks[last].txs)
      /\ \A tx \in DOMAIN receipts' : receipts'[tx] = receipts[tx]
  BY <1>1 DEF PopBlock, popBlock, latestBlock
<1>5. BlocksAccepted'
  <2>1. 1 \in 1..(last - 1)
    BY <1>2
  <2>2. \A n \in 2..(last - 1) : n \in 1..(last - 1) /\ n - 1 \in 1..(last - 1)
                                 /\ n \in 2..last
    BY <1>2
  <2>3. QED
    BY <1>0, <1>1, <1>3, <2>1, <2>2 DEF BlocksAccepted
<1>6. NoncesCounted'
  <2> SUFFICES ASSUME NEW n \in 1..(last - 1), NEW a \in Accounts
               PROVE  blocks'[n].root.nonce[a] = Cardinality(SentUpTo(n, a)')
    BY <1>3 DEF NoncesCounted
  <2>1. \A k \in 1..n : blocks'[k] = blocks[k]
    BY <1>2, <1>3
  <2>2. SentUpTo(n, a)' = SentUpTo(n, a)
    BY <2>1 DEF SentUpTo
  <2>3. QED
    BY <1>0, <1>1, <1>3, <2>2 DEF NoncesCounted
<1>7. PoolInv'
  <2>1. /\ pending \in Seq(Tx) /\ Len(pending) <= MaxPool
        /\ Consecutive(pending, stateRoot) /\ stateRoot = blocks[last].root
    BY <1>0, <1>1 DEF TypeOK, PoolInv, Replayed
  <2>2. \A i \in DOMAIN pending :
          pending[i].nonce >= blocks[last - 1].root.nonce[pending[i].from]
    <3> TAKE i \in DOMAIN pending
    <3>1. pending[i].from \in Accounts /\ pending[i].nonce \in Nat
      BY <2>1, PoolTypes
    <3>2. last - 1 \in 1..Len(blocks) /\ last \in (last - 1)..Len(blocks)
            /\ last \in 1..Len(blocks)
      BY <1>1, <1>2
    <3>3. blocks[last - 1].root.nonce[pending[i].from]
            <= blocks[last].root.nonce[pending[i].from]
      BY <1>0, <3>1, <3>2, NoncesGrow
    <3>4. /\ blocks[last - 1].root.nonce[pending[i].from] \in Nat
          /\ blocks[last].root.nonce[pending[i].from] \in Nat
      BY <1>0, <3>1, <3>2, BlockTypes
    <3>5. pending[i].nonce >= blocks[last].root.nonce[pending[i].from]
      BY <2>1 DEF Consecutive
    <3>6. QED
      BY <3>1, <3>3, <3>4, <3>5
  <2>3. Consecutive(pending, blocks[last - 1].root)
    BY <2>1, <2>2 DEF Consecutive
  <2>4. QED
    BY <1>4, <2>1, <2>3 DEF PoolInv, Consecutive, NoncesOf, SentBy
<1>8. ReceiptsSound'
  <2>0. \A tx : tx \in Range(blocks[last].txs)
                <=> \E j \in DOMAIN blocks[last].txs : blocks[last].txs[j] = tx
    BY DEF Range
  <2>1. ASSUME NEW n \in 1..(last - 1), NEW i \in DOMAIN blocks[n].txs
        PROVE  blocks[n].txs[i] \notin Range(blocks[last].txs)
    <3> SUFFICES ASSUME NEW j \in DOMAIN blocks[last].txs,
                        blocks[last].txs[j] = blocks[n].txs[i]
                 PROVE  FALSE
      BY <2>0
    <3>1. n \in 1..Len(blocks) /\ last \in 1..Len(blocks) /\ n # last
      BY <1>1, <1>2
    <3>2. QED
      BY <1>0, <3>1, OnceOnChain
  <2>2. ASSUME NEW n \in 1..(last - 1), NEW i \in DOMAIN blocks'[n].txs
        PROVE  /\ blocks'[n].txs[i] \in DOMAIN receipts'
               /\ receipts'[blocks'[n].txs[i]] =
                    [block |-> n - 1, index |-> i,
                     status |-> IF blocks'[n].txs[i].fate = "throws" THEN 0 ELSE 1]
    <3>1. blocks'[n] = blocks[n] /\ n \in 1..Len(blocks)
      BY <1>1, <1>3
    <3>2. /\ blocks[n].txs[i] \in DOMAIN receipts
          /\ receipts[blocks[n].txs[i]] =
               [block |-> n - 1, index |-> i,
                status |-> IF blocks[n].txs[i].fate = "throws" THEN 0 ELSE 1]
      BY <1>0, <2>2, <3>1 DEF ReceiptsSound
    <3>3. blocks[n].txs[i] \notin Range(blocks[last].txs)
      BY <2>1, <2>2, <3>1
    <3>4. QED
      BY <1>4, <3>1, <3>2, <3>3
  <2>3. ASSUME NEW tx \in DOMAIN receipts'
        PROVE  \E n \in 1..(last - 1) :
                 \E i \in DOMAIN blocks'[n].txs : blocks'[n].txs[i] = tx
    <3>1. tx \in DOMAIN receipts /\ tx \notin Range(blocks[last].txs)
      BY <1>4
    <3>2. PICK n \in 1..last : \E i \in DOMAIN blocks[n].txs : blocks[n].txs[i] = tx
      BY <1>0, <1>1, <3>1 DEF ReceiptsSound
    <3>3. n # last
      BY <2>0, <3>1, <3>2
    <3>4. n \in 1..(last - 1) /\ blocks'[n] = blocks[n]
      BY <1>3, <3>3
    <3>5. QED
      BY <3>2, <3>4
  <2>4. QED
    BY <1>3, <2>2, <2>3 DEF ReceiptsSound
<1>9. QED
  BY <1>5, <1>6, <1>7, <1>8 DEF NonceInv, ChainInv
\* A step that leaves the ledger keeps what is said of it.
LEMMA LedgerUnchanged ==
  ASSUME NonceInv, TypeOK', UNCHANGED ledger, PoolInv' PROVE NonceInv'
<1>1. BlocksAccepted' /\ Replayed'
  BY DEF NonceInv, ChainInv, BlocksAccepted, Replayed, ledger
<1>2. NoncesCounted'
  BY DEF NonceInv, ChainInv, NoncesCounted, SentUpTo, ledger
<1>3. ReceiptsSound'
  BY DEF NonceInv, ReceiptsSound, ledger
<1>4. QED
  BY <1>1, <1>2, <1>3 DEF NonceInv, ChainInv

LEMMA SendKeeps ==
  ASSUME NonceInv, TypeOK', NEW from \in Accounts, NEW shape \in Shapes,
         eth_sendTransaction(from, shape)
  PROVE  NonceInv'
<1>1. PICK nonce \in QueuedNonce(pending, stateRoot, from) :
        pending' = Append(pending,
                     [from |-> from, nonce |-> nonce, price |-> shape.price,
                      gas |-> shape.gas, fate |-> shape.fate])
  BY DEF eth_sendTransaction
<1> DEFINE tx == [from |-> from, nonce |-> nonce, price |-> shape.price,
                  gas |-> shape.gas, fate |-> shape.fate]
<1>2. pending \in Seq(Tx) /\ stateRoot \in Root /\ Consecutive(pending, stateRoot)
  BY DEF NonceInv, ChainInv, PoolInv, TypeOK
<1>3. tx \in Tx
  <2>1. nonce \in Nat
    BY <1>2, QueuedNonceType
  <2>2. shape \in [price : Nat, gas : Nat \ {0}, fate : Fates]
    BY ShapesAssumption
  <2>3. QED
    BY <2>1, <2>2 DEF Tx
<1>4. tx.from = from /\ tx.nonce = nonce
  OBVIOUS
<1>5. pending' = Append(pending, tx)
  BY <1>1
<1> HIDE DEF tx
<1>6. Consecutive(Append(pending, tx), stateRoot)
  BY <1>2, <1>3, <1>4, QueuedConsecutive
<1>7. Len(pending) < MaxPool /\ MaxPool \in Nat /\ UNCHANGED ledger
  BY LimitsAssumption DEF eth_sendTransaction
<1>8. Len(pending') <= MaxPool
  BY <1>2, <1>3, <1>5, <1>7
<1>9. PoolInv'
  BY <1>5, <1>6, <1>7, <1>8 DEF PoolInv, Consecutive, NoncesOf, SentBy, ledger
<1>10. QED
  BY <1>7, <1>9, LedgerUnchanged

LEMMA FailKeeps == ASSUME NonceInv, TypeOK', FailBlock PROVE NonceInv'
<1>0. TypeOK /\ PoolInv
  BY DEF NonceInv, ChainInv
<1>1. PICK sorted \in PriceNonceOrders(pending) :
        \E cut \in BlockCuts(sorted, BlockGasLimit) : pending' = Remaining(sorted, cut)
  BY DEF FailBlock
<1>2. PICK cut \in BlockCuts(sorted, BlockGasLimit) : pending' = Remaining(sorted, cut)
  BY <1>1
<1>3. /\ sorted \in Seq(Tx) /\ cut \in 0..Len(sorted)
      /\ Consecutive(sorted, stateRoot) /\ ByNonce(sorted)
      /\ Len(Remaining(sorted, cut)) <= MaxPool
  BY <1>0, SortedPool
<1>4. stateRoot \in Root
  BY <1>0 DEF TypeOK
<1>5. Consecutive(Remaining(sorted, cut), stateRoot)
  BY <1>3, <1>4, RemainingConsecutive
<1>6. UNCHANGED ledger
  BY DEF FailBlock
<1>7. PoolInv'
  BY <1>2, <1>3, <1>5, <1>6 DEF PoolInv, Consecutive, NoncesOf, SentBy, ledger
<1>8. QED
  BY <1>6, <1>7, LedgerUnchanged

LEMMA NonceStep == NonceInv /\ [Next]_vars => NonceInv'
<1> SUFFICES ASSUME NonceInv, [Next]_vars PROVE NonceInv'
  OBVIOUS
<1>1. TypeOK' /\ Replayed'
  BY StepType, ReplayedStep DEF NonceInv, ChainInv
<1>2. CASE UNCHANGED <<ledger, pending>>
  <2>1. PoolInv'
    BY <1>2 DEF NonceInv, PoolInv, Consecutive, NoncesOf, SentBy, ledger
  <2>2. QED
    BY <1>1, <1>2, <2>1, LedgerUnchanged
<1>3. CASE MineBlock
  BY <1>1, <1>3, MineKeeps
<1>4. CASE PopBlock
  BY <1>1, <1>4, PopKeeps
<1>5. CASE FailBlock
  BY <1>1, <1>5, FailKeeps
<1>6. CASE FinishRevert
  <2>1. pending' = <<>> /\ UNCHANGED ledger
    BY <1>6 DEF FinishRevert
  <2>2. PoolInv'
    BY <2>1, LimitsAssumption DEF PoolInv, Consecutive, NoncesOf, SentBy
  <2>3. QED
    BY <1>1, <2>1, <2>2, LedgerUnchanged
<1>7. ASSUME NEW from \in Accounts, NEW shape \in Shapes, eth_sendTransaction(from, shape)
      PROVE  NonceInv'
  BY <1>1, <1>7, SendKeeps
<1>8. QED
  BY <1>2, <1>3, <1>4, <1>5, <1>6, <1>7, NonceSteps

LEMMA NonceInvHolds == Spec => []NonceInv
BY NonceInit, NonceStep, PTL DEF Spec
-----------------------------------------------------------------------------
(* The invariants.                                                          *)

\* A transaction on the chain carries the number of those its sender has before.
LEMMA ChainNonces == ASSUME NonceInv PROVE NoncesFollowTheChain
<1>0. ChainInv /\ TypeOK /\ BlocksAccepted /\ NoncesCounted /\ DOMAIN blocks = 1..Len(blocks)
  BY BlockTypes DEF NonceInv, ChainInv
<1> SUFFICES ASSUME NEW n \in 1..Len(blocks), NEW i \in DOMAIN blocks[n].txs
             PROVE  LET tx == blocks[n].txs[i]
                        earlier == {p \in (DOMAIN blocks) \X (1..MaxPool) :
                                      /\ p[2] \in SentBy(blocks[p[1]].txs, tx.from)
                                      /\ p[1] < n \/ (p[1] = n /\ p[2] < i)}
                    IN  tx.nonce = Cardinality(earlier)
  BY <1>0 DEF NoncesFollowTheChain
<1> DEFINE tx == blocks[n].txs[i]
           earlier == {p \in (DOMAIN blocks) \X (1..MaxPool) :
                         /\ p[2] \in SentBy(blocks[p[1]].txs, tx.from)
                         /\ p[1] < n \/ (p[1] = n /\ p[2] < i)}
<1>1. n > 1 /\ n \in 2..Len(blocks) /\ n - 1 \in 1..Len(blocks) /\ n - 1 \in Nat
        /\ Len(blocks) \in Nat
  BY <1>0, NonceInBlock, BlockTypes
<1>2. blocks[n].txs \in Seq(Tx) /\ tx.from \in Accounts /\ Len(blocks[n].txs) <= MaxPool
        /\ MaxPool \in Nat
  BY <1>0, BlockTypes, LimitsAssumption DEF BlocksAccepted
<1>3. tx.nonce = blocks[n - 1].root.nonce[tx.from] + Cardinality(SentBefore(blocks[n].txs, i))
  BY <1>0, <1>1 DEF BlocksAccepted, VMAccepts
<1>4. blocks[n - 1].root.nonce[tx.from] = Cardinality(SentUpTo(n - 1, tx.from))
  BY <1>0, <1>1, <1>2 DEF NoncesCounted
<1>5. earlier = SentUpTo(n - 1, tx.from) \cup ({n} \X SentBefore(blocks[n].txs, i))
  <2>1. DOMAIN blocks[n].txs \subseteq 1..MaxPool
    BY <1>2
  <2>2. SentBefore(blocks[n].txs, i) = {j \in SentBy(blocks[n].txs, tx.from) : j < i}
    BY DEF SentBefore
  <2>3. SentBefore(blocks[n].txs, i) \subseteq 1..MaxPool
    BY <2>1, <2>2 DEF SentBy
  <2>4. \A k \in 1..Len(blocks) : (k < n <=> k \in 1..(n - 1))
    BY <1>1
  <2>5. 1..(n - 1) \subseteq 1..Len(blocks)
    BY <1>1
  <2> HIDE DEF tx
  <2>6. \A p \in (1..Len(blocks)) \X (1..MaxPool) :
          p \in earlier <=> p \in SentUpTo(n - 1, tx.from) \cup ({n} \X SentBefore(blocks[n].txs, i))
    <3> TAKE p \in (1..Len(blocks)) \X (1..MaxPool)
    <3>1. p \in SentUpTo(n - 1, tx.from) <=>
            p[1] < n /\ p[2] \in SentBy(blocks[p[1]].txs, tx.from)
      BY <2>4 DEF SentUpTo
    <3>2. p \in {n} \X SentBefore(blocks[n].txs, i) <=>
            p[1] = n /\ p[2] < i /\ p[2] \in SentBy(blocks[p[1]].txs, tx.from)
      BY <2>2
    <3>3. QED
      BY <1>0, <3>1, <3>2
  <2>7. earlier \subseteq (1..Len(blocks)) \X (1..MaxPool)
    BY <1>0
  <2>8. SentUpTo(n - 1, tx.from) \subseteq (1..Len(blocks)) \X (1..MaxPool)
    BY <2>5 DEF SentUpTo
  <2>9. {n} \X SentBefore(blocks[n].txs, i) \subseteq (1..Len(blocks)) \X (1..MaxPool)
    BY <2>3
  <2> HIDE DEF earlier
  <2>10. QED
    BY <2>6, <2>7, <2>8, <2>9
<1>6. \A p \in SentUpTo(n - 1, tx.from) : p[1] # n
  BY <1>1 DEF SentUpTo
<1> HIDE DEF tx, earlier
<1>7. IsFiniteSet(SentUpTo(n - 1, tx.from))
  BY <1>1, <1>2, SentUpToFinite
<1>8. IsFiniteSet(SentBefore(blocks[n].txs, i))
  BY <1>2, SentBeforeGrows
<1>9. Cardinality(SentUpTo(n - 1, tx.from) \cup ({n} \X SentBefore(blocks[n].txs, i)))
        = Cardinality(SentUpTo(n - 1, tx.from)) + Cardinality(SentBefore(blocks[n].txs, i))
  BY <1>6, <1>7, <1>8, AddColumn
<1>10. tx.nonce = Cardinality(earlier)
  BY <1>3, <1>4, <1>5, <1>9
<1>11. QED
  BY <1>10 DEF tx, earlier

LEMMA PoolNonces == ASSUME NonceInv PROVE PoolNoncesConsecutive
<1>0. pending \in Seq(Tx) /\ Consecutive(pending, stateRoot)
  BY DEF NonceInv, ChainInv, PoolInv, TypeOK
<1> SUFFICES ASSUME NEW a \in Accounts
             PROVE  LET waiting == SentBy(pending, a)
                        nonces == {pending[i].nonce : i \in waiting}
                    IN  /\ Cardinality(nonces) = Cardinality(waiting)
                        /\ \A n \in nonces : n >= stateRoot.nonce[a]
                        /\ \A n, m \in nonces : n..m \subseteq nonces
  BY DEF PoolNoncesConsecutive
<1> DEFINE f == [i \in SentBy(pending, a) |-> pending[i].nonce]
<1>1. NoncesOf(pending, a) = {f[i] : i \in SentBy(pending, a)}
  BY DEF NoncesOf
<1>2. \A i, j \in SentBy(pending, a) : f[i] = f[j] => i = j
  BY <1>0 DEF Consecutive, SentBy
<1>3. DOMAIN f = SentBy(pending, a)
  OBVIOUS
<1> HIDE DEF f
<1>4. IsFiniteSet(SentBy(pending, a))
  BY <1>0, SentByFinite
<1>5. Cardinality(NoncesOf(pending, a)) = Cardinality(SentBy(pending, a))
  BY <1>1, <1>2, <1>3, <1>4, ImageOfInjective
<1>6. \A n \in NoncesOf(pending, a) : n >= stateRoot.nonce[a]
  BY <1>0 DEF Consecutive, NoncesOf, SentBy
<1>7. \A n, m \in NoncesOf(pending, a) : n..m \subseteq NoncesOf(pending, a)
  BY <1>0 DEF Consecutive
<1>8. QED
  BY <1>5, <1>6, <1>7 DEF NoncesOf
-----------------------------------------------------------------------------
(* What a step may do to a transaction that waits.                          *)

\* The step of NoTransactionLost, and that of OnlyFailedBlocksStrand.
LeavesForACause ==
  \A tx \in Range(pending) \ Range(pending') :
    \/ tx \in DOMAIN receipts'
    \/ reply'.err = "vm"
    \/ reply'.call = "evm_revert"

StrandsForACause ==
  Executable => \/ Executable'
                \/ reply'.err = "vm"
                \/ request.op = "revert"

\* A block that is mined shifts a prefix of each sender's: what leaves is mined, ...
LEMMA MineLosesNone == ASSUME NonceInv, MineBlock PROVE LeavesForACause
<1> SUFFICES ASSUME NEW tx \in Range(pending), tx \notin Range(pending')
             PROVE  tx \in DOMAIN receipts'
  BY DEF LeavesForACause
<1>0. TypeOK /\ PoolInv
  BY DEF NonceInv, ChainInv
<1>a. PICK sorted \in PriceNonceOrders(pending) :
        \E cut \in BlockCuts(sorted, BlockGasLimit) :
          /\ putBlock(createBlock(SubSeq(sorted, 1, cut)))
          /\ pending' = Remaining(sorted, cut)
  BY <1>0, MinedParts
<1>1. PICK cut \in BlockCuts(sorted, BlockGasLimit) :
        /\ putBlock(createBlock(SubSeq(sorted, 1, cut)))
        /\ pending' = Remaining(sorted, cut)
  BY <1>a
<1>2. /\ sorted \in Seq(Tx) /\ cut \in 0..Len(sorted) /\ Range(sorted) = Range(pending)
  BY <1>0, SortedPool
<1>3. PICK k \in DOMAIN sorted : sorted[k] = tx
  BY <1>2 DEF Range
<1>4. CASE k > cut
  <2>1. /\ DOMAIN Remaining(sorted, cut) = 1..(Len(sorted) - cut)
        /\ \A i \in 1..(Len(sorted) - cut) : Remaining(sorted, cut)[i] = sorted[cut + i]
    BY <1>2, CutParts
  <2>2. k - cut \in 1..(Len(sorted) - cut) /\ cut + (k - cut) = k
    BY <1>2, <1>4
  <2>3. Remaining(sorted, cut)[k - cut] = tx
    BY <1>3, <2>1, <2>2
  <2>4. tx \in Range(pending')
    BY <1>1, <2>1, <2>2, <2>3 DEF Range
  <2>5. QED
    BY <2>4
<1>5. CASE k <= cut
  <2>1. /\ DOMAIN SubSeq(sorted, 1, cut) = 1..cut
        /\ \A i \in 1..cut : SubSeq(sorted, 1, cut)[i] = sorted[i]
    BY <1>2, CutParts
  <2>2. k \in 1..cut
    BY <1>2, <1>5
  <2>3. tx \in Range(SubSeq(sorted, 1, cut))
    BY <1>3, <2>1, <2>2 DEF Range
  <2>4. DOMAIN receipts' = DOMAIN receipts \cup Range(SubSeq(sorted, 1, cut))
    BY <1>1 DEF putBlock, createBlock
  <2>5. QED
    BY <2>3, <2>4
<1>6. k \in Int /\ cut \in Int
  BY <1>2
<1>7. QED
  BY <1>4, <1>5, <1>6

\* ... and what is left begins with the nonce the account has by then.
LEMMA MineStrandsNone == ASSUME NonceInv, Executable, MineBlock PROVE Executable'
<1>0. TypeOK /\ PoolInv
  BY DEF NonceInv, ChainInv
<1>a. PICK sorted \in PriceNonceOrders(pending) :
        \E cut \in BlockCuts(sorted, BlockGasLimit) :
          /\ VMAccepts(stateRoot, SubSeq(sorted, 1, cut))
          /\ putBlock(createBlock(SubSeq(sorted, 1, cut)))
          /\ pending' = Remaining(sorted, cut)
  BY <1>0, MinedParts
<1>1. PICK cut \in BlockCuts(sorted, BlockGasLimit) :
        /\ VMAccepts(stateRoot, SubSeq(sorted, 1, cut))
        /\ putBlock(createBlock(SubSeq(sorted, 1, cut)))
        /\ pending' = Remaining(sorted, cut)
  BY <1>a
<1> DEFINE txs == SubSeq(sorted, 1, cut)
           rest == Remaining(sorted, cut)
<1>2. /\ sorted \in Seq(Tx) /\ cut \in 0..Len(sorted) /\ Range(sorted) = Range(pending)
      /\ Consecutive(sorted, stateRoot) /\ ByNonce(sorted)
      /\ stateRoot \in Root
  BY <1>0, SortedPool DEF TypeOK
<1>3. stateRoot' = RunBlock(stateRoot, txs)
  BY <1>1 DEF putBlock, createBlock
<1>4. Consecutive(rest, RunBlock(stateRoot, txs))
  BY <1>2, RemainingAfterBlock
<1>5. /\ txs \in Seq(Tx) /\ DOMAIN txs = 1..cut
      /\ \A i \in 1..cut : txs[i] = sorted[i]
      /\ rest \in Seq(Tx) /\ DOMAIN rest = 1..(Len(sorted) - cut)
      /\ \A i \in 1..(Len(sorted) - cut) : rest[i] = sorted[cut + i]
  BY <1>2, CutParts
<1>6. VMAccepts(stateRoot, txs) /\ pending' = rest
  BY <1>1
<1> HIDE DEF txs, rest
<1> SUFFICES ASSUME NEW i \in DOMAIN rest
             PROVE  \E j \in SentBy(rest, rest[i].from) :
                      rest[j].nonce = RunBlock(stateRoot, txs).nonce[rest[i].from]
  BY <1>3, <1>6 DEF Executable, SentBy
<1>b. PICK a \in Accounts : a = rest[i].from
  BY <1>5, PoolTypes
<1>c. PICK next \in Nat : next = RunBlock(stateRoot, txs).nonce[a]
  <2>1. RunBlock(stateRoot, txs) \in Root
    BY <1>2, <1>5, RunBlockType
  <2>2. QED
    BY <2>1 DEF Root
<1>7. next <= rest[i].nonce /\ rest[i].nonce \in Nat
  BY <1>4, <1>5, <1>b, <1>c, PoolTypes DEF Consecutive
<1>8. stateRoot.nonce[a] \in Nat /\ stateRoot.nonce[a] <= next
  <2>1. stateRoot.nonce[a] \in Nat
    BY <1>2 DEF Root
  <2>2. Cardinality(SentBy(txs, a)) \in Nat
    BY <1>5, SentByFinite
  <2>3. next = stateRoot.nonce[a] + Cardinality(SentBy(txs, a))
    BY <1>c DEF RunBlock
  <2>4. QED
    BY <2>1, <2>2, <2>3
<1>9. rest[i].nonce \in NoncesOf(sorted, a)
  <2>1. cut + i \in DOMAIN sorted /\ rest[i] = sorted[cut + i]
    BY <1>2, <1>5
  <2>2. QED
    BY <1>b, <2>1 DEF NoncesOf, SentBy
<1>10. stateRoot.nonce[a] \in NoncesOf(sorted, a)
  <2>1. rest[i] \in Range(pending)
    <3>1. cut + i \in DOMAIN sorted /\ rest[i] = sorted[cut + i]
      BY <1>2, <1>5
    <3>2. rest[i] \in Range(sorted)
      BY <3>1 DEF Range
    <3>3. QED
      BY <1>2, <3>2
  <2>2. PICK h \in DOMAIN pending : pending[h] = rest[i]
    BY <2>1 DEF Range
  <2>3. PICK j \in DOMAIN pending :
          pending[j].from = a /\ pending[j].nonce = stateRoot.nonce[a]
    BY <1>b, <2>2 DEF Executable, SentBy
  <2>4. pending[j] \in Range(sorted)
    BY <1>2 DEF Range
  <2>5. PICK k \in DOMAIN sorted : sorted[k] = pending[j]
    BY <2>4 DEF Range
  <2>6. QED
    BY <2>3, <2>5 DEF NoncesOf, SentBy
<1>11. next \in NoncesOf(sorted, a)
  <2>1. next \in stateRoot.nonce[a]..(rest[i].nonce)
    BY <1>7, <1>8
  <2>2. QED
    BY <1>2, <1>9, <1>10, <2>1 DEF Consecutive
<1>12. PICK k \in DOMAIN sorted : sorted[k].from = a /\ sorted[k].nonce = next
  BY <1>11 DEF NoncesOf, SentBy
<1>13. k > cut
  <2> SUFFICES ASSUME k <= cut PROVE FALSE
    BY <1>2
  <2>1. k \in DOMAIN txs /\ txs[k] = sorted[k]
    BY <1>2, <1>5
  <2>2. txs[k].nonce < RunBlock(stateRoot, txs).nonce[txs[k].from]
    BY <1>2, <1>5, <1>6, <2>1, AcceptedNonces
  <2>3. QED
    BY <1>12, <1>c, <2>1, <2>2
<1>14. k - cut \in DOMAIN rest /\ rest[k - cut] = sorted[k]
  <2>1. k - cut \in 1..(Len(sorted) - cut) /\ cut + (k - cut) = k
    BY <1>2, <1>13
  <2>2. QED
    BY <1>5, <2>1
<1>15. QED
  BY <1>12, <1>14, <1>b, <1>c DEF SentBy

\* A transaction sent to a pool that is executable goes on from what is there.
LEMMA SendStrandsNone ==
  ASSUME NonceInv, Executable, NEW from \in Accounts, NEW shape \in Shapes,
         eth_sendTransaction(from, shape)
  PROVE  Executable'
<1>1. PICK nonce \in QueuedNonce(pending, stateRoot, from) :
        pending' = Append(pending,
                     [from |-> from, nonce |-> nonce, price |-> shape.price,
                      gas |-> shape.gas, fate |-> shape.fate])
  BY DEF eth_sendTransaction
<1> DEFINE tx == [from |-> from, nonce |-> nonce, price |-> shape.price,
                  gas |-> shape.gas, fate |-> shape.fate]
           new == Len(pending) + 1
<1>2. tx.from = from /\ tx.nonce = nonce
  OBVIOUS
<1>3. pending' = Append(pending, tx)
  BY <1>1
<1> HIDE DEF tx
<1>4. pending \in Seq(Tx) /\ UNCHANGED stateRoot
  BY DEF NonceInv, ChainInv, TypeOK, eth_sendTransaction, ledger
<1>5. /\ DOMAIN pending' = DOMAIN pending \cup {new}
      /\ pending'[new] = tx /\ \A i \in DOMAIN pending : pending'[i] = pending[i]
  BY <1>3, <1>4
<1> HIDE DEF new
<1> SUFFICES ASSUME NEW i \in DOMAIN pending'
             PROVE  \E j \in DOMAIN pending' :
                      /\ pending'[j].from = pending'[i].from
                      /\ pending'[j].nonce = stateRoot.nonce[pending'[i].from]
  BY <1>4 DEF Executable, SentBy
<1>6. \A h \in DOMAIN pending : \E j \in DOMAIN pending :
        pending[j].from = pending[h].from /\ pending[j].nonce = stateRoot.nonce[pending[h].from]
  BY DEF Executable, SentBy
<1>7. CASE i \in DOMAIN pending
  BY <1>5, <1>6, <1>7
<1>8. CASE i = new
  <2>1. pending'[i].from = from
    BY <1>2, <1>5, <1>8
  <2>2. CASE \E h \in DOMAIN pending : pending[h].from = from
    BY <1>5, <1>6, <2>1, <2>2
  <2>3. CASE ~\E h \in DOMAIN pending : pending[h].from = from
    <3>1. QueuedNonce(pending, stateRoot, from) = {stateRoot.nonce[from]}
      BY <2>3 DEF QueuedNonce
    <3>2. pending'[i].nonce = stateRoot.nonce[from]
      BY <1>2, <1>5, <1>8, <3>1
    <3>3. QED
      BY <2>1, <3>2
  <2>4. QED
    BY <2>2, <2>3
<1>9. QED
  BY <1>5, <1>7, <1>8

LEMMA WaitingStep ==
  ASSUME NonceInv, [Next]_vars PROVE LeavesForACause /\ StrandsForACause
<1>0. pending \in Seq(Tx)
  BY DEF NonceInv, ChainInv, TypeOK
<1>1. CASE UNCHANGED <<ledger, pending>>
  BY <1>1 DEF LeavesForACause, StrandsForACause, Executable, SentBy, ledger
<1>2. CASE MineBlock
  BY <1>2, MineLosesNone, MineStrandsNone DEF StrandsForACause
<1>3. CASE PopBlock
  <2>1. pending' = pending /\ request.op = "revert"
    BY <1>3 DEF PopBlock
  <2>2. QED
    BY <2>1 DEF LeavesForACause, StrandsForACause
<1>4. CASE FailBlock
  <2>1. reply'.err = "vm"
    BY <1>4 DEF FailBlock, Respond, Answer
  <2>2. QED
    BY <2>1 DEF LeavesForACause, StrandsForACause
<1>5. CASE FinishRevert
  <2>1. reply'.call = "evm_revert" /\ request.op = "revert"
    BY <1>5 DEF FinishRevert, Respond, Answer
  <2>2. QED
    BY <2>1 DEF LeavesForACause, StrandsForACause
<1>6. ASSUME NEW from \in Accounts, NEW shape \in Shapes, eth_sendTransaction(from, shape)
      PROVE  LeavesForACause /\ StrandsForACause
  <2>1. PICK tx : pending' = Append(pending, tx)
    BY <1>6 DEF eth_sendTransaction
  <2>2. \A i \in DOMAIN pending : i \in DOMAIN pending' /\ pending'[i] = pending[i]
    BY <1>0, <2>1
  <2>3. Range(pending) \ Range(pending') = {}
    BY <2>2 DEF Range
  <2>4. QED
    BY <1>6, <2>3, SendStrandsNone DEF LeavesForACause, StrandsForACause
<1>7. QED
  BY <1>1, <1>2, <1>3, <1>4, <1>5, <1>6, NonceSteps
-----------------------------------------------------------------------------
(* The theorems.                                                            *)

(* The transactions of an account are on the chain with the nonces 0, 1,   *)
(* ..., in its order, over failed blocks, reverts and what is sent again   *)
(* after them (getQueuedNonce, processNextBlock, revert).                  *)
THEOREM NoncesInOrder == Spec => []NoncesFollowTheChain
<1>1. NonceInv => NoncesFollowTheChain
  BY ChainNonces
<1>2. QED
  BY <1>1, NonceInvHolds, PTL

(* The transactions an account has waiting have consecutive nonces, none   *)
(* twice and none executed, whatever the price order and the cut of a      *)
(* block were, and whether it failed (sortByPriceAndNonce,                 *)
(* processNextBlock).                                                      *)
THEOREM PoolInOrder == Spec => []PoolNoncesConsecutive
<1>1. NonceInv => PoolNoncesConsecutive
  BY PoolNonces
<1>2. QED
  BY <1>1, NonceInvHolds, PTL

(* A receipt for each transaction on the chain, with the block and the     *)
(* place it has there, and none for any other, over blocks put and popped  *)
(* (putBlock, popBlock).                                                   *)
THEOREM ReceiptsOfChain == Spec => []ReceiptsExact
<1>1. NonceInv => ReceiptsExact
  BY ReceiptsSoundIsExact DEF NonceInv, ChainInv
<1>2. QED
  BY <1>1, NonceInvHolds, PTL

(* A transaction leaves the pool by being mined, by a block that fails, or *)
(* by a revert, and in no other way (processNextBlock, revert).            *)
THEOREM NoneLost == Spec => NoTransactionLost
<1>1. NonceInv /\ [Next]_vars => [LeavesForACause]_vars
  BY WaitingStep
<1>2. Spec => [][LeavesForACause]_vars
  BY <1>1, NonceInvHolds, PTL DEF Spec
<1>3. QED
  BY <1>2 DEF NoTransactionLost, LeavesForACause

(* Only a block that fails, or a revert, leaves a transaction waiting for  *)
(* a nonce that does not come: the sort by price and the cut at the gas    *)
(* limit never do (sortByPriceAndNonce, processNextBlock).                 *)
THEOREM NoneStranded == Spec => OnlyFailedBlocksStrand
<1>1. NonceInv /\ [Next]_vars => [StrandsForACause]_vars
  BY WaitingStep
<1>2. Spec => [][StrandsForACause]_vars
  BY <1>1, NonceInvHolds, PTL DEF Spec
<1>3. QED
  BY <1>2 DEF OnlyFailedBlocksStrand, StrandsForACause
-----------------------------------------------------------------------------
(***************************************************************************)
(* The sort of the pool and the packing of a block (PoolSort).             *)
(***************************************************************************)
(* What holds in each phase.                                                *)

PendingTx == [from : Senders, nonce : Nat, price : Prices, gas : Gases]

PSTypeOK ==
  /\ unsorted \in Seq(PendingTx)
  /\ sortedByNonce \in [Senders -> Seq(PendingTx)]
  /\ heap \subseteq PendingTx
  /\ sorted_transactions \in Seq(PendingTx)
  /\ currentTransactions \in Seq(PendingTx)
  /\ totalGasLimit \in Nat
  /\ pc \in {"group", "heap", "merge", "pack", "done"}

IsOneToOne(s) == \A i, j \in DOMAIN s : s[i] = s[j] => i = j

\* Where the transactions are while they are merged.
Parted ==
  /\ Range(unsorted) = Range(sorted_transactions) \cup heap
                         \cup UNION {Range(sortedByNonce[a]) : a \in Senders}
  /\ heap \cap Range(sorted_transactions) = {}
  /\ \A a \in Senders :
       Range(sortedByNonce[a]) \cap (heap \cup Range(sorted_transactions)) = {}
  /\ IsOneToOne(sorted_transactions)

\* What is left of a sender, in the order of its nonces.
GroupSorted(a) ==
  \A i, j \in DOMAIN sortedByNonce[a] :
    /\ sortedByNonce[a][i].from = a
    /\ i < j => /\ sortedByNonce[a][i] # sortedByNonce[a][j]
                /\ sortedByNonce[a][i].nonce <= sortedByNonce[a][j].nonce

\* Each sender that has transactions left has one in the heap, the first of them.
OneHeadEach ==
  /\ \A tx, other \in heap : tx.from = other.from => tx = other
  /\ \A a \in Senders :
       sortedByNonce[a] # <<>> => \E tx \in heap : tx.from = a
  /\ \A tx \in heap : \A j \in DOMAIN sortedByNonce[tx.from] :
       tx.nonce <= sortedByNonce[tx.from][j].nonce

\* What is sorted comes before what is left of its sender.
SortedComesFirst ==
  \A i \in DOMAIN sorted_transactions :
    /\ \A tx \in heap : tx.from = sorted_transactions[i].from =>
                          sorted_transactions[i].nonce <= tx.nonce
    /\ \A j \in DOMAIN sortedByNonce[sorted_transactions[i].from] :
         sorted_transactions[i].nonce <=
           sortedByNonce[sorted_transactions[i].from][j].nonce

\* A head that was in the heap when a transaction was popped bids no more than it.
HeadsBidLess ==
  \A i \in DOMAIN sorted_transactions, tx \in heap :
    (\A m \in i..Len(sorted_transactions) : sorted_transactions[m].from # tx.from)
      => sorted_transactions[i].price >= tx.price

MergeInv ==
  /\ Parted /\ OneHeadEach /\ SortedComesFirst /\ HeadsBidLess
  /\ \A a \in Senders : GroupSorted(a)
  /\ IsPriceNonceOrder(sorted_transactions)

\* What is packed is the front of the sorted pool, and its gas limits fit.
PackInv ==
  /\ sorted_transactions \in PriceNonceOrders(unsorted)
  /\ Len(currentTransactions) <= Len(sorted_transactions)
  /\ currentTransactions = SubSeq(sorted_transactions, 1, Len(currentTransactions))
  /\ totalGasLimit = GasOfFirst(sorted_transactions, Len(currentTransactions))
  /\ totalGasLimit <= maxGasLimit

PoolSortInv ==
  /\ PSTypeOK
  /\ IsOneToOne(unsorted)
  /\ pc \in {"group", "heap"} => heap = {} /\ sorted_transactions = <<>>
  /\ pc = "heap" => \A a \in Senders : sortedByNonce[a] \in NonceSorts(From(a))
  /\ pc \in {"group", "heap", "merge"} =>
       currentTransactions = <<>> /\ totalGasLimit = 0
  /\ pc = "merge" => MergeInv
  /\ pc \in {"pack", "done"} => PackInv
  /\ pc = "done" /\ Waiting # <<>> => ~Fits(Head(Waiting))
-----------------------------------------------------------------------------
(* Numbers, and the sum of the gas limits.                                  *)

\* A set of numbers has a least one, so a claim about 0..n has a first failure.
LEMMA LeastExists ==
  ASSUME NEW n \in Nat, NEW S, S \subseteq 0..n, S # {}
  PROVE  \E least \in S : \A x \in S : least <= x
<1> DEFINE Below(x) == {y \in S : y < x}
           T == {Below(x) : x \in S}
<1>1. IsFiniteSet(S)
  BY FS_Interval, FS_Subset, 0 \in Int, n \in Int
<1>2. T \subseteq FiniteSubsetsOf(S)
  <2>1. \A x \in S : IsFiniteSet(Below(x)) /\ Below(x) \subseteq S
    BY <1>1, FS_Subset
  <2>2. QED
    BY <2>1 DEF FiniteSubsetsOf
<1>3. PICK U \in T : \A V \in T : <<V, U>> \notin StrictSubsetOrdering(S)
  <2>1. T # {}
    OBVIOUS
  <2> HIDE DEF T
  <2>2. QED
    BY <1>2, <2>1, FS_StrictSubsetOrderingWellFounded, WFMin
<1>4. PICK x \in S : U = Below(x)
  OBVIOUS
<1>5. ASSUME NEW y \in S, y < x  PROVE FALSE
  <2>1. Below(y) \in T /\ Below(y) \in FiniteSubsetsOf(S) /\ U \in FiniteSubsetsOf(S)
    BY <1>2
  <2>2. Below(y) \subseteq Below(x) /\ y \in Below(x) /\ y \notin Below(y)
    <3>1. S \subseteq Int
      OBVIOUS
    <3>2. \A z \in S : z < y => z < x
      BY <3>1, <1>5
    <3>3. ~(y < y)
      BY <3>1
    <3>4. QED
      BY <3>2, <3>3, <1>5
  <2>3. <<Below(y), U>> \in StrictSubsetOrdering(S)
    BY <2>1, <2>2, <1>4 DEF StrictSubsetOrdering, FiniteSubsetsOf
  <2>4. QED
    BY <2>1, <2>3, <1>3
<1>6. QED
  BY <1>5
\* f holds the sums of the first 0, 1, ..., n gas limits of s.
IsTotalOf(f, s, n) ==
  f = [i \in 0..n |-> IF i = 0 THEN 0 ELSE f[i - 1] + s[i].gas]

LEMMA TotalExists ==
  ASSUME NEW s \in Seq(PendingTx)
  PROVE  \E f \in [0..Len(s) -> Nat] : IsTotalOf(f, s, Len(s))
<1> DEFINE Bad == {n \in 0..Len(s) : \A f \in [0..n -> Nat] : ~IsTotalOf(f, s, n)}
<1>0. Len(s) \in Nat
  OBVIOUS
<1>1. SUFFICES ASSUME Bad # {} PROVE FALSE
  <2>1. Len(s) \in 0..Len(s)
    BY <1>0
  <2>2. QED
    BY <2>1
<1>2. PICK least \in Bad : \A x \in Bad : least <= x
  <2>1. Bad \subseteq 0..Len(s)
    OBVIOUS
  <2> HIDE DEF Bad
  <2>2. QED
    BY <2>1, <1>0, <1>1, LeastExists
<1>3. least \in 0..Len(s) /\ least \in Nat
  BY <1>0
<1>4. CASE least = 0
  <2> DEFINE f == [i \in 0..0 |-> 0]
  <2>1. f \in [0..0 -> Nat] /\ IsTotalOf(f, s, 0)
    BY DEF IsTotalOf
  <2>2. QED
    BY <2>1, <1>4
<1>5. CASE least # 0
  <2>1. least - 1 \in 0..Len(s) /\ least - 1 \notin Bad
    <3> HIDE DEF Bad
    <3>1. least - 1 \in 0..Len(s) /\ ~(least <= least - 1)
      BY <1>3, <1>5, <1>0
    <3>2. QED
      BY <3>1, <1>2
  <2>2. PICK f \in [0..(least - 1) -> Nat] : IsTotalOf(f, s, least - 1)
    BY <2>1
  <2>3. s[least] \in PendingTx /\ s[least].gas \in Nat
    <3>1. least \in 1..Len(s)
      BY <1>3, <1>5, <1>0
    <3>2. s[least] \in PendingTx
      BY <3>1
    <3>3. QED
      BY <3>2, PricesAssumption DEF PendingTx
  <2> DEFINE g == [i \in 0..least |->
                     IF i = least THEN f[least - 1] + s[least].gas ELSE f[i]]
  <2>4. g \in [0..least -> Nat]
    <3>1. f[least - 1] \in Nat
      BY <1>3, <1>5
    <3>2. \A i \in 0..least : i # least => f[i] \in Nat
      BY <1>3
    <3>3. QED
      BY <2>3, <3>1, <3>2
  <2>5. IsTotalOf(g, s, least)
    <3>1. \A i \in 0..(least - 1) : g[i] = f[i]
      BY <1>3
    <3>2. \A i \in 0..least :
            g[i] = IF i = 0 THEN 0 ELSE g[i - 1] + s[i].gas
      <4> SUFFICES ASSUME NEW i \in 0..least
                   PROVE  g[i] = IF i = 0 THEN 0 ELSE g[i - 1] + s[i].gas
        OBVIOUS
      <4>1. CASE i = least
        <5>1. g[least] = f[least - 1] + s[least].gas
          BY <1>3
        <5>2. g[least - 1] = f[least - 1]
          BY <3>1, <1>3, <1>5
        <5>3. QED
          BY <4>1, <5>1, <5>2, <1>5
      <4>2. CASE i # least
        <5>1. i \in 0..(least - 1) /\ (i # 0 => i - 1 \in 0..(least - 1))
          BY <4>2, <1>3
        <5>2. f[i] = IF i = 0 THEN 0 ELSE f[i - 1] + s[i].gas
          BY <5>1, <2>2 DEF IsTotalOf
        <5> HIDE DEF g
        <5>3. QED
          BY <5>1, <5>2, <3>1
      <4>3. QED
        BY <4>1, <4>2
    <3>3. DOMAIN g = 0..least
      OBVIOUS
    <3>4. g = [i \in 0..least |-> g[i]]
      OBVIOUS
    <3> HIDE DEF g
    <3>5. QED
      BY <3>2, <3>4 DEF IsTotalOf
  <2>6. QED
    BY <2>4, <2>5, <1>2
<1>6. QED
  BY <1>4, <1>5

LEMMA GasTotal ==
  ASSUME NEW s \in Seq(PendingTx)
  PROVE  /\ GasOfFirst(s, 0) = 0
         /\ \A k \in 0..Len(s) : GasOfFirst(s, k) \in Nat
         /\ \A k \in 1..Len(s) : GasOfFirst(s, k) = GasOfFirst(s, k - 1) + s[k].gas
<1> DEFINE total == CHOOSE f : IsTotalOf(f, s, Len(s))
<1>1. IsTotalOf(total, s, Len(s))
  BY TotalExists
<1>2. \A k : GasOfFirst(s, k) = total[k]
  BY DEF GasOfFirst, IsTotalOf
<1>3. Len(s) \in Nat
  OBVIOUS
<1> HIDE DEF total
<1>4. \A k \in 0..Len(s) : total[k] = IF k = 0 THEN 0 ELSE total[k - 1] + s[k].gas
  BY <1>1 DEF IsTotalOf
<1>5. \A k \in 1..Len(s) : s[k].gas \in Nat
  <2>1. \A k \in 1..Len(s) : s[k] \in PendingTx
    OBVIOUS
  <2>2. QED
    BY <2>1, PricesAssumption DEF PendingTx
<1>6. \A k \in 0..Len(s) : total[k] \in Nat
  <2> DEFINE Bad == {k \in 0..Len(s) : total[k] \notin Nat}
  <2> SUFFICES ASSUME Bad # {} PROVE FALSE
    OBVIOUS
  <2>1. PICK least \in Bad : \A x \in Bad : least <= x
    <3>1. Bad \subseteq 0..Len(s)
      OBVIOUS
    <3> HIDE DEF Bad
    <3>2. QED
      BY <3>1, <1>3, LeastExists
  <2>2. least \in 1..Len(s)
    BY <1>3, <1>4
  <2>3. least - 1 \in 0..Len(s) /\ ~(least <= least - 1)
    BY <2>2, <1>3
  <2>4. total[least - 1] \in Nat
    BY <2>1, <2>3
  <2>5. QED
    BY <2>2, <2>4, <1>3, <1>4, <1>5
<1>7. \A k \in 1..Len(s) : k \in 0..Len(s) /\ k # 0
  BY <1>3
<1>8. QED
  BY <1>2, <1>3, <1>4, <1>6, <1>7
-----------------------------------------------------------------------------
(* A pool holds no transaction twice: the nonces of a sender tell them apart. *)

LEMMA PoolsSound ==
  ASSUME NEW p \in Pools
  PROVE  p \in Seq(PendingTx) /\ IsOneToOne(p)
<1> DEFINE Bids == [from : Senders, price : Prices, gas : Gases]
           Earlier(bids, i) == {j \in 1..(i - 1) : bids[j].from = bids[i].from}
           Numbered(bids) ==
             [i \in DOMAIN bids |->
                [from |-> bids[i].from, price |-> bids[i].price, gas |-> bids[i].gas,
                 nonce |-> Cardinality(Earlier(bids, i))]]
<1>a. PICK bids \in UNION {[1..n -> Bids] : n \in 0..MaxTxs} : p = Numbered(bids)
  BY Zenon DEF Pools
<1>b. PICK n \in 0..MaxTxs : bids \in [1..n -> Bids]
  BY <1>a
<1>2. n \in Nat /\ p = [i \in 1..n |-> p[i]]
  BY <1>a, <1>b, LimitAssumption
<1>3. \A i \in 1..n : bids[i] \in Bids
  BY <1>b
<1>4. \A i \in 1..n :
        IsFiniteSet(Earlier(bids, i)) /\ Cardinality(Earlier(bids, i)) \in Nat
  <2> SUFFICES ASSUME NEW i \in 1..n
               PROVE  IsFiniteSet(Earlier(bids, i)) /\ Cardinality(Earlier(bids, i)) \in Nat
    OBVIOUS
  <2>1. IsFiniteSet(1..(i - 1))
    <3>1. 1 \in Int /\ i - 1 \in Int
      BY <1>2
    <3>2. QED
      BY <3>1, FS_Interval
  <2>2. IsFiniteSet(Earlier(bids, i))
    BY <2>1, FS_Subset
  <2> HIDE DEF Earlier
  <2>3. QED
    BY <2>2, FS_CardinalityType
<1>5. \A i \in 1..n :
        /\ p[i] \in PendingTx /\ p[i].from = bids[i].from
        /\ p[i].nonce = Cardinality(Earlier(bids, i))
  <2> SUFFICES ASSUME NEW i \in 1..n
               PROVE  /\ p[i] \in PendingTx /\ p[i].from = bids[i].from
                      /\ p[i].nonce = Cardinality(Earlier(bids, i))
    OBVIOUS
  <2>1. p[i] = [from |-> bids[i].from, price |-> bids[i].price, gas |-> bids[i].gas,
                nonce |-> Cardinality(Earlier(bids, i))]
    BY <1>a, <1>b
  <2> HIDE DEF Earlier
  <2>2. QED
    BY <2>1, <1>3, <1>4 DEF PendingTx
<1>6. p \in Seq(PendingTx)
  <2>1. \A i \in 1..n : p[i] \in PendingTx
    BY <1>5
  <2> HIDE DEF Earlier
  <2>2. p \in [1..n -> PendingTx]
    BY <2>1, <1>2
  <2>3. QED
    BY <2>2, <1>2
<1>7. ASSUME NEW i \in 1..n, NEW k \in 1..n, i < k, p[i] = p[k]
      PROVE  FALSE
  <2>1. bids[i].from = bids[k].from
    BY <1>5, <1>7
  <2>2. Earlier(bids, i) \subseteq Earlier(bids, k)
    BY <1>2, <1>7, <2>1
  <2>3. i \in Earlier(bids, k) /\ i \notin Earlier(bids, i)
    BY <1>2, <1>7, <2>1
  <2>4. Cardinality(Earlier(bids, i)) # Cardinality(Earlier(bids, k))
    <3> HIDE DEF Earlier
    <3>1. QED
      BY <2>2, <2>3, <1>4, FS_Subset
  <2>5. QED
    BY <2>4, <1>5, <1>7
<1>8. IsOneToOne(p)
  <2>1. DOMAIN p = 1..n
    BY <1>2
  <2>2. QED
    BY <1>2, <1>7, <2>1 DEF IsOneToOne
<1>9. QED
  BY <1>6, <1>8

\* A sequence without repetition has as many places as it has elements.
LEMMA OneToOneLength ==
  ASSUME NEW S, NEW s \in Seq(S), IsOneToOne(s)
  PROVE  IsFiniteSet(Range(s)) /\ Cardinality(Range(s)) = Len(s)
<1>1. Len(s) \in Nat /\ DOMAIN s = 1..Len(s)
  OBVIOUS
<1>2. s \in Bijection(1..Len(s), Range(s))
  <2>1. s \in Injection(1..Len(s), Range(s))
    BY <1>1 DEF IsOneToOne, Injection, IsInjective, Range
  <2>2. s \in Surjection(1..Len(s), Range(s))
    BY <1>1 DEF Surjection, Range
  <2>3. QED
    BY <2>1, <2>2 DEF Bijection
<1>3. ExistsBijection(1..Len(s), Range(s))
  BY <1>2 DEF ExistsBijection
<1>4. QED
  BY <1>1, <1>3, FS_Bijection, FS_Interval
-----------------------------------------------------------------------------
(* The steps of the sort.                                                   *)

LEMMA HeadAndTail ==
  ASSUME NEW S, NEW s \in Seq(S), s # <<>>
  PROVE  /\ Head(s) = s[1] /\ 1 \in DOMAIN s /\ Tail(s) \in Seq(S)
         /\ Range(s) = {Head(s)} \cup Range(Tail(s))
         /\ \A j \in DOMAIN Tail(s) :
              j + 1 \in DOMAIN s /\ Tail(s)[j] = s[j + 1] /\ 1 < j + 1
<1>1. /\ Len(s) \in Nat /\ Len(s) > 0 /\ DOMAIN s = 1..Len(s)
      /\ Tail(s) \in Seq(S) /\ DOMAIN Tail(s) = 1..(Len(s) - 1)
      /\ Head(s) = s[1] /\ \A j \in 1..(Len(s) - 1) : Tail(s)[j] = s[j + 1]
  OBVIOUS
<1>2. \A i \in DOMAIN s : i = 1 \/ (i - 1 \in DOMAIN Tail(s) /\ Tail(s)[i - 1] = s[i])
  BY <1>1
<1>3. \A j \in DOMAIN Tail(s) :
        j + 1 \in DOMAIN s /\ Tail(s)[j] = s[j + 1] /\ 1 < j + 1
  BY <1>1
<1>4. Range(s) \subseteq {Head(s)} \cup Range(Tail(s))
  BY <1>1, <1>2 DEF Range
<1>5. {Head(s)} \cup Range(Tail(s)) \subseteq Range(s)
  BY <1>1, <1>3 DEF Range
<1>6. QED
  BY <1>1, <1>3, <1>4, <1>5

LEMMA AppendedTo ==
  ASSUME NEW S, NEW s \in Seq(S), NEW e \in S
  PROVE  /\ Append(s, e) \in Seq(S) /\ Len(Append(s, e)) = Len(s) + 1
         /\ Range(Append(s, e)) = Range(s) \cup {e}
         /\ Len(s) \in Nat /\ DOMAIN s = 1..Len(s)
         /\ DOMAIN Append(s, e) = 1..(Len(s) + 1)
         /\ Append(s, e)[Len(s) + 1] = e
         /\ \A i \in 1..Len(s) : Append(s, e)[i] = s[i]
<1>1. /\ Append(s, e) \in Seq(S) /\ Len(Append(s, e)) = Len(s) + 1
      /\ Len(s) \in Nat /\ DOMAIN s = 1..Len(s)
      /\ DOMAIN Append(s, e) = 1..(Len(s) + 1)
      /\ Append(s, e)[Len(s) + 1] = e
      /\ \A i \in 1..Len(s) : Append(s, e)[i] = s[i]
  OBVIOUS
<1>2. \A i \in DOMAIN Append(s, e) : i \in DOMAIN s \/ i = Len(s) + 1
  BY <1>1
<1>3. Len(s) + 1 \in DOMAIN Append(s, e) /\ \A i \in DOMAIN s : i \in DOMAIN Append(s, e)
  BY <1>1
<1>4. Range(Append(s, e)) = Range(s) \cup {e}
  BY <1>1, <1>2, <1>3 DEF Range
<1>5. QED
  BY <1>1, <1>4

LEMMA PoolIs ==
  ASSUME PSTypeOK
  PROVE  /\ Range(unsorted) \subseteq PendingTx
         /\ \A a \in Senders : Range(sortedByNonce[a]) \subseteq PendingTx
         /\ Range(sorted_transactions) \subseteq PendingTx
         /\ Len(sorted_transactions) \in Nat
         /\ DOMAIN sorted_transactions = 1..Len(sorted_transactions)
         /\ \A i \in DOMAIN sorted_transactions : sorted_transactions[i] \in PendingTx
         /\ \A tx \in PendingTx : tx.from \in Senders /\ tx.nonce \in Nat /\ tx.price \in Nat
                                  /\ tx.gas \in Nat /\ tx.gas <= maxGasLimit /\ tx.gas > 0
<1>1. \A tx \in PendingTx : tx.from \in Senders /\ tx.nonce \in Nat /\ tx.price \in Nat
                            /\ tx.gas \in Nat /\ tx.gas <= maxGasLimit /\ tx.gas > 0
  <2>1. Prices \subseteq Nat /\ \A gas \in Gases : gas \in Nat /\ gas > 0 /\ gas <= maxGasLimit
    BY PricesAssumption, LimitAssumption
  <2>2. QED
    BY <2>1 DEF PendingTx
<1>2. \A s \in Seq(PendingTx) :
        /\ Range(s) \subseteq PendingTx /\ Len(s) \in Nat /\ DOMAIN s = 1..Len(s)
        /\ \A i \in DOMAIN s : s[i] \in PendingTx
  BY DEF Range
<1>3. QED
  BY <1>1, <1>2 DEF PSTypeOK

LEMMA PSInitial ==
  ASSUME PSInit
  PROVE  PoolSortInv
<1>1. unsorted \in Seq(PendingTx) /\ IsOneToOne(unsorted)
  BY PoolsSound DEF PSInit
<1>2. PSTypeOK
  BY <1>1 DEF PSInit, PSTypeOK
<1>3. QED
  BY <1>1, <1>2 DEF PSInit, PoolSortInv

LEMMA GroupKeepsInv ==
  ASSUME PoolSortInv, Group
  PROVE  PoolSortInv'
<1>1. \A a \in Senders : sortedByNonce'[a] \in Seq(PendingTx)
  <2> SUFFICES ASSUME NEW a \in Senders  PROVE sortedByNonce'[a] \in Seq(PendingTx)
    OBVIOUS
  <2>1. From(a) \subseteq PendingTx
    BY PoolIs DEF PoolSortInv, From
  <2>2. IsFiniteSet(From(a))
    <3>1. IsFiniteSet(Range(unsorted))
      BY OneToOneLength DEF PoolSortInv, PSTypeOK
    <3>2. QED
      BY <3>1, FS_Subset DEF From
  <2>3. Cardinality(From(a)) \in Nat
    BY <2>2, FS_CardinalityType
  <2>4. sortedByNonce'[a] \in [1..Cardinality(From(a)) -> From(a)]
    BY DEF Group, NonceSorts
  <2>5. QED
    BY <2>1, <2>3, <2>4
<1>2. sortedByNonce' \in [Senders -> Seq(PendingTx)]
  <2>1. sortedByNonce' = [a \in Senders |-> sortedByNonce'[a]]
    BY DEF Group
  <2>2. QED
    BY <2>1, <1>1
<1>3. PSTypeOK'
  BY <1>2 DEF PoolSortInv, PSTypeOK, Group
<1>4. \A a \in Senders : sortedByNonce'[a] \in NonceSorts(From(a))'
  BY DEF Group, NonceSorts, From
<1>5. IsOneToOne(unsorted)' /\ pc' = "heap"
  BY DEF PoolSortInv, Group, IsOneToOne
<1>6. /\ heap' = {} /\ sorted_transactions' = <<>>
      /\ currentTransactions' = <<>> /\ totalGasLimit' = 0
  BY DEF PoolSortInv, Group
<1>7. QED
  BY <1>3, <1>4, <1>5, <1>6 DEF PoolSortInv

\* What FillHeap finds in a sender's array, position by position.
LEMMA ArrayIs ==
  ASSUME PSTypeOK, NEW a \in Senders, sortedByNonce[a] \in NonceSorts(From(a))
  PROVE  /\ sortedByNonce[a] \in Seq(PendingTx)
         /\ Range(sortedByNonce[a]) = From(a)
         /\ GroupSorted(a)
<1>1. sortedByNonce[a] \in Seq(PendingTx) /\ Range(sortedByNonce[a]) = From(a)
  BY DEF PSTypeOK, NonceSorts
<1>2. \A i \in DOMAIN sortedByNonce[a] : sortedByNonce[a][i].from = a
  BY <1>1 DEF From, Range
<1>3. QED
  BY <1>1, <1>2 DEF NonceSorts, GroupSorted

LEMMA FillHeapKeepsInv ==
  ASSUME PoolSortInv, FillHeap
  PROVE  PoolSortInv'
<1> DEFINE g == sortedByNonce
           senders == {a \in Senders : sortedByNonce[a] # <<>>}
<1>0. PSTypeOK /\ pc = "heap" /\ heap = {} /\ sorted_transactions = <<>>
  BY DEF PoolSortInv, FillHeap
<1>1. \A a \in Senders :
        g[a] \in Seq(PendingTx) /\ Range(g[a]) = From(a) /\ GroupSorted(a)
  BY <1>0, ArrayIs DEF PoolSortInv
<1>2. \A a \in senders :
        /\ Head(g[a]) = g[a][1] /\ 1 \in DOMAIN g[a] /\ Tail(g[a]) \in Seq(PendingTx)
        /\ From(a) = {Head(g[a])} \cup Range(Tail(g[a]))
        /\ \A j \in DOMAIN Tail(g[a]) :
             j + 1 \in DOMAIN g[a] /\ Tail(g[a])[j] = g[a][j + 1] /\ 1 < j + 1
  <2> SUFFICES ASSUME NEW a \in senders
               PROVE  /\ Head(g[a]) = g[a][1] /\ 1 \in DOMAIN g[a]
                      /\ Tail(g[a]) \in Seq(PendingTx)
                      /\ From(a) = {Head(g[a])} \cup Range(Tail(g[a]))
                      /\ \A j \in DOMAIN Tail(g[a]) :
                           j + 1 \in DOMAIN g[a] /\ Tail(g[a])[j] = g[a][j + 1] /\ 1 < j + 1
    OBVIOUS
  <2>1. g[a] \in Seq(PendingTx) /\ Range(g[a]) = From(a) /\ g[a] # <<>>
    BY <1>1
  <2> HIDE DEF g
  <2>2. QED
    BY <2>1, HeadAndTail
<1>3. /\ heap' = {Head(g[a]) : a \in senders}
      /\ \A a \in senders : g'[a] = Tail(g[a])
      /\ \A a \in Senders \ senders : g'[a] = <<>> /\ g[a] = <<>>
      /\ g' = [a \in Senders |-> g'[a]]
      /\ unsorted' = unsorted /\ sorted_transactions' = <<>> /\ pc' = "merge"
      /\ currentTransactions' = currentTransactions /\ totalGasLimit' = totalGasLimit
  BY <1>0 DEF FillHeap
<1>4. \A a \in Senders : \A tx \in From(a) : tx.from = a /\ tx \in Range(unsorted)
  BY DEF From
<1>5. \A tx \in heap' : /\ tx.from \in senders /\ tx = g[tx.from][1]
                        /\ tx \in From(tx.from) /\ tx \in PendingTx
  <2>1. \A a \in senders : Head(g[a]) \in From(a) /\ Head(g[a]) = g[a][1]
    BY <1>2
  <2>2. \A a \in Senders : \A tx \in From(a) : tx \in PendingTx
    BY <1>0, <1>4, PoolIs
  <2>3. QED
    BY <1>3, <1>4, <2>1, <2>2
<1>6. \A a \in senders : \A i \in DOMAIN g[a] :
        /\ g[a][i].from = a
        /\ 1 < i => g[a][1] # g[a][i] /\ g[a][1].nonce <= g[a][i].nonce
  BY <1>1, <1>2 DEF GroupSorted
<1>7. \A a \in senders : \A j \in DOMAIN Tail(g[a]) :
        /\ Tail(g[a])[j].from = a
        /\ g[a][1] # Tail(g[a])[j] /\ g[a][1].nonce <= Tail(g[a])[j].nonce
  BY <1>2, <1>6
<1>8. PSTypeOK'
  <2>1. \A a \in Senders : g'[a] \in Seq(PendingTx)
    BY <1>1, <1>2, <1>3
  <2>2. g' \in [Senders -> Seq(PendingTx)]
    BY <2>1, <1>3
  <2>3. heap' \subseteq PendingTx
    BY <1>5
  <2>4. QED
    BY <2>2, <2>3, <1>0, <1>3 DEF PSTypeOK
<1>9. Parted'
  <2>1. Range(sorted_transactions') = {} /\ IsOneToOne(sorted_transactions)'
    BY <1>3 DEF Range, IsOneToOne
  <2>2. \A a \in Senders : Range(g'[a]) \subseteq From(a)
    <3>1. \A a \in Senders \ senders : Range(g'[a]) = {}
      BY <1>3 DEF Range
    <3>2. QED
      BY <3>1, <1>2, <1>3
  <2>3. \A tx \in Range(unsorted) : tx.from \in Senders /\ tx \in From(tx.from)
    BY <1>0, PoolIs DEF From
  <2>4. \A tx \in Range(unsorted) :
          tx \in heap' \/ \E a \in Senders : tx \in Range(g'[a])
    <3> SUFFICES ASSUME NEW tx \in Range(unsorted)
                 PROVE  tx \in heap' \/ tx \in Range(g'[tx.from])
      BY <2>3
    <3>1. tx.from \in senders
      BY <2>3, <1>1 DEF Range
    <3>2. tx = Head(g[tx.from]) \/ tx \in Range(Tail(g[tx.from]))
      BY <3>1, <2>3, <1>2
    <3>3. QED
      BY <3>1, <3>2, <1>3
  <2>5. \A a \in Senders : Range(g'[a]) \cap heap' = {}
    <3> SUFFICES ASSUME NEW a \in Senders, NEW tx \in heap', tx \in Range(g'[a])
                 PROVE  FALSE
      OBVIOUS
    <3>1. tx.from = a /\ a \in senders /\ tx = g[a][1]
      BY <2>2, <1>4, <1>5
    <3>2. PICK j \in DOMAIN Tail(g[a]) : tx = Tail(g[a])[j]
      BY <3>1, <1>3 DEF Range
    <3>3. g[a][1] # Tail(g[a])[j]
      BY <3>1, <3>2, <1>7
    <3>4. QED
      BY <3>1, <3>2, <3>3
  <2>6. Range(unsorted) = heap' \cup UNION {Range(g'[a]) : a \in Senders}
    BY <2>2, <2>4, <1>4, <1>5
  <2>7. QED
    BY <2>1, <2>5, <2>6, <1>3 DEF Parted
<1>10. OneHeadEach'
  <2>1. \A tx, other \in heap' : tx.from = other.from => tx = other
    BY <1>5
  <2>2. \A a \in Senders : g'[a] # <<>> => \E tx \in heap' : tx.from = a
    <3> SUFFICES ASSUME NEW a \in Senders, g'[a] # <<>>
                 PROVE  \E tx \in heap' : tx.from = a
      OBVIOUS
    <3>1. a \in senders
      BY <1>3
    <3>2. Head(g[a]) \in heap' /\ Head(g[a]).from = a
      BY <3>1, <1>2, <1>3, <1>4
    <3>3. QED
      BY <3>2
  <2>3. \A tx \in heap' : \A j \in DOMAIN g'[tx.from] : tx.nonce <= g'[tx.from][j].nonce
    BY <1>3, <1>5, <1>7
  <2>4. QED
    BY <2>1, <2>2, <2>3 DEF OneHeadEach
<1>11. \A a \in Senders : GroupSorted(a)'
  <2> SUFFICES ASSUME NEW a \in Senders, NEW i \in DOMAIN g'[a], NEW j \in DOMAIN g'[a]
               PROVE  /\ g'[a][i].from = a
                      /\ i < j => g'[a][i] # g'[a][j] /\ g'[a][i].nonce <= g'[a][j].nonce
    BY DEF GroupSorted
  <2>1. a \in senders
    BY <1>3
  <2>2. i \in DOMAIN Tail(g[a]) /\ j \in DOMAIN Tail(g[a])
    BY <2>1, <1>3
  <2>3. /\ g'[a][i] = g[a][i + 1] /\ g'[a][j] = g[a][j + 1]
        /\ i + 1 \in DOMAIN g[a] /\ j + 1 \in DOMAIN g[a]
    BY <2>1, <2>2, <1>2, <1>3
  <2>4. i \in Nat /\ j \in Nat
    BY <2>1, <2>2, <1>2
  <2>5. i < j => i + 1 < j + 1
    BY <2>4
  <2>6. QED
    BY <2>1, <2>3, <2>5, <1>1 DEF GroupSorted
<1>12. SortedComesFirst' /\ HeadsBidLess' /\ IsPriceNonceOrder(sorted_transactions)'
  <2>1. DOMAIN sorted_transactions' = {}
    BY <1>3
  <2>2. QED
    BY <2>1 DEF SortedComesFirst, HeadsBidLess, IsPriceNonceOrder
<1>13. IsOneToOne(unsorted)'
  BY <1>3 DEF PoolSortInv, IsOneToOne
<1>14. currentTransactions' = <<>> /\ totalGasLimit' = 0
  BY <1>0, <1>3 DEF PoolSortInv
<1>15. QED
  BY <1>3, <1>8, <1>9, <1>10, <1>11, <1>12, <1>13, <1>14 DEF PoolSortInv, MergeInv

(* One turn of the loop: best is popped, and the next of its sender, if any, *)
(* takes its place in the heap.                                             *)
Merged(best) ==
  /\ pc = "merge" /\ best \in heap /\ IsBest(best)
  /\ heap' = Refilled(best)
  /\ sortedByNonce' = [sortedByNonce EXCEPT ![best.from] =
                         IF @ = <<>> THEN <<>> ELSE Tail(@)]
  /\ sorted_transactions' = Append(sorted_transactions, best)
  /\ UNCHANGED <<unsorted, currentTransactions, totalGasLimit, pc>>

\* What changes: the array of the sender loses its first, which is in the heap.
LEMMA MergedIs ==
  ASSUME PSTypeOK, MergeInv, NEW best, Merged(best)
  PROVE  LET a == best.from IN
         /\ best \in PendingTx /\ a \in Senders
         /\ sortedByNonce' \in [Senders -> Seq(PendingTx)]
         /\ \A b \in Senders : b # a => sortedByNonce'[b] = sortedByNonce[b]
         /\ \/ /\ sortedByNonce[a] = <<>> /\ sortedByNonce'[a] = <<>>
               /\ heap' = heap \ {best}
            \/ /\ sortedByNonce[a] # <<>>
               /\ sortedByNonce[a][1] \in PendingTx /\ sortedByNonce[a][1].from = a
               /\ heap' = (heap \ {best}) \cup {sortedByNonce[a][1]}
               /\ Range(sortedByNonce[a]) =
                    {sortedByNonce[a][1]} \cup Range(sortedByNonce'[a])
               /\ 1 \in DOMAIN sortedByNonce[a]
               /\ \A j \in DOMAIN sortedByNonce'[a] :
                    /\ j + 1 \in DOMAIN sortedByNonce[a] /\ 1 < j + 1
                    /\ sortedByNonce'[a][j] = sortedByNonce[a][j + 1]
<1> DEFINE a == best.from
           g == sortedByNonce
<1>1. best \in PendingTx /\ a \in Senders
  BY PoolIs DEF Merged, PSTypeOK
<1>2. g[a] \in Seq(PendingTx) /\ g \in [Senders -> Seq(PendingTx)]
  BY <1>1 DEF PSTypeOK
<1>3. /\ g' = [g EXCEPT ![a] = IF g[a] = <<>> THEN <<>> ELSE Tail(g[a])]
      /\ heap' = (heap \ {best}) \cup (IF g[a] = <<>> THEN {} ELSE {Head(g[a])})
  BY DEF Merged, Refilled
<1>4. (IF g[a] = <<>> THEN <<>> ELSE Tail(g[a])) \in Seq(PendingTx)
  BY <1>2
<1>5. /\ g' \in [Senders -> Seq(PendingTx)]
      /\ \A b \in Senders : b # a => g'[b] = g[b]
      /\ g'[a] = IF g[a] = <<>> THEN <<>> ELSE Tail(g[a])
  BY <1>1, <1>2, <1>3, <1>4
<1>6. CASE g[a] = <<>>
  BY <1>1, <1>3, <1>5, <1>6
<1>7. CASE g[a] # <<>>
  <2>1. /\ Head(g[a]) = g[a][1] /\ 1 \in DOMAIN g[a] /\ g'[a] = Tail(g[a])
        /\ Range(g[a]) = {Head(g[a])} \cup Range(Tail(g[a]))
        /\ \A j \in DOMAIN Tail(g[a]) :
             j + 1 \in DOMAIN g[a] /\ Tail(g[a])[j] = g[a][j + 1] /\ 1 < j + 1
    <3> HIDE DEF g, a
    <3>1. QED
      BY <1>2, <1>5, <1>7, HeadAndTail
  <2>2. g[a][1].from = a
    BY <1>1, <2>1 DEF MergeInv, GroupSorted
  <2>3. g[a][1] \in PendingTx
    BY <1>2, <2>1
  <2> HIDE DEF g
  <2>4. heap' = (heap \ {best}) \cup {g[a][1]}
    BY <1>3, <1>7, <2>1
  <2>5. QED
    BY <1>1, <1>5, <1>7, <2>1, <2>2, <2>3, <2>4 DEF g
<1>8. QED
  BY <1>6, <1>7

LEMMA MergeParts ==
  ASSUME PSTypeOK, MergeInv, NEW best, Merged(best)
  PROVE  Parted'
<1> DEFINE a == best.from
           g == sortedByNonce
           s == sorted_transactions
<1>1. /\ s \in Seq(PendingTx) /\ best \in PendingTx /\ a \in Senders
      /\ s' = Append(s, best) /\ unsorted' = unsorted /\ best \in heap
  BY MergedIs DEF Merged, PSTypeOK
<1>2. /\ Range(s') = Range(s) \cup {best} /\ DOMAIN s = 1..Len(s) /\ Len(s) \in Nat
      /\ DOMAIN s' = 1..(Len(s) + 1) /\ s'[Len(s) + 1] = best
      /\ \A i \in 1..Len(s) : s'[i] = s[i]
  <2> HIDE DEF s
  <2>1. QED
    BY <1>1, AppendedTo
<1>3. \A b \in Senders : b # a => g'[b] = g[b]
  BY MergedIs
<1>4. /\ Range(unsorted) = Range(s) \cup heap \cup UNION {Range(g[b]) : b \in Senders}
      /\ heap \cap Range(s) = {} /\ IsOneToOne(s)
      /\ \A b \in Senders : Range(g[b]) \cap (heap \cup Range(s)) = {}
  BY DEF MergeInv, Parted
<1>5. IsOneToOne(s')
  <2>1. best \notin Range(s)
    BY <1>1, <1>4
  <2>2. \A i \in 1..Len(s) : s[i] # best
    BY <1>2, <2>1 DEF Range
  <2>3. \A i, j \in 1..Len(s) : s[i] = s[j] => i = j
    BY <1>2, <1>4 DEF IsOneToOne
  <2>4. \A i \in DOMAIN s' : i \in 1..Len(s) \/ i = Len(s) + 1
    BY <1>2
  <2> HIDE DEF s
  <2>5. QED
    BY <1>2, <2>2, <2>3, <2>4 DEF IsOneToOne
<1>6. CASE g[a] = <<>> /\ g'[a] = <<>> /\ heap' = heap \ {best}
  <2>1. \A b \in Senders : g'[b] = g[b]
    BY <1>3, <1>6
  <2>2. Range(unsorted) = Range(s') \cup heap' \cup UNION {Range(g'[b]) : b \in Senders}
    BY <1>1, <1>2, <1>4, <1>6, <2>1
  <2>3. heap' \cap Range(s') = {}
    BY <1>2, <1>4, <1>6
  <2>4. \A b \in Senders : Range(g'[b]) \cap (heap' \cup Range(s')) = {}
    BY <1>1, <1>2, <1>4, <1>6, <2>1
  <2>5. QED
    BY <1>1, <1>5, <2>2, <2>3, <2>4 DEF Parted
<1>7. CASE /\ g[a] # <<>> /\ 1 \in DOMAIN g[a]
           /\ heap' = (heap \ {best}) \cup {g[a][1]}
           /\ Range(g[a]) = {g[a][1]} \cup Range(g'[a])
           /\ \A j \in DOMAIN g'[a] : /\ j + 1 \in DOMAIN g[a] /\ 1 < j + 1
                                      /\ g'[a][j] = g[a][j + 1]
  <2>1. g[a][1] \in Range(g[a]) /\ g[a][1] \notin heap /\ g[a][1] \notin Range(s)
    BY <1>1, <1>4, <1>7
  <2>2. g[a][1] \notin Range(g'[a])
    <3>1. \A j \in DOMAIN g'[a] : g[a][1] # g'[a][j]
      BY <1>1, <1>7 DEF MergeInv, GroupSorted
    <3>2. QED
      BY <3>1 DEF Range
  <2>3. \A b \in Senders : b # a => g[a][1] \notin Range(g[b])
    <3>1. \A b \in Senders : \A tx \in Range(g[b]) : tx.from = b
      BY DEF MergeInv, GroupSorted, Range
    <3>2. QED
      BY <1>1, <2>1, <3>1
  <2>4. Range(g'[a]) \subseteq Range(g[a])
    BY <1>7
  <2>5. \A b \in Senders : Range(g'[b]) \subseteq Range(g[b]) /\ g[a][1] \notin Range(g'[b])
    BY <1>3, <2>2, <2>3, <2>4
  <2>6. \A b \in Senders : b # a => Range(g'[b]) = Range(g[b])
    BY <1>3
  <2>7. UNION {Range(g[b]) : b \in Senders}
          = {g[a][1]} \cup UNION {Range(g'[b]) : b \in Senders}
    <3>1. \A tx : (\E b \in Senders : tx \in Range(g[b]))
                    <=> (tx = g[a][1] \/ \E b \in Senders : tx \in Range(g'[b]))
      <4> SUFFICES ASSUME NEW tx
                   PROVE  (\E b \in Senders : tx \in Range(g[b]))
                            <=> (tx = g[a][1] \/ \E b \in Senders : tx \in Range(g'[b]))
        OBVIOUS
      <4>1. ASSUME NEW b \in Senders, tx \in Range(g[b])
            PROVE  tx = g[a][1] \/ \E c \in Senders : tx \in Range(g'[c])
        <5>1. CASE b = a
          BY <4>1, <5>1, <1>1, <1>7
        <5>2. CASE b # a
          BY <4>1, <5>2, <2>6
        <5>3. QED
          BY <5>1, <5>2
      <4>2. QED
        BY <4>1, <2>1, <2>5, <1>1
    <3>2. QED
      BY <3>1
  <2> HIDE DEF a, g, s
  <2>8. Range(unsorted) = Range(s') \cup heap' \cup UNION {Range(g'[b]) : b \in Senders}
    BY <1>1, <1>2, <1>4, <1>7, <2>7
  <2>9. heap' \cap Range(s') = {}
    BY <1>1, <1>2, <1>4, <1>7, <2>1
  <2>10. \A b \in Senders : Range(g'[b]) \cap (heap' \cup Range(s')) = {}
    <3> SUFFICES ASSUME NEW b \in Senders, NEW tx \in Range(g'[b])
                 PROVE  tx \notin heap' /\ tx \notin Range(s')
      OBVIOUS
    <3>1. tx \in Range(g[b]) /\ tx # g[a][1]
      BY <2>5
    <3>2. tx \notin heap /\ tx \notin Range(s) /\ tx # best
      BY <3>1, <1>1, <1>4
    <3>3. QED
      BY <3>1, <3>2, <1>2, <1>7
  <2>11. QED
    BY <1>1, <1>5, <2>8, <2>9, <2>10 DEF Parted, g, s
<1>8. QED
  BY <1>6, <1>7, MergedIs

LEMMA MergeHeads ==
  ASSUME PSTypeOK, MergeInv, NEW best, Merged(best)
  PROVE  OneHeadEach' /\ \A b \in Senders : GroupSorted(b)'
<1> DEFINE a == best.from
           g == sortedByNonce
<1>1. /\ best \in PendingTx /\ a \in Senders /\ best \in heap
      /\ g \in [Senders -> Seq(PendingTx)]
  BY MergedIs DEF Merged, PSTypeOK
<1>2. \A b \in Senders : b # a => g'[b] = g[b]
  BY MergedIs
<1>3. /\ \A tx, other \in heap : tx.from = other.from => tx = other
      /\ \A b \in Senders : g[b] # <<>> => \E tx \in heap : tx.from = b
      /\ \A tx \in heap : \A j \in DOMAIN g[tx.from] : tx.nonce <= g[tx.from][j].nonce
      /\ \A tx \in heap : tx.from \in Senders
  BY PoolIs DEF MergeInv, OneHeadEach, PSTypeOK
<1>4. \A tx \in heap \ {best} : tx.from # a
  BY <1>1, <1>3
<1>5. CASE g[a] = <<>> /\ g'[a] = <<>> /\ heap' = heap \ {best}
  <2>1. \A b \in Senders : g'[b] = g[b]
    BY <1>2, <1>5
  <2>2. OneHeadEach'
    <3>1. \A tx, other \in heap' : tx.from = other.from => tx = other
      BY <1>3, <1>5
    <3>2. \A b \in Senders : g'[b] # <<>> => \E tx \in heap' : tx.from = b
      BY <1>1, <1>3, <1>5, <2>1
    <3>3. \A tx \in heap' : \A j \in DOMAIN g'[tx.from] : tx.nonce <= g'[tx.from][j].nonce
      BY <1>3, <1>5, <2>1
    <3>4. QED
      BY <3>1, <3>2, <3>3 DEF OneHeadEach
  <2>3. \A b \in Senders : GroupSorted(b)'
    BY <2>1 DEF MergeInv, GroupSorted
  <2>4. QED
    BY <2>2, <2>3
<1>6. CASE /\ g[a] # <<>> /\ 1 \in DOMAIN g[a] /\ g[a][1].from = a
           /\ heap' = (heap \ {best}) \cup {g[a][1]}
           /\ \A j \in DOMAIN g'[a] : /\ j + 1 \in DOMAIN g[a] /\ 1 < j + 1
                                      /\ g'[a][j] = g[a][j + 1]
  <2>1. \A j \in DOMAIN g[a] : 1 < j => g[a][1].nonce <= g[a][j].nonce
    BY <1>1, <1>6 DEF MergeInv, GroupSorted
  <2>2. OneHeadEach'
    <3>1. \A tx, other \in heap' : tx.from = other.from => tx = other
      BY <1>3, <1>4, <1>6
    <3>2. \A b \in Senders : g'[b] # <<>> => \E tx \in heap' : tx.from = b
      <4> SUFFICES ASSUME NEW b \in Senders, g'[b] # <<>>
                   PROVE  \E tx \in heap' : tx.from = b
        OBVIOUS
      <4>1. CASE b = a
        BY <4>1, <1>6
      <4>2. CASE b # a
        <5>1. PICK tx \in heap : tx.from = b
          BY <1>2, <1>3, <4>2
        <5>2. QED
          BY <5>1, <4>2, <1>6
      <4>3. QED
        BY <4>1, <4>2
    <3>3. \A tx \in heap' : \A j \in DOMAIN g'[tx.from] : tx.nonce <= g'[tx.from][j].nonce
      <4> SUFFICES ASSUME NEW tx \in heap', NEW j \in DOMAIN g'[tx.from]
                   PROVE  tx.nonce <= g'[tx.from][j].nonce
        OBVIOUS
      <4>1. CASE tx = g[a][1]
        <5>1. j \in DOMAIN g'[a] /\ tx.from = a
          BY <4>1, <1>6
        <5>2. g'[a][j] = g[a][j + 1] /\ j + 1 \in DOMAIN g[a] /\ 1 < j + 1
          BY <5>1, <1>6
        <5> HIDE DEF g, a
        <5>3. QED
          BY <4>1, <5>1, <5>2, <2>1
      <4>2. CASE tx \in heap \ {best}
        BY <4>2, <1>2, <1>3, <1>4
      <4>3. QED
        BY <4>1, <4>2, <1>6
    <3>4. QED
      BY <3>1, <3>2, <3>3 DEF OneHeadEach
  <2>3. GroupSorted(a)'
    <3> SUFFICES ASSUME NEW i \in DOMAIN g'[a], NEW j \in DOMAIN g'[a]
                 PROVE  /\ g'[a][i].from = a
                        /\ i < j => g'[a][i] # g'[a][j] /\ g'[a][i].nonce <= g'[a][j].nonce
      BY DEF GroupSorted
    <3>1. /\ g'[a][i] = g[a][i + 1] /\ g'[a][j] = g[a][j + 1]
          /\ i + 1 \in DOMAIN g[a] /\ j + 1 \in DOMAIN g[a]
      BY <1>6
    <3>2. i \in Nat /\ j \in Nat
      <4>1. g'[a] \in Seq(PendingTx)
        BY MergedIs
      <4>2. QED
        BY <4>1
    <3>3. i < j => i + 1 < j + 1
      BY <3>2
    <3>4. \A k, m \in DOMAIN g[a] :
            /\ g[a][k].from = a
            /\ k < m => g[a][k] # g[a][m] /\ g[a][k].nonce <= g[a][m].nonce
      BY <1>1 DEF MergeInv, GroupSorted
    <3> HIDE DEF g, a
    <3>5. QED
      BY <3>1, <3>3, <3>4
  <2>4. \A b \in Senders : b # a => GroupSorted(b)'
    BY <1>2 DEF MergeInv, GroupSorted
  <2>5. QED
    BY <2>2, <2>3, <2>4
<1>7. QED
  BY <1>5, <1>6, MergedIs

LEMMA MergeOrders ==
  ASSUME PSTypeOK, MergeInv, NEW best, Merged(best)
  PROVE  SortedComesFirst' /\ HeadsBidLess' /\ IsPriceNonceOrder(sorted_transactions)'
<1> DEFINE a == best.from
           g == sortedByNonce
           s == sorted_transactions
           n == Len(s)
           next == g[a][1]
<1>1. /\ s \in Seq(PendingTx) /\ best \in PendingTx /\ a \in Senders
      /\ s' = Append(s, best) /\ best \in heap
      /\ \A tx \in heap : tx.price <= best.price
      /\ heap \subseteq PendingTx
  BY MergedIs DEF Merged, PSTypeOK, IsBest
<1>2. /\ DOMAIN s = 1..n /\ n \in Nat /\ Len(s') = n + 1
      /\ DOMAIN s' = 1..(n + 1) /\ s'[n + 1] = best
      /\ \A i \in 1..n : s'[i] = s[i] /\ s[i] \in PendingTx
  <2>1. \A i \in 1..n : s[i] \in PendingTx
    BY <1>1
  <2> HIDE DEF s
  <2>2. QED
    BY <1>1, <2>1, AppendedTo
<1>3. \A tx \in PendingTx : tx.from \in Senders /\ tx.nonce \in Nat /\ tx.price \in Nat
  BY PoolIs
<1>4. \A tx \in heap : tx.from = a => tx = best
  BY <1>1 DEF MergeInv, OneHeadEach
<1>5. \/ g[a] = <<>> /\ g'[a] = <<>> /\ heap' = heap \ {best}
      \/ /\ g[a] # <<>> /\ 1 \in DOMAIN g[a] /\ next \in PendingTx /\ next.from = a
         /\ heap' = (heap \ {best}) \cup {next}
         /\ \A j \in DOMAIN g'[a] : /\ j + 1 \in DOMAIN g[a] /\ 1 < j + 1
                                    /\ g'[a][j] = g[a][j + 1]
  BY MergedIs
<1>6. \A tx \in heap' : \/ tx \in heap \ {best} /\ tx.from # a
                        \/ tx = next /\ next.from = a /\ 1 \in DOMAIN g[a]
  <2>1. \A tx \in heap \ {best} : tx.from # a
    BY <1>4
  <2> HIDE DEF next, g, a
  <2>2. QED
    BY <2>1, <1>5
<1>7. \A b \in Senders : b # a => g'[b] = g[b]
  BY MergedIs
<1>8. /\ \A i \in 1..n, tx \in heap : tx.from = s[i].from => s[i].nonce <= tx.nonce
      /\ \A i \in 1..n : \A j \in DOMAIN g[s[i].from] : s[i].nonce <= g[s[i].from][j].nonce
      /\ \A j \in DOMAIN g[a] : best.nonce <= g[a][j].nonce
  BY <1>1, <1>2 DEF MergeInv, SortedComesFirst, OneHeadEach
<1>9. SortedComesFirst'
  <2>1. \A i \in 1..(n + 1), tx \in heap' : tx.from = s'[i].from => s'[i].nonce <= tx.nonce
    <3> SUFFICES ASSUME NEW i \in 1..(n + 1), NEW tx \in heap', tx.from = s'[i].from
                 PROVE  s'[i].nonce <= tx.nonce
      OBVIOUS
    <3>1. CASE i = n + 1
      BY <3>1, <1>2, <1>6, <1>8
    <3>2. CASE i \in 1..n
      <4>1. s'[i] = s[i]
        BY <3>2, <1>2
      <4>2. CASE tx \in heap
        BY <3>2, <4>1, <4>2, <1>8
      <4>3. CASE tx = next /\ next.from = a /\ 1 \in DOMAIN g[a]
        BY <3>2, <4>1, <4>3, <1>8
      <4>4. QED
        BY <4>2, <4>3, <1>6
    <3>3. QED
      BY <3>1, <3>2, <1>2
  <2>2. \A i \in 1..(n + 1) : \A j \in DOMAIN g'[s'[i].from] :
          s'[i].nonce <= g'[s'[i].from][j].nonce
    <3> SUFFICES ASSUME NEW i \in 1..(n + 1), NEW j \in DOMAIN g'[s'[i].from]
                 PROVE  s'[i].nonce <= g'[s'[i].from][j].nonce
      OBVIOUS
    <3>1. \E k \in DOMAIN g[s'[i].from] : g'[s'[i].from][j] = g[s'[i].from][k]
      <4>1. s'[i].from \in Senders
        BY <1>1, <1>2, <1>3
      <4>2. CASE s'[i].from = a
        BY <4>2, <1>5
      <4>3. CASE s'[i].from # a
        BY <4>1, <4>3, <1>7
      <4>4. QED
        BY <4>2, <4>3
    <3>2. PICK k \in DOMAIN g[s'[i].from] : g'[s'[i].from][j] = g[s'[i].from][k]
      BY <3>1
    <3>3. i = n + 1 \/ i \in 1..n
      BY <1>2
    <3>4. s'[i].nonce <= g[s'[i].from][k].nonce
      BY <3>3, <1>2, <1>8
    <3>5. QED
      BY <3>2, <3>4
  <2>3. QED
    BY <1>2, <2>1, <2>2 DEF SortedComesFirst
<1>10. \A i \in 1..n, tx \in heap :
         (\A m \in i..n : s[m].from # tx.from) => s[i].price >= tx.price
  BY <1>2 DEF MergeInv, HeadsBidLess
<1>11. \A i \in 1..n : \A m \in i..n : m \in i..(n + 1) /\ s'[m] = s[m]
  BY <1>2
<1>12. HeadsBidLess'
  <2> SUFFICES ASSUME NEW i \in 1..(n + 1), NEW tx \in heap',
                      \A m \in i..(n + 1) : s'[m].from # tx.from
               PROVE  s'[i].price >= tx.price
    BY <1>2 DEF HeadsBidLess
  <2>1. n + 1 \in i..(n + 1)
    BY <1>2
  <2>2. tx.from # a
    BY <2>1, <1>2
  <2>3. tx \in heap
    BY <2>2, <1>6
  <2>4. CASE i = n + 1
    BY <2>3, <2>4, <1>1, <1>2, <1>3
  <2>5. CASE i \in 1..n
    <3>1. \A m \in i..n : s[m].from # tx.from
      BY <2>5, <1>11
    <3>2. s[i].price >= tx.price
      BY <3>1, <2>3, <2>5, <1>10
    <3>3. QED
      BY <3>2, <2>5, <1>2
  <2>6. QED
    BY <2>4, <2>5, <1>2
<1>13. IsPriceNonceOrder(s')
  <2> SUFFICES ASSUME NEW i \in 1..(n + 1), NEW k \in 1..(n + 1), i < k
               PROVE  /\ s'[i].from = s'[k].from => s'[i].nonce <= s'[k].nonce
                      /\ IsHead(s', i, k) => s'[i].price >= s'[k].price
    BY <1>2 DEF IsPriceNonceOrder
  <2>1. i \in 1..n /\ s'[i] = s[i]
    BY <1>2
  <2>2. CASE k \in 1..n
    <3>1. s'[k] = s[k] /\ \A m \in i..(k - 1) : m \in 1..n /\ s'[m] = s[m]
      BY <2>1, <2>2, <1>2
    <3>2. IsHead(s', i, k) => IsHead(s, i, k)
      BY <3>1 DEF IsHead
    <3>3. /\ s[i].from = s[k].from => s[i].nonce <= s[k].nonce
          /\ IsHead(s, i, k) => s[i].price >= s[k].price
      BY <2>1, <2>2, <1>2 DEF MergeInv, IsPriceNonceOrder
    <3>4. QED
      BY <2>1, <3>1, <3>2, <3>3
  <2>3. CASE k = n + 1
    <3>1. s'[k] = best
      BY <2>3, <1>2
    <3>2. s[i].from = best.from => s[i].nonce <= best.nonce
      BY <2>1, <1>1, <1>8
    <3>3. ASSUME IsHead(s', i, k)  PROVE s[i].price >= best.price
      <4>1. \A m \in i..n : s[m].from # best.from
        <5>1. k - 1 = n
          BY <2>3, <1>2
        <5>2. QED
          BY <5>1, <3>1, <3>3, <2>1, <1>11 DEF IsHead
      <4>2. QED
        BY <4>1, <2>1, <1>1, <1>10
    <3>4. QED
      BY <2>1, <3>1, <3>2, <3>3
  <2>4. QED
    BY <2>2, <2>3, <1>2
<1>14. QED
  BY <1>9, <1>12, <1>13

LEMMA MergeKeepsInv ==
  ASSUME PoolSortInv, Merge
  PROVE  PoolSortInv'
<1>1. PICK best : Merged(best)
  BY DEF Merge, Merged
<1>2. PSTypeOK /\ MergeInv /\ pc = "merge" /\ pc' = "merge"
  BY <1>1 DEF PoolSortInv, Merged
<1>3. MergeInv'
  BY <1>1, <1>2, MergeParts, MergeHeads, MergeOrders DEF MergeInv
<1>4. PSTypeOK'
  <2>1. sorted_transactions' \in Seq(PendingTx)
    BY <1>1, <1>2, MergedIs DEF Merged, PSTypeOK
  <2>2. sortedByNonce' \in [Senders -> Seq(PendingTx)] /\ heap' \subseteq PendingTx
    BY <1>1, <1>2, MergedIs DEF PSTypeOK
  <2>3. QED
    BY <1>1, <1>2, <2>1, <2>2 DEF Merged, PSTypeOK
<1>5. /\ IsOneToOne(unsorted)'
      /\ currentTransactions' = <<>> /\ totalGasLimit' = 0
  BY <1>1, <1>2 DEF PoolSortInv, Merged, IsOneToOne
<1>6. QED
  BY <1>2, <1>3, <1>4, <1>5 DEF PoolSortInv

LEMMA SortedKeepsInv ==
  ASSUME PoolSortInv, Sorted
  PROVE  PoolSortInv'
<1> DEFINE s == sorted_transactions
<1>1. /\ PSTypeOK /\ MergeInv /\ heap = {} /\ pc' = "pack"
      /\ currentTransactions = <<>> /\ totalGasLimit = 0 /\ IsOneToOne(unsorted)
      /\ UNCHANGED <<unsorted, sortedByNonce, heap, s, currentTransactions,
                     totalGasLimit>>
  BY DEF PoolSortInv, Sorted
<1>2. \A a \in Senders : sortedByNonce[a] = <<>>
  BY <1>1 DEF MergeInv, OneHeadEach
<1>3. Range(s) = Range(unsorted)
  <2>1. \A a \in Senders : Range(sortedByNonce[a]) = {}
    BY <1>2 DEF Range
  <2>2. QED
    BY <1>1, <2>1 DEF MergeInv, Parted
<1>4. IsOneToOne(s) /\ s \in Seq(PendingTx) /\ unsorted \in Seq(PendingTx)
  BY <1>1 DEF MergeInv, Parted, PSTypeOK
<1>5. Len(s) = Len(unsorted)
  <2>1. Cardinality(Range(s)) = Len(s)
    BY <1>4, OneToOneLength
  <2>2. Cardinality(Range(unsorted)) = Len(unsorted)
    BY <1>1, <1>4, OneToOneLength
  <2>3. QED
    BY <1>3, <2>1, <2>2
<1>6. s \in PriceNonceOrders(unsorted)
  <2>1. s \in [1..Len(unsorted) -> Range(unsorted)]
    <3>1. s \in [1..Len(s) -> Range(s)]
      BY <1>4 DEF Range
    <3>2. QED
      BY <3>1, <1>3, <1>5
  <2>2. IsReordering(s, unsorted)
    BY <1>3, <1>4 DEF IsReordering, IsOneToOne
  <2>3. QED
    BY <1>1, <2>1, <2>2 DEF PriceNonceOrders, MergeInv
<1>7. PackInv
  <2>1. Len(currentTransactions) = 0 /\ Len(s) \in Nat /\ 0 <= maxGasLimit
    BY <1>1, <1>4, LimitAssumption
  <2>2. SubSeq(s, 1, 0) = <<>>
    BY SubSeqEmpty
  <2>3. GasOfFirst(s, 0) = 0
    BY <1>4, GasTotal
  <2>4. QED
    BY <1>1, <1>6, <2>1, <2>2, <2>3 DEF PackInv
<1>8. PackInv'
  BY <1>1, <1>7 DEF PackInv
<1>9. PSTypeOK' /\ IsOneToOne(unsorted)'
  BY <1>1 DEF PSTypeOK, IsOneToOne
<1>10. QED
  BY <1>1, <1>8, <1>9 DEF PoolSortInv
-----------------------------------------------------------------------------
(* The steps of the packing loop.                                           *)

\* What waits is the rest of the sorted pool; its head is the next of it.
LEMMA WaitingIs ==
  ASSUME PSTypeOK, PackInv
  PROVE  LET n == Len(currentTransactions) IN
         /\ n \in Nat /\ n \in 0..Len(sorted_transactions)
         /\ Waiting # <<>> <=> n < Len(sorted_transactions)
         /\ n < Len(sorted_transactions) =>
              /\ Head(Waiting) = sorted_transactions[n + 1]
              /\ n + 1 \in 1..Len(sorted_transactions)
              /\ Head(Waiting) \in PendingTx
<1> DEFINE s == sorted_transactions
           n == Len(currentTransactions)
<1>1. s \in Seq(PendingTx) /\ Len(s) \in Nat /\ n \in Nat /\ n <= Len(s)
  BY DEF PSTypeOK, PackInv
<1>2. CASE n < Len(s)
  <2>1. n + 1 \in 1..Len(s) /\ Len(s) \in (n + 1)..Len(s)
    BY <1>1, <1>2
  <2>2. Head(Waiting) = s[n + 1]
    BY <1>1, <2>1, HeadTailOfSubSeq DEF Waiting
  <2>3. Waiting # <<>>
    <3>1. Len(Waiting) = Len(s) - (n + 1) + 1
      BY <1>1, <2>1 DEF Waiting
    <3>2. QED
      BY <1>1, <1>2, <3>1
  <2>4. s[n + 1] \in PendingTx
    BY <1>1, <2>1
  <2>5. QED
    BY <1>1, <1>2, <2>1, <2>2, <2>3, <2>4
<1>3. CASE ~(n < Len(s))
  <2>1. n + 1 \in Int /\ Len(s) \in Int /\ Len(s) < n + 1
    BY <1>1, <1>3
  <2>2. Waiting = <<>>
    BY <2>1, SubSeqEmpty DEF Waiting
  <2>3. QED
    BY <1>1, <1>3, <2>2
<1>4. QED
  BY <1>2, <1>3

LEMMA PackKeepsInv ==
  ASSUME PoolSortInv, Pack
  PROVE  PoolSortInv'
<1> DEFINE s == sorted_transactions
           n == Len(currentTransactions)
<1>1. /\ PSTypeOK /\ PackInv /\ IsOneToOne(unsorted) /\ pc = "pack"
      /\ UNCHANGED <<unsorted, sortedByNonce, heap, s, pc>>
      /\ currentTransactions' = Append(currentTransactions, Head(Waiting))
      /\ totalGasLimit' = totalGasLimit + Head(Waiting).gas
      /\ totalGasLimit + Head(Waiting).gas <= maxGasLimit /\ Waiting # <<>>
  BY DEF PoolSortInv, Pack, Fits
<1>2. /\ n \in Nat /\ n \in 0..Len(s) /\ n + 1 \in 1..Len(s)
      /\ Head(Waiting) = s[n + 1] /\ Head(Waiting) \in PendingTx
  BY <1>1, WaitingIs
<1>3. s \in Seq(PendingTx) /\ currentTransactions \in Seq(PendingTx) /\ Len(s) \in Nat
  BY <1>1 DEF PSTypeOK
<1>4. currentTransactions' \in Seq(PendingTx) /\ Len(currentTransactions') = n + 1
  BY <1>1, <1>2, <1>3, AppendedTo
<1>5. currentTransactions' = SubSeq(s, 1, n + 1)
  <2>1. currentTransactions = SubSeq(s, 1, n)
    BY <1>1 DEF PackInv
  <2>2. /\ SubSeq(s, 1, n + 1) \in Seq(PendingTx) /\ Len(SubSeq(s, 1, n + 1)) = n + 1
        /\ \A i \in 1..(n + 1) : SubSeq(s, 1, n + 1)[i] = s[i]
    BY <1>2, <1>3
  <2>3. \A i \in 1..n : currentTransactions[i] = s[i]
    BY <1>2, <1>3, <2>1
  <2>4. \A i \in 1..(n + 1) : currentTransactions'[i] = s[i]
    <3>1. \A i \in 1..n : currentTransactions'[i] = currentTransactions[i]
      BY <1>1, <1>2, <1>3, AppendedTo
    <3>2. currentTransactions'[n + 1] = s[n + 1]
      BY <1>1, <1>2, <1>3, AppendedTo
    <3>3. \A i \in 1..(n + 1) : i \in 1..n \/ i = n + 1
      BY <1>2
    <3>4. QED
      BY <3>1, <3>2, <3>3, <2>3
  <2>5. QED
    BY <1>4, <2>2, <2>4, SeqEqual
<1>6. GasOfFirst(s, n + 1) = GasOfFirst(s, n) + s[n + 1].gas
  <2>1. GasOfFirst(s, n + 1) = GasOfFirst(s, (n + 1) - 1) + s[n + 1].gas
    BY <1>2, <1>3, GasTotal
  <2>2. (n + 1) - 1 = n
    BY <1>2
  <2>3. QED
    BY <2>1, <2>2
<1>7. PackInv'
  <2>1. s' = s /\ unsorted' = unsorted
    BY <1>1
  <2>2. n + 1 <= Len(s)
    BY <1>2, <1>3
  <2>3. totalGasLimit' = GasOfFirst(s, n + 1) /\ totalGasLimit' <= maxGasLimit
    BY <1>1, <1>2, <1>6 DEF PackInv
  <2>4. s \in PriceNonceOrders(unsorted)
    BY <1>1 DEF PackInv
  <2> HIDE DEF n
  <2>5. QED
    BY <1>4, <1>5, <2>1, <2>2, <2>3, <2>4 DEF PackInv
<1>8. PSTypeOK'
  <2>1. totalGasLimit' \in Nat
    <3>1. Head(Waiting).gas \in Nat
      BY <1>1, <1>2, PoolIs
    <3>2. QED
      BY <1>1, <3>1 DEF PSTypeOK
  <2>2. QED
    BY <1>1, <1>4, <2>1 DEF PSTypeOK
<1>9. IsOneToOne(unsorted)'
  BY <1>1 DEF IsOneToOne
<1>10. QED
  BY <1>1, <1>7, <1>8, <1>9 DEF PoolSortInv

LEMMA StillKeepsInv ==
  ASSUME PoolSortInv, Packed \/ Done \/ UNCHANGED PSvars
  PROVE  PoolSortInv'
<1>1. CASE UNCHANGED PSvars
  <2>1. UNCHANGED <<unsorted, sortedByNonce, heap, sorted_transactions,
                    currentTransactions, totalGasLimit, pc>>
    BY <1>1 DEF PSvars
  <2>2. PSTypeOK' = PSTypeOK /\ IsOneToOne(unsorted)' = IsOneToOne(unsorted)
    BY <2>1 DEF PSTypeOK, IsOneToOne
  <2>3. PackInv' = PackInv
    BY <2>1 DEF PackInv
  <2>4. MergeInv => MergeInv'
    <3>1. Parted => Parted'
      BY <2>1 DEF Parted, IsOneToOne
    <3>2. OneHeadEach => OneHeadEach'
      BY <2>1 DEF OneHeadEach
    <3>3. SortedComesFirst => SortedComesFirst'
      BY <2>1 DEF SortedComesFirst
    <3>4. HeadsBidLess => HeadsBidLess'
      BY <2>1 DEF HeadsBidLess
    <3>5. \A a \in Senders : GroupSorted(a) => GroupSorted(a)'
      BY <2>1 DEF GroupSorted
    <3>6. QED
      BY <2>1, <3>1, <3>2, <3>3, <3>4, <3>5 DEF MergeInv
  <2>5. \A a \in Senders : sortedByNonce[a] \in NonceSorts(From(a)) =>
                             (sortedByNonce[a] \in NonceSorts(From(a)))'
    BY <2>1 DEF NonceSorts, From
  <2>6. Waiting' = Waiting /\ (Fits(Head(Waiting)))' = Fits(Head(Waiting))
    BY <2>1 DEF Waiting, Fits
  <2>7. QED
    BY <2>1, <2>2, <2>3, <2>4, <2>5, <2>6 DEF PoolSortInv
<1>2. CASE Packed
  <2>1. UNCHANGED <<unsorted, sortedByNonce, heap, sorted_transactions,
                    currentTransactions, totalGasLimit>> /\ pc' = "done" /\ pc = "pack"
    BY <1>2 DEF Packed
  <2>2. PSTypeOK' /\ IsOneToOne(unsorted)' /\ PackInv'
    BY <2>1 DEF PoolSortInv, PSTypeOK, IsOneToOne, PackInv
  <2>3. Waiting' # <<>> => ~Fits(Head(Waiting))'
    BY <1>2, <2>1 DEF Packed, Waiting, Fits
  <2>4. QED
    BY <2>1, <2>2, <2>3 DEF PoolSortInv
<1>3. QED
  BY <1>1, <1>2 DEF Done

LEMMA PoolSortInvariant == PSSpec => []PoolSortInv
<1>1. PSInit => PoolSortInv
  BY PSInitial
<1>2. PoolSortInv /\ [PSNext]_PSvars => PoolSortInv'
  <2> SUFFICES ASSUME PoolSortInv, [PSNext]_PSvars PROVE PoolSortInv'
    OBVIOUS
  <2>1. CASE Group
    BY <2>1, GroupKeepsInv
  <2>2. CASE FillHeap
    BY <2>2, FillHeapKeepsInv
  <2>3. CASE Merge
    BY <2>3, MergeKeepsInv
  <2>4. CASE Sorted
    BY <2>4, SortedKeepsInv
  <2>5. CASE Pack
    BY <2>5, PackKeepsInv
  <2>6. CASE Packed \/ Done \/ UNCHANGED PSvars
    BY <2>6, StillKeepsInv
  <2>7. QED
    BY <2>1, <2>2, <2>3, <2>4, <2>5, <2>6 DEF PSNext
<1>3. QED
  BY <1>1, <1>2, PTL DEF PSSpec

(* When the merge of sortByPriceAndNonce ends, its result is the pool it    *)
(* was given in another order: each sender's transactions by nonce, and at  *)
(* each place the best price among the first left of every sender.          *)
THEOREM SortIsRight == PSSpec => []SortsByPriceAndNonce
<1>1. PoolSortInv => SortsByPriceAndNonce
  BY DEF PoolSortInv, PackInv, SortsByPriceAndNonce
<1>2. QED
  BY <1>1, PoolSortInvariant, PTL

(* When the loop of processNextBlock stops, the block is the longest prefix *)
(* of the sorted pool whose gas limits fit, and it has a transaction if the *)
(* pool had one: the error that "should never happen" does not.             *)
THEOREM PackIsLongest == PSSpec => []PacksLongestPrefix
<1>1. PoolSortInv => PacksLongestPrefix
  <2> DEFINE s == sorted_transactions
             n == Len(currentTransactions)
  <2> SUFFICES ASSUME PoolSortInv, pc = "done"
               PROVE  /\ n \in BlockCuts(s, maxGasLimit)
                      /\ currentTransactions = SubSeq(s, 1, n)
                      /\ unsorted # <<>> => currentTransactions # <<>>
    BY DEF PacksLongestPrefix
  <2>1. /\ PSTypeOK /\ PackInv
        /\ Waiting # <<>> => ~(totalGasLimit + Head(Waiting).gas <= maxGasLimit)
    BY DEF PoolSortInv, Fits
  <2>2. s \in Seq(PendingTx) /\ Len(s) \in Nat /\ n \in Nat /\ n \in 0..Len(s)
        /\ currentTransactions \in Seq(PendingTx) /\ unsorted \in Seq(PendingTx)
    BY <2>1, WaitingIs DEF PSTypeOK
  <2>3. GasOfFirst(s, n) = totalGasLimit /\ totalGasLimit <= maxGasLimit
    BY <2>1 DEF PackInv
  <2>4. ASSUME n < Len(s)  PROVE GasOfFirst(s, n + 1) > maxGasLimit
    <3>1. /\ Head(Waiting) = s[n + 1] /\ n + 1 \in 1..Len(s) /\ Waiting # <<>>
          /\ Head(Waiting).gas \in Nat
      BY <2>1, <2>4, WaitingIs, PoolIs
    <3>2. GasOfFirst(s, n + 1) = GasOfFirst(s, (n + 1) - 1) + s[n + 1].gas
      BY <2>2, <3>1, GasTotal
    <3>3. (n + 1) - 1 = n
      BY <2>2
    <3>4. QED
      BY <2>1, <2>3, <3>1, <3>2, <3>3, LimitAssumption DEF PSTypeOK
  <2>5. n \in BlockCuts(s, maxGasLimit)
    BY <2>2, <2>3, <2>4 DEF BlockCuts
  <2>6. ASSUME unsorted # <<>>, currentTransactions = <<>>  PROVE FALSE
    <3>1. n = 0 /\ Len(unsorted) > 0
      BY <2>2, <2>6
    <3>2. Len(s) = Len(unsorted)
      BY <2>1, <2>2 DEF PackInv, PriceNonceOrders
    <3>3. totalGasLimit = 0
      BY <2>2, <2>3, <3>1, GasTotal
    <3>4. /\ Waiting # <<>> /\ Head(Waiting).gas \in Nat
          /\ Head(Waiting).gas <= maxGasLimit
      BY <2>1, <2>2, <3>1, <3>2, WaitingIs, PoolIs
    <3>5. QED
      BY <2>1, <3>3, <3>4
  <2>7. QED
    BY <2>1, <2>5, <2>6 DEF PackInv
<1>2. QED
  BY <1>1, PoolSortInvariant, PTL
=============================================================================
