------------------------------- MODULE Chain -------------------------------
(***************************************************************************)
(* The ledger of ganache-core: the pool, the chain of blocks and the       *)
(* snapshots that StateManager (lib/statemanager.js) and BlockchainDouble  *)
(* (lib/blockchain_double.js) keep, under requests served one at a time,   *)
(* as Provider._processRequestQueue does by default (see RequestQueue).    *)
(*                                                                         *)
(* A request is one action when its handler needs one turn, and a loop     *)
(* (async.whilst, async.during) otherwise: processBlocks mines one block   *)
(* per step, revert pops one block or one snapshot per step.  The wall     *)
(* clock moves between any two steps.                                      *)
(*                                                                         *)
(* A definition just before another with the same parameters, and not used *)
(* by any other, is a fault the code might have: PROJECT.json pairs them,  *)
(* and README.md says which property each must break.                      *)
(***************************************************************************)
EXTENDS PoolOrder, VM

CONSTANTS
  Shapes,          \* [price, gas, fate] a client may send
  BlockGasLimit,   \* options.gasLimit
  OnInterval,      \* options.blockTime was given (is_mining_on_interval)
  Advances,        \* the seconds evm_increaseTime is called with
  MaxHeight,       \* bound: number of the last block
  MaxPool,         \* bound: transactions waiting
  MaxNonce,        \* bound: nonce of a transaction
  MaxSnapshots,    \* bound: snapshots kept
  MaxClock         \* bound: seconds of wall clock and of time adjustment

ASSUME ShapesAssumption ==
  Shapes \subseteq [price : Nat, gas : Nat \ {0}, fate : Fates]
ASSUME LimitsAssumption ==
  /\ BlockGasLimit \in Nat
  /\ OnInterval \in BOOLEAN
  /\ Advances \subseteq Nat
  /\ {MaxHeight, MaxPool, MaxNonce, MaxSnapshots, MaxClock} \subseteq Nat

VARIABLES
  blocks,          \* data.blocks; block number n is blocks[n + 1]
  receipts,        \* data.transactions and data.transactionReceipts
  stateRoot,       \* stateTrie.root
  pending,         \* pending_transactions
  snapshots,       \* snapshots of the state manager, id 1 first
  timeAdjustment,
  clock,           \* new Date(), in seconds
  is_mining,
  request,         \* the request being served
  reply            \* what its callback was given

ledger == <<blocks, receipts, stateRoot>>
vars == <<ledger, pending, snapshots, timeAdjustment, clock, is_mining,
          request, reply>>
-----------------------------------------------------------------------------
Block == [number : Nat, time : Nat, txs : Seq(Tx), root : Root]

Receipt == [block : Nat, index : Nat, status : {0, 1}]

Snapshot == [blockNumber : Nat, timeAdjustment : Nat]

Idle == [op |-> "idle"]

\* The continuation of processBlocks.  left counts the blocks still to mine;
\* when all is set it mines until the pool is empty instead.  call is the RPC.
MineBlocks(call, all, left, threw) ==
  [op |-> "mine", call |-> call, all |-> all, left |-> left, threw |-> threw]

\* The continuation of revert to snapshot id, with the time adjustment it
\* restores at the end; the snapshot being unwound is the last of `unwinding'.
Reverting(id, adjustment, unwinding) ==
  [op |-> "revert", id |-> id, adjustment |-> adjustment,
   unwinding |-> unwinding]

Requests ==
  {Idle, [op |-> "abandoned"]}
    \cup {MineBlocks(call, all, left, threw) :
            call \in {"eth_sendTransaction", "evm_mine", "miner_start"},
            all \in BOOLEAN, left \in {0, 1}, threw \in BOOLEAN}
    \cup [op : {"revert"}, id : Nat \ {0}, adjustment : Nat,
          unwinding : Seq(Snapshot)]

Methods == {"eth_sendTransaction", "evm_mine", "miner_start", "miner_stop",
            "evm_snapshot", "evm_increaseTime", "evm_revert"}

Replies == [call : Methods \cup {""},
            err : {"none", "rejected", "runtime", "vm"}]

Answer(call, err) == [call |-> call, err |-> err]

Unanswered == Answer("", "none")
-----------------------------------------------------------------------------
latestBlock == blocks[Len(blocks)]

HeightOffByOne == Len(blocks) - 2
Height == Len(blocks) - 1

currentTime == clock + timeAdjustment

createBlock(txs) ==
  [number |-> latestBlock.number + 1, time |-> currentTime, txs |-> txs,
   root |-> RunBlock(stateRoot, txs)]

\* The receipt processBlock makes for a transaction of a block.
ReceiptOf(block, tx) ==
  [block |-> block.number,
   index |-> CHOOSE i \in DOMAIN block.txs : block.txs[i] = tx,
   status |-> IF tx.fate = "throws" THEN 0 ELSE 1]

PutWithoutCommit(block) ==
  /\ blocks' = Append(blocks, block)
  /\ UNCHANGED stateRoot
  /\ receipts' = [tx \in DOMAIN receipts \cup Range(block.txs) |->
                    IF tx \in Range(block.txs) THEN ReceiptOf(block, tx)
                    ELSE receipts[tx]]

putBlock(block) ==
  /\ blocks' = Append(blocks, block)
  /\ stateRoot' = block.root
  /\ receipts' = [tx \in DOMAIN receipts \cup Range(block.txs) |->
                    IF tx \in Range(block.txs) THEN ReceiptOf(block, tx)
                    ELSE receipts[tx]]

PopKeepingReceipts ==
  /\ blocks' = SubSeq(blocks, 1, Len(blocks) - 1)
  /\ stateRoot' = blocks[Len(blocks) - 1].root
  /\ UNCHANGED receipts

PopKeepingRoot ==
  /\ blocks' = SubSeq(blocks, 1, Len(blocks) - 1)
  /\ receipts' = [tx \in DOMAIN receipts \ Range(latestBlock.txs) |->
                    receipts[tx]]
  /\ UNCHANGED stateRoot

popBlock ==
  /\ blocks' = SubSeq(blocks, 1, Len(blocks) - 1)
  /\ stateRoot' = blocks[Len(blocks) - 1].root
  /\ receipts' = [tx \in DOMAIN receipts \ Range(latestBlock.txs) |->
                    receipts[tx]]

Respond(call, err) ==
  /\ request' = Idle
  /\ reply' = Answer(call, err)

\* A handler whose work goes on in later turns.
Proceed(continuation) ==
  /\ request' = continuation
  /\ reply' = Unanswered
-----------------------------------------------------------------------------
Init ==
  /\ stateRoot = GenesisRoot
  /\ blocks = <<[number |-> 0, time |-> 0, txs |-> <<>>, root |-> GenesisRoot]>>
  /\ receipts = <<>>
  /\ pending = <<>>
  /\ snapshots = <<>>
  /\ timeAdjustment = 0
  /\ clock = 0
  /\ is_mining = TRUE
  /\ request = Idle
  /\ reply = Unanswered

\* queueTransaction, processTransaction: the transaction takes the next nonce
\* of its sender and waits; when mining is instant the whole pool is mined.
eth_sendTransaction(from, shape) ==
  /\ request = Idle
  /\ shape.gas <= BlockGasLimit
  /\ Len(pending) < MaxPool /\ Height + Len(pending) < MaxHeight
  /\ \E nonce \in QueuedNonce(pending, stateRoot, from) :
       /\ nonce <= MaxNonce
       /\ pending' = Append(pending,
                       [from |-> from, nonce |-> nonce, price |-> shape.price,
                        gas |-> shape.gas, fate |-> shape.fate])
  /\ IF is_mining /\ ~OnInterval
       THEN Proceed(MineBlocks("eth_sendTransaction", TRUE, 0, FALSE))
       ELSE Respond("eth_sendTransaction", "none")
  /\ UNCHANGED <<ledger, snapshots, timeAdjustment, clock, is_mining>>

\* ... unless its gas limit exceeds that of a block, or the nonce the client
\* gave is not the next one.
RejectTransaction(from, shape, givenNonce) ==
  /\ request = Idle
  /\ \/ shape.gas > BlockGasLimit
     \/ givenNonce \notin QueuedNonce(pending, stateRoot, from)
  /\ Respond("eth_sendTransaction", "rejected")
  /\ UNCHANGED <<ledger, pending, snapshots, timeAdjustment, clock, is_mining>>

evm_mine ==
  /\ request = Idle
  /\ Height < MaxHeight \/ pending # <<>>
  /\ Proceed(MineBlocks("evm_mine", FALSE, 1, FALSE))
  /\ UNCHANGED <<ledger, pending, snapshots, timeAdjustment, clock, is_mining>>

\* startMining; on an interval only the timer is armed (see IntervalMiner).
miner_start ==
  /\ request = Idle
  /\ is_mining' = TRUE
  /\ IF OnInterval
       THEN Respond("miner_start", "none")
       ELSE Proceed(MineBlocks("miner_start", TRUE, 0, FALSE))
  /\ UNCHANGED <<ledger, pending, snapshots, timeAdjustment, clock>>

miner_stop ==
  /\ request = Idle
  /\ is_mining' = FALSE
  /\ Respond("miner_stop", "none")
  /\ UNCHANGED <<ledger, pending, snapshots, timeAdjustment, clock>>

evm_snapshot ==
  /\ request = Idle
  /\ Len(snapshots) < MaxSnapshots
  /\ snapshots' = Append(snapshots, [blockNumber |-> Height,
                                     timeAdjustment |-> timeAdjustment])
  /\ Respond("evm_snapshot", "none")
  /\ UNCHANGED <<ledger, pending, timeAdjustment, clock, is_mining>>

evm_increaseTime(seconds) ==
  /\ request = Idle
  /\ timeAdjustment + seconds <= MaxClock
  /\ timeAdjustment' = timeAdjustment + seconds
  /\ Respond("evm_increaseTime", "none")
  /\ UNCHANGED <<ledger, pending, snapshots, clock, is_mining>>
-----------------------------------------------------------------------------
(* The loop of processBlocks.  Each iteration is one processNextBlock.      *)

BlocksLeft ==
  /\ request.op = "mine"
  /\ IF request.all THEN pending # <<>> ELSE request.left > 0

Threw(txs) == \E i \in DOMAIN txs : txs[i].fate = "throws"

\* The next block can be the first `cut' transactions of the sorted pool.
CanMine(sorted, cut) ==
  /\ cut = 0 => sorted = <<>>
  /\ VMAccepts(stateRoot, SubSeq(sorted, 1, cut))

\* What waits once the block's transactions are shifted off the pool.
ShiftBeforeTest(sorted, cut) == SubSeq(sorted, cut + 2, Len(sorted))
Remaining(sorted, cut) == SubSeq(sorted, cut + 1, Len(sorted))

MineBlock ==
  /\ BlocksLeft
  /\ \E sorted \in PriceNonceOrders(pending) :
       \E cut \in BlockCuts(sorted, BlockGasLimit) :
         LET txs == SubSeq(sorted, 1, cut)
         IN  /\ CanMine(sorted, cut)
             /\ putBlock(createBlock(txs))
             /\ pending' = Remaining(sorted, cut)
             /\ Proceed(MineBlocks(request.call, request.all,
                          IF request.all THEN 0 ELSE request.left - 1,
                          request.threw \/ Threw(txs)))
  /\ UNCHANGED <<snapshots, timeAdjustment, clock, is_mining>>

\* An error that is not a RuntimeError ends the loop.  The transactions of the
\* block were shifted off the pool and are gone; the rest waits.
FailBlock ==
  /\ BlocksLeft
  /\ \E sorted \in PriceNonceOrders(pending) :
       \E cut \in BlockCuts(sorted, BlockGasLimit) :
         /\ ~CanMine(sorted, cut)
         /\ pending' = Remaining(sorted, cut)
  /\ Respond(request.call, "vm")
  /\ UNCHANGED <<ledger, snapshots, timeAdjustment, clock, is_mining>>

FinishMining ==
  /\ request.op = "mine"
  /\ ~BlocksLeft
  /\ Respond(request.call, IF request.threw THEN "runtime" ELSE "none")
  /\ UNCHANGED <<ledger, pending, snapshots, timeAdjustment, clock, is_mining>>
-----------------------------------------------------------------------------
(* The loops of revert.                                                     *)

\* An id no snapshot has ends the handler before its callback: an id too high
\* returns, and 0 reads a property of undefined, which throws.
RevertToNothing(id) ==
  /\ request = Idle
  /\ id = 0 \/ id > Len(snapshots)
  /\ Proceed([op |-> "abandoned"])
  /\ UNCHANGED <<ledger, pending, snapshots, timeAdjustment, clock, is_mining>>

evm_revert(id) ==
  /\ request = Idle
  /\ id \in DOMAIN snapshots
  /\ Proceed(Reverting(id, snapshots[id].timeAdjustment, <<>>))
  /\ UNCHANGED <<ledger, pending, snapshots, timeAdjustment, clock, is_mining>>

\* The outer loop: the next snapshot to unwind.
PopSnapshot ==
  /\ request.op = "revert"
  /\ request.unwinding = <<>>
  /\ Len(snapshots) >= request.id
  /\ Proceed(Reverting(request.id, request.adjustment,
                       <<snapshots[Len(snapshots)]>>))
  /\ snapshots' = SubSeq(snapshots, 1, Len(snapshots) - 1)
  /\ UNCHANGED <<ledger, pending, timeAdjustment, clock, is_mining>>

\* The inner loop: a block mined since that snapshot.
MinedSinceOffByOne(snapshot) == Height > snapshot.blockNumber + 1
MinedSince(snapshot) == Height > snapshot.blockNumber

PopBlock ==
  /\ request.op = "revert"
  /\ request.unwinding # <<>>
  /\ MinedSince(request.unwinding[1])
  /\ popBlock
  /\ UNCHANGED <<pending, snapshots, timeAdjustment, clock, is_mining,
                 request, reply>>

UnwindingNeverEnds == FALSE /\ UNCHANGED vars

SnapshotUnwound ==
  /\ request.op = "revert"
  /\ request.unwinding # <<>>
  /\ ~MinedSince(request.unwinding[1])
  /\ Proceed(Reverting(request.id, request.adjustment, <<>>))
  /\ UNCHANGED <<ledger, pending, snapshots, timeAdjustment, clock, is_mining>>

FinishRevert ==
  /\ request.op = "revert"
  /\ request.unwinding = <<>>
  /\ Len(snapshots) < request.id
  /\ pending' = <<>>
  /\ timeAdjustment' = request.adjustment
  /\ Respond("evm_revert", "none")
  /\ UNCHANGED <<ledger, snapshots, clock, is_mining>>
-----------------------------------------------------------------------------
\* A second passes.
Tick ==
  /\ clock < MaxClock
  /\ clock' = clock + 1
  /\ UNCHANGED <<ledger, pending, snapshots, timeAdjustment, is_mining,
                 request, reply>>

\* A step of the handler being served: the event loop runs it.
Serve ==
  \/ MineBlock \/ FailBlock \/ FinishMining
  \/ PopSnapshot \/ PopBlock \/ SnapshotUnwound \/ FinishRevert

\* A client's request.
Call ==
  \/ \E from \in Accounts, shape \in Shapes : eth_sendTransaction(from, shape)
  \/ \E from \in Accounts, shape \in Shapes, nonce \in 0..MaxNonce :
       RejectTransaction(from, shape, nonce)
  \/ \E seconds \in Advances : evm_increaseTime(seconds)
  \/ \E id \in 0..(MaxSnapshots + 1) : evm_revert(id) \/ RevertToNothing(id)
  \/ evm_mine \/ miner_start \/ miner_stop \/ evm_snapshot

Next == Call \/ Serve \/ Tick

Spec == Init /\ [][Next]_vars

FairSpec == Spec /\ WF_vars(Serve)
-----------------------------------------------------------------------------
\* The variables have their types.
TypeOK ==
  /\ blocks \in Seq(Block) /\ blocks # <<>>
  /\ DOMAIN receipts \subseteq Tx
  /\ \A tx \in DOMAIN receipts : receipts[tx] \in Receipt
  /\ stateRoot \in Root
  /\ pending \in Seq(Tx)
  /\ snapshots \in Seq(Snapshot)
  /\ timeAdjustment \in Nat /\ clock \in Nat
  /\ is_mining \in BOOLEAN
  /\ request \in Requests
  /\ reply \in Replies

(* The account state is that of the last block, and that of every block is *)
(* what executing its transactions on its parent's gives: a block that     *)
(* failed, and one that was popped, left no trace (putBlock, popBlock,     *)
(* the clean-up of processBlock).                                          *)
RootIsReplay ==
  /\ stateRoot = latestBlock.root
  /\ \A n \in 2..Len(blocks) :
       /\ blocks[n].number = n - 1
       /\ blocks[n].root = RunBlock(blocks[n - 1].root, blocks[n].txs)

(* There is a receipt for every mined transaction and no other, and it     *)
(* tells where the transaction is; so no transaction is mined twice, not   *)
(* even one sent again after a revert (putBlock, popBlock).                *)
ReceiptsExact ==
  /\ DOMAIN receipts = UNION {Range(blocks[n].txs) : n \in DOMAIN blocks}
  /\ \A n \in DOMAIN blocks : \A i \in DOMAIN blocks[n].txs :
       LET tx == blocks[n].txs[i]
       IN  receipts[tx] = [block |-> n - 1, index |-> i,
                           status |-> IF tx.fate = "throws" THEN 0 ELSE 1]

(* The transactions an account has on the chain carry the nonces 0, 1, ... *)
(* in the order of the chain, over reverts and failed blocks               *)
(* (getQueuedNonce, sortByPriceAndNonce).                                  *)
NoncesFollowTheChain ==
  \A n \in DOMAIN blocks : \A i \in DOMAIN blocks[n].txs :
    LET tx == blocks[n].txs[i]
        earlier == {p \in (DOMAIN blocks) \X (1..MaxPool) :
                      /\ p[2] \in SentBy(blocks[p[1]].txs, tx.from)
                      /\ p[1] < n \/ (p[1] = n /\ p[2] < i)}
    IN  tx.nonce = Cardinality(earlier)

(* The transactions an account has waiting carry consecutive nonces, none  *)
(* of them executed already: a block takes a prefix of each sender's       *)
(* (processNextBlock), and a revert empties the pool.                      *)
PoolNoncesConsecutive ==
  \A a \in Accounts :
    LET waiting == SentBy(pending, a)
        nonces == {pending[i].nonce : i \in waiting}
    IN  /\ Cardinality(nonces) = Cardinality(waiting)
        /\ \A n \in nonces : n >= stateRoot.nonce[a]
        /\ \A n, m \in nonces : n..m \subseteq nonces

(* Time never runs backwards along the chain, though a revert takes the    *)
(* time adjustment back: the blocks made with the larger one are gone      *)
(* (revert, increaseTime, createBlock).                                    *)
TimeNeverRunsBack ==
  /\ \A n \in 2..Len(blocks) : blocks[n - 1].time <= blocks[n].time
  /\ latestBlock.time <= currentTime

(* A transaction whose hash a client holds leaves the pool by being mined  *)
(* in that step, in a block that is answered with a VM error, or by a      *)
(* revert: never silently (processNextBlock, clearPendingTransactions).    *)
NoTransactionLost ==
  [][\A tx \in Range(pending) \ Range(pending') :
       \/ tx \in DOMAIN receipts'
       \/ reply'.err = "vm"
       \/ reply'.call = "evm_revert"]_vars

(* The handler of processBlocks and of revert ends and answers.            *)
LoopsEnd == request.op \in {"mine", "revert"} ~> request = Idle

\* What waits can be mined: somewhere in the pool each sender has the next nonce
\* of its account.
Executable ==
  \A i \in DOMAIN pending : \E j \in SentBy(pending, pending[i].from) :
    pending[j].nonce = stateRoot.nonce[pending[i].from]

(* Only a block that fails, or a revert, can leave a transaction waiting   *)
(* for a nonce that does not come (processNextBlock takes the transactions *)
(* of a block off the pool before they run; test/bad_input.js, "recovers   *)
(* after bad balance", has one transaction waiting).                       *)
OnlyFailedBlocksStrand ==
  [][Executable => \/ Executable'
                   \/ reply'.err = "vm"
                   \/ request.op = "revert"]_vars
-----------------------------------------------------------------------------
(* Chain implements SnapshotSpec.  From the turn a revert is accepted its  *)
(* result is decided: the chain cut at the block number of the snapshot,   *)
(* which is in the list, or being unwound, or unwound already.             *)

IsReverting == request.op = "revert"

RevertHeight ==
  IF Len(snapshots) >= request.id THEN snapshots[request.id].blockNumber
  ELSE IF request.unwinding # <<>> THEN request.unwinding[1].blockNumber
  ELSE Height

ChainUpTo(height) == SubSeq(blocks, 1, height + 1)

RootAt(height) == blocks[height + 1].root

SavedUpTo(count) ==
  [i \in 1..count |->
     [chain      |-> ChainUpTo(snapshots[i].blockNumber),
      world      |-> RootAt(snapshots[i].blockNumber),
      adjustment |-> snapshots[i].timeAdjustment]]

\* The snapshots a revert leaves, and otherwise all.
Kept ==
  IF IsReverting /\ request.id <= Len(snapshots) THEN request.id - 1
  ELSE Len(snapshots)

Promised == INSTANCE SnapshotSpec WITH
  chain      <- IF IsReverting THEN ChainUpTo(RevertHeight) ELSE blocks,
  world      <- IF IsReverting THEN RootAt(RevertHeight) ELSE stateRoot,
  adjustment <- IF IsReverting THEN request.adjustment ELSE timeAdjustment,
  saved      <- SavedUpTo(Kept),
  reverting  <- IsReverting

\* evm_snapshot and evm_revert keep their promise (snapshot, revert).
SnapshotsKept == Promised!Spec
=============================================================================
