----------------------------- MODULE ActionQueue -----------------------------
(***************************************************************************)
(* The calls that touch the account state, when several run together: the  *)
(* calls of a batch, or all calls when asyncRequestProcessing is set.      *)
(* There is one state trie, and whoever needs an older state puts an older *)
(* root into it and puts the root back later (lib/blockchain_double.js).   *)
(* StateManager (lib/statemanager.js) runs some methods one at a time,     *)
(* through its action queue; others, evm_mine and eth_getBalance among     *)
(* them, do not go through it.                                             *)
(*                                                                         *)
(* A step of a call ends where its code waits for a callback.  Chain is    *)
(* the same ledger when calls come alone.                                  *)
(*                                                                         *)
(* A definition just before another with the same parameters, and not used *)
(* by any other, is a fault the code might have: PROJECT.json pairs them,  *)
(* and README.md says which property each must break.                      *)
(***************************************************************************)
EXTENDS PoolOrder, VM

CONSTANTS
  MaxCalls,        \* bound: calls clients ever make
  Kinds,           \* what a call may be: [method, from, fate, block]
  Overlapping,     \* the methods that may run while others do
  BlockGasLimit    \* options.gasLimit; a transaction takes one unit

\* The methods that go through the action queue (eth_estimateGas is eth_call).
Queued ==
  {"eth_sendTransaction", "eth_call", "debug_traceTransaction",
   "eth_getStorageAt"}

\* Those that do not (eth_getCode and eth_getTransactionCount are eth_getBalance).
Unqueued == {"evm_mine", "miner_start", "eth_getBalance"}

\* The block parameter of a call on the latest block.
Latest == -1

ASSUME KindsAssumption ==
  Kinds \subseteq [method : Queued \cup Unqueued, from : Accounts,
                   fate : Fates, block : Nat \cup {Latest}]
ASSUME BoundAssumption == MaxCalls \in Nat
ASSUME GasAssumption == BlockGasLimit \in Nat \ {0}
ASSUME OverlappingAssumption == Overlapping \subseteq Queued \cup Unqueued

VARIABLES
  kind,            \* what each call is
  action_queue,
  action_processing,
  is_mining,
  pending,         \* pending_transactions
  blocks,          \* [txs, root]; block number n is blocks[n + 1]
  stateRoot,       \* stateTrie.root
  checkpoints,     \* the roots the trie goes back to when the VM reverts
  work,            \* how far each call has come, and what it holds
  failed,          \* the calls answered with an error
  seen,            \* the root a call read or executed on
  spoiled          \* history: what may leave a wrong root in the trie happened

Calls == 1..MaxCalls

queue == <<action_queue, action_processing>>
trie == <<stateRoot, checkpoints>>
vars == <<kind, queue, is_mining, pending, blocks, trie, work, failed, seen, spoiled>>
-----------------------------------------------------------------------------
Stages ==
  {"unsent", "queued", "nonce", "latest", "code", "parent", "vm", "commit",
   "mined", "block", "read", "aside", "done"}

\* txs: its transaction, or those of the block it makes; held: a root in a local
\* variable.
Work(at, txs, held) == [at |-> at, txs |-> txs, held |-> held]

At(at) == Work(at, <<>>, <<>>)

Method(c) == kind[c].method

InProgress(c) == work[c].at \notin {"unsent", "done"}

\* Calls are made in the order of their numbers.
MayStart(c) ==
  /\ work[c].at = "unsent" /\ \A d \in 1..(c - 1) : work[d].at # "unsent"
  /\ \A d \in Calls : InProgress(d) => {Method(c), Method(d)} \subseteq Overlapping

\* The methods that make a transaction, which is checked before it runs.
Checked == {"eth_sendTransaction", "eth_call"}

\* The first step of an action: a transaction reads its nonce, the others a block.
FirstStep(c) == At(IF Method(c) \in Checked THEN "nonce" ELSE "block")

Init ==
  /\ kind \in [Calls -> Kinds]
  /\ action_queue = <<>> /\ action_processing = FALSE
  /\ is_mining \in BOOLEAN
  /\ pending = <<>>
  /\ blocks = << [txs |-> <<>>, root |-> GenesisRoot] >>
  /\ stateRoot = GenesisRoot /\ checkpoints = <<>>
  /\ work = [c \in Calls |-> At("unsent")]
  /\ failed = {}
  /\ seen = [c \in Calls |-> <<>>]
  /\ spoiled = FALSE
-----------------------------------------------------------------------------
(* The action queue.                                                        *)

NeverWaits == FALSE
MustWait == action_processing

\* queueTransaction, queueStorage, queueTransactionTrace.
Enqueue(c) ==
  /\ MayStart(c) /\ Method(c) \in Queued
  /\ IF MustWait
       THEN /\ action_queue' = Append(action_queue, c)
            /\ work' = [work EXCEPT ![c] = At("queued")]
       ELSE /\ UNCHANGED action_queue
            /\ work' = [work EXCEPT ![c] = FirstStep(c)]
  /\ action_processing' = TRUE
  /\ UNCHANGED <<kind, is_mining, pending, blocks, trie, failed, seen>>

NextForgotten(c) ==
  /\ work' = [work EXCEPT ![c] = At("done")]
  /\ UNCHANGED queue

\* The call is answered; the intermediary of an action then starts the next.
NextAction(c) ==
  IF Method(c) \in Queued /\ action_queue # <<>>
    THEN LET next == Head(action_queue)
         IN  /\ work' = [work EXCEPT ![c] = At("done"), ![next] = FirstStep(next)]
             /\ action_queue' = Tail(action_queue)
             /\ UNCHANGED action_processing
    ELSE /\ work' = [work EXCEPT ![c] = At("done")]
         /\ action_processing' = (action_processing /\ Method(c) \notin Queued)
         /\ UNCHANGED action_queue

Succeed(c) == NextAction(c) /\ UNCHANGED failed

Fail(c) == NextAction(c) /\ failed' = failed \cup {c}
-----------------------------------------------------------------------------
(* processBlocks, for eth_sendTransaction, evm_mine and miner_start.        *)

\* processNextBlock sorts the pool and shifts the transactions of a block off it.
TakeBlock(c, pool) ==
  \E sorted \in PriceNonceOrders(pool) :
    \E cut \in BlockCuts(sorted, BlockGasLimit) :
      /\ pending' = SubSeq(sorted, cut + 1, Len(sorted))
      /\ work' = [work EXCEPT ![c] = Work("parent", SubSeq(sorted, 1, cut), <<>>)]

evm_mine(c) ==
  /\ MayStart(c) /\ Method(c) = "evm_mine"
  /\ TakeBlock(c, pending)
  /\ UNCHANGED <<kind, queue, is_mining, blocks, trie, failed, seen>>

miner_start(c) ==
  /\ MayStart(c) /\ Method(c) = "miner_start"
  /\ is_mining' = TRUE
  /\ IF pending = <<>>
       THEN Succeed(c) /\ UNCHANGED pending
       ELSE TakeBlock(c, pending) /\ UNCHANGED <<queue, failed>>
  /\ UNCHANGED <<kind, blocks, trie, seen>>

\* createBlock has found the parent; processBlock makes a checkpoint.
StartBlock(c) ==
  /\ work[c].at = "parent"
  /\ checkpoints' = Append(checkpoints, stateRoot)
  /\ work' = [work EXCEPT ![c].at = "vm"]
  /\ UNCHANGED <<kind, queue, is_mining, pending, blocks, stateRoot, failed, seen>>

BlockRuns(c) ==
  /\ work[c].at = "vm"
  /\ VMAccepts(stateRoot, work[c].txs)
  /\ stateRoot' = RunBlock(stateRoot, work[c].txs)
  /\ work' = [work EXCEPT ![c].at = "commit"]
  /\ UNCHANGED <<kind, queue, is_mining, pending, blocks, checkpoints, failed,
                 seen>>

Popped == checkpoints[Len(checkpoints)]

PopCheckpoint == checkpoints' = SubSeq(checkpoints, 1, Len(checkpoints) - 1)

NoCleanup(c) ==
  /\ work[c].at = "vm"
  /\ ~VMAccepts(stateRoot, work[c].txs)
  /\ UNCHANGED trie
  /\ Fail(c)
  /\ UNCHANGED <<kind, is_mining, pending, blocks, seen>>

\* The clean-up of processBlock.
BlockFails(c) ==
  /\ work[c].at = "vm"
  /\ ~VMAccepts(stateRoot, work[c].txs)
  /\ stateRoot' = Popped /\ PopCheckpoint
  /\ Fail(c)
  /\ UNCHANGED <<kind, is_mining, pending, blocks, seen>>

\* The checkpoint is committed and the block put at the end of the chain, with
\* the root the trie has by then.
Commit(c) ==
  /\ work[c].at = "commit"
  /\ PopCheckpoint
  /\ blocks' = Append(blocks, [txs |-> work[c].txs, root |-> stateRoot])
  /\ work' = [work EXCEPT ![c] = At("mined")]
  /\ UNCHANGED <<kind, queue, is_mining, pending, stateRoot, failed, seen>>

MinesOn(c) == Method(c) # "evm_mine" /\ pending # <<>>

MineAgain(c) ==
  /\ work[c].at = "mined"
  /\ MinesOn(c)
  /\ TakeBlock(c, pending)
  /\ UNCHANGED <<kind, queue, is_mining, blocks, trie, failed, seen>>

EndMining(c) ==
  /\ work[c].at = "mined"
  /\ ~MinesOn(c)
  /\ Succeed(c)
  /\ UNCHANGED <<kind, is_mining, pending, blocks, trie, seen>>
-----------------------------------------------------------------------------
(* createFakeTransactionWithCorrectNonce, for eth_sendTransaction and        *)
(* eth_call.  Whether the transaction has a nonce, and which, and whether it *)
(* calls a contract, and one that exists, is left open.                      *)

TxOf(c, nonce) ==
  [from |-> kind[c].from, nonce |-> nonce, price |-> 1, gas |-> 1,
   fate |-> kind[c].fate]

\* processCall goes on with the block asked for; the transaction of
\* processTransaction waits or is mined.
Proceed(c, tx) ==
  IF Method(c) = "eth_call"
    THEN /\ work' = [work EXCEPT ![c] = At("block")]
         /\ UNCHANGED <<queue, pending, failed>>
    ELSE IF is_mining
           THEN TakeBlock(c, Append(pending, tx)) /\ UNCHANGED <<queue, failed>>
           ELSE pending' = Append(pending, tx) /\ Succeed(c)

\* The transaction calls no contract.
Process(c) ==
  /\ work[c].at = "nonce"
  /\ \E nonce \in QueuedNonce(pending, stateRoot, kind[c].from) :
       Proceed(c, TxOf(c, nonce))
  /\ UNCHANGED <<kind, is_mining, blocks, trie, seen>>

\* It has another nonce than its sender's next.
WrongNonce(c) ==
  /\ work[c].at = "nonce"
  /\ Fail(c)
  /\ UNCHANGED <<kind, is_mining, pending, blocks, trie, seen>>

\* It calls a contract, whose code is read first.
CallsContract(c) ==
  /\ work[c].at = "nonce"
  /\ \E nonce \in QueuedNonce(pending, stateRoot, kind[c].from) :
       work' = [work EXCEPT ![c] = Work("latest", <<TxOf(c, nonce)>>, <<>>)]
  /\ UNCHANGED <<kind, queue, is_mining, pending, blocks, trie, failed, seen>>

\* getCode: the root is swapped for that of the latest block.
ReadCode(c) ==
  /\ work[c].at = "latest"
  /\ stateRoot' = blocks[Len(blocks)].root
  /\ work' = [work EXCEPT ![c] = Work("code", work[c].txs, <<stateRoot>>)]
  /\ UNCHANGED <<kind, queue, is_mining, pending, blocks, checkpoints, failed,
                 seen>>

\* The root is put back; without code the transaction is rejected.
EndCode(c) ==
  /\ work[c].at = "code"
  /\ stateRoot' = work[c].held[1]
  /\ \/ Fail(c) /\ UNCHANGED pending
     \/ Proceed(c, work[c].txs[1])
  /\ UNCHANGED <<kind, is_mining, blocks, checkpoints, seen>>
-----------------------------------------------------------------------------
(* Reading and executing on a block of the chain.                           *)

TracesOwnBlock(c) ==
  IF kind[c].block = Latest THEN Len(blocks) - 1 ELSE kind[c].block

\* The number of the block whose state a call asks for; a transaction is traced
\* on the parent of its block.
BlockAsked(c) ==
  LET n == kind[c].block
  IN  IF n = Latest THEN Len(blocks) - 1
      ELSE IF Method(c) = "debug_traceTransaction" THEN n - 1
      ELSE n

BlockExists(c) ==
  /\ kind[c].block < Len(blocks)
  /\ BlockAsked(c) >= 0

RootAsked(c) == blocks[BlockAsked(c) + 1].root

eth_getBalance(c) ==
  /\ MayStart(c) /\ Method(c) = "eth_getBalance"
  /\ work' = [work EXCEPT ![c] = At("block")]
  /\ UNCHANGED <<kind, queue, is_mining, pending, blocks, trie, failed, seen>>

NoSuchBlock(c) ==
  /\ work[c].at = "block"
  /\ ~BlockExists(c)
  /\ Fail(c)
  /\ UNCHANGED <<kind, is_mining, pending, blocks, trie, seen>>

\* getAccount, getStorage: the root is swapped, and the trie read.
StartRead(c) ==
  /\ work[c].at = "block" /\ BlockExists(c)
  /\ Method(c) \in {"eth_getBalance", "eth_getStorageAt"}
  /\ stateRoot' = RootAsked(c)
  /\ work' = [work EXCEPT ![c] = Work("read", <<>>, <<stateRoot>>)]
  /\ UNCHANGED <<kind, queue, is_mining, pending, blocks, checkpoints, failed,
                 seen>>

RootNotPutBack(c) ==
  /\ work[c].at = "read"
  /\ seen' = [seen EXCEPT ![c] = <<stateRoot>>]
  /\ UNCHANGED stateRoot
  /\ Succeed(c)
  /\ UNCHANGED <<kind, is_mining, pending, blocks, checkpoints>>

EndRead(c) ==
  /\ work[c].at = "read"
  /\ seen' = [seen EXCEPT ![c] = <<stateRoot>>]
  /\ stateRoot' = work[c].held[1]
  /\ Succeed(c)
  /\ UNCHANGED <<kind, is_mining, pending, blocks, checkpoints>>

\* The VM runs under a checkpoint of its own, on the root put into the trie.
RunOn(c, newRoot, held) ==
  /\ stateRoot' = newRoot
  /\ checkpoints' = Append(checkpoints, newRoot)
  /\ work' = [work EXCEPT ![c] = Work("aside", <<>>, held)]
  /\ UNCHANGED <<kind, queue, is_mining, pending, blocks, failed, seen>>

\* processCall: the root is swapped unless the call is on the latest block.
StartCall(c) ==
  /\ work[c].at = "block" /\ BlockExists(c)
  /\ Method(c) = "eth_call"
  /\ IF kind[c].block = Latest THEN RunOn(c, stateRoot, <<>>)
     ELSE RunOn(c, RootAsked(c), <<stateRoot>>)

\* The VM refuses the call outright, as it does one with too little gas.
Refused(c) == kind[c].fate = "poor"

\* What was written is undone, and the root put back, but not for a refused call.
EndCall(c) ==
  /\ work[c].at = "aside" /\ Method(c) = "eth_call"
  /\ seen' = [seen EXCEPT ![c] = <<stateRoot>>]
  /\ stateRoot' = IF work[c].held = <<>> \/ Refused(c) THEN Popped
                  ELSE work[c].held[1]
  /\ PopCheckpoint
  /\ IF Refused(c) THEN Fail(c) ELSE Succeed(c)
  /\ UNCHANGED <<kind, is_mining, pending, blocks>>

\* processTransactionTrace: the transactions of the block, up to the one asked
\* for, run again on its parent, and the root is put back.
StartTrace(c) ==
  /\ work[c].at = "block" /\ BlockExists(c)
  /\ Method(c) = "debug_traceTransaction"
  /\ RunOn(c, RootAsked(c), <<stateRoot>>)

EndTrace(c) ==
  /\ work[c].at = "aside" /\ Method(c) = "debug_traceTransaction"
  /\ seen' = [seen EXCEPT ![c] = <<stateRoot>>]
  /\ stateRoot' = work[c].held[1]
  /\ PopCheckpoint
  /\ Succeed(c)
  /\ UNCHANGED <<kind, is_mining, pending, blocks>>
-----------------------------------------------------------------------------
Start(c) == Enqueue(c) \/ evm_mine(c) \/ miner_start(c) \/ eth_getBalance(c)

Step(c) ==
  \/ Process(c) \/ WrongNonce(c) \/ CallsContract(c) \/ ReadCode(c) \/ EndCode(c)
  \/ StartBlock(c) \/ BlockRuns(c) \/ BlockFails(c) \/ Commit(c)
  \/ MineAgain(c) \/ EndMining(c)
  \/ NoSuchBlock(c) \/ StartRead(c) \/ EndRead(c)
  \/ StartCall(c) \/ EndCall(c) \/ StartTrace(c) \/ EndTrace(c)

\* A call outside the queue runs along with another.
Crossing ==
  \E c, d \in Calls : c # d /\ InProgress(c) /\ InProgress(d) /\ Method(c) \in Unqueued

\* A call on an older block ends refused, and the root of that block stays.
KeepsOlderRoot(c) ==
  work[c].at = "aside" /\ work'[c].at = "done" /\ Refused(c) /\ work[c].held # <<>>

Next ==
  /\ \E c \in Calls : Start(c) \/ Step(c)
  /\ spoiled' = (spoiled \/ Crossing' \/ \E c \in Calls : KeepsOlderRoot(c))

Spec == Init /\ [][Next]_vars

\* Callbacks come: the VM and the database end what they are given.
FairSpec == Spec /\ \A c \in Calls : WF_work(Step(c))
-----------------------------------------------------------------------------
(* The variables have their types.                                         *)
TypeOK ==
  /\ kind \in [Calls -> Kinds]
  /\ action_queue \in Seq(Calls) /\ action_processing \in BOOLEAN
  /\ is_mining \in BOOLEAN
  /\ pending \in Seq(Tx)
  /\ blocks \in Seq([txs : Seq(Tx), root : Root])
  /\ stateRoot \in Root /\ checkpoints \in Seq(Root)
  /\ work \in [Calls -> [at : Stages, txs : Seq(Tx), held : Seq(Root)]]
  /\ failed \subseteq Calls /\ spoiled \in BOOLEAN
  /\ seen \in [Calls -> Seq(Root)]

Executing == {c \in Calls : Method(c) \in Queued
                            /\ InProgress(c) /\ work[c].at # "queued"}

AtRest == \A c \in Calls : ~InProgress(c)

(* When nothing runs, the trie has the root of the last block and no       *)
(* checkpoint, whatever was read, called, traced, mined or refused before  *)
(* ("Finally, put the stateRoot back for good", getAccount; processCall,   *)
(* processTransactionTrace, processBlock), unless a method outside the     *)
(* queue ran along with another call, or a call on an older block was      *)
(* refused, each of which may leave another root behind.                   *)
StateIsOfLastBlock ==
  AtRest /\ ~spoiled => stateRoot = blocks[Len(blocks)].root /\ checkpoints = <<>>

(* Until then every block is executed on the state of the block before it  *)
(* (processBlock).                                                         *)
ChainIsReplay ==
  ~spoiled =>
    \A n \in 2..Len(blocks) :
      blocks[n].root = RunBlock(blocks[n - 1].root, blocks[n].txs)

(* Until then a call that reads or executes sees a state the chain has,    *)
(* that of the block it asks for, never one that is half way (getAccount,  *)
(* getStorage, processCall, processTransactionTrace).                      *)
ReadsStateOfBlock ==
  ~spoiled =>
    \A c \in Calls : seen[c] # <<>> =>
      LET n == kind[c].block
      IN  IF n = Latest
            THEN \E i \in DOMAIN blocks : seen[c][1] = blocks[i].root
            ELSE seen[c][1] =
                   blocks[IF Method(c) = "debug_traceTransaction" THEN n
                          ELSE n + 1].root

(* Every call ends, and lets the next action of the queue begin            *)
(* (processNextAction).                                                    *)
EveryCallEnds == \A c \in Calls : InProgress(c) ~> work[c].at = "done"
=============================================================================
