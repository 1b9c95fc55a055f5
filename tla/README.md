# Formal models of ganache-core

TLA+ specifications of ganache-core, the in-process Ethereum node: the ledger
(pool, chain, snapshots, time), the queue requests wait in, the queue of actions
inside the state manager, interval mining, the block store, forking, the start of
the node and the locks of its accounts, block filters, and subscriptions over web
sockets. TLC checks them on small instances; TLAPS proves the most important
theorems for every value of the constants. `PROJECT.json` lists components, runs, theorems, hazards, and for
each definition the source lines it stands for.

## 1. The system

A JSON-RPC payload goes `Provider.send` → request queue → engine
(web3-provider-engine) → `GethApiDouble` → `StateManager` → `BlockchainDouble` →
vm and `Database`. All of it runs on one event loop; every call back to leveldb,
the trie or the VM is a point where another turn may run.

| Part (source) | State | Operations |
|---|---|---|
| Provider (`lib/provider.js`) | `_requestQueue`, `_requestInProgress`, scheduled `setImmediate`s | `send`, `_queueRequest`, `_processRequestQueue`, shaping of errors |
| API (`lib/subproviders/geth_api_double.js`) | `initialized`, held requests | one method per RPC; `personal_*`; start-up gate |
| State manager (`lib/statemanager.js`) | `action_queue`, `action_processing`, `is_mining`, `mining_interval_timeout`, `snapshots`, `unlocked_accounts` | queue and run actions, `processBlocks`, `snapshot`, `revert`, `startMining`, `stopMining` |
| Chain (`lib/blockchain_double.js`) | `pending_transactions`, `stateTrie.root` and checkpoints, `timeAdjustment`, `data` | queued nonce, sort, pack, create, process, put and pop a block; reads, calls and traces at a block |
| Database (`lib/database*.js`) | lists `blocks`, `blockLogs`; maps `blockHashes`, `transactions`, `transactionReceipts`; `trie_db` | one leveldb write per key |
| Forking (`lib/utils/forked*.js`) | fork block number, storage trie cache | reads of what this node lacks from another |
| Web sockets (`lib/webSocketServer.js`) | connections, subscriptions | subscribe, unsubscribe, close, notify |
| Block filters (`delayedblockfilter.js`, `block_tracker.js`) | watched filters, current block | first poll of a filter, block events |
| HTTP, serializers, conversions | none | input and output |

How they meet: the provider hands over one payload at a time (unless
`asyncRequestProcessing` is set), but the calls of a batch run together. The
interval timer is a client like any other: it sends `evm_mine` to the provider.
Everything that executes uses the one `stateTrie`, whose root is swapped in
place. Snapshots are block numbers, not states: a revert pops blocks.

What is hard, and what makes each part correct:

- *Ledger.* The nonce of a transaction comes from the pool or from the account,
  a block may fail after its transactions left the pool, and a revert takes back
  blocks, receipts, the pool and the time adjustment over many turns. Correct
  means: the account state is the replay of the chain, receipts and nonces tell
  the same story as the chain, nothing is lost silently, time does not run back,
  and a revert restores what its snapshot saw.
- *Sort and pack.* Two orders (price, nonce) in one greedy merge over a heap.
- *Request queue.* A lock and wake-ups changed in callbacks that may send and
  throw. Correct means: first in, first out, one at a time, no lost wake-up,
  every payload answered.
- *Action queue.* Calls that hold the trie at another root while others run.
  Correct means: at rest, the state is the last block's; every block executed on
  its parent's state; a reader sees the state of the block it asked for.
- *Interval mining.* A timer racing `miner_stop`, `miner_start` and its own
  request in the line.
- *Block store.* Five collections written apart; a process may end in between.
- *Forking.* What the node lacks it fetches in several HTTP requests, while the
  other node goes on. Correct means: to a client there is one chain, the other
  node's up to the fork and this node's after it.
- *Start and locks.* Requests come before the node is ready. Correct means: each
  is held once, handled in order, answered, and touches nothing before the node
  is ready; an account is used only while it is unlocked.
- *Block filters.* The first poll of a filter is three requests, with blocks mined
  and reverted between them. Correct means: polls end and tell of every block.
- *Subscriptions.* Two tables that change in the callbacks of requests in line,
  while connections close. Correct means: who asked is who is notified, nothing
  is left of a closed connection.

## 2. Modules

| Module | What it is |
|---|---|
| `VM` | accounts, transactions, roots; what `vm.runBlock` accepts and does (external, from its use) |
| `PoolOrder` | declarative: the queued nonce, the orders `sortByPriceAndNonce` may leave, the prefix a block takes |
| `PoolSort`, `MCPoolSort` | the sort and the packing loop step by step, checked against `PoolOrder` |
| `SnapshotSpec` | abstract: a snapshot saves the whole ledger, a revert brings it back before it is answered, with no other change meanwhile |
| `Chain`, `MCChain` | the ledger under requests served one at a time; implements `SnapshotSpec` |
| `FifoServer` | abstract: a line served in order, one at a time |
| `RequestQueue`, `MCRequestQueue` | the provider's queue; implements `FifoServer` |
| `IntervalMiner`, `MCIntervalMiner` | the timer, over the line the provider is |
| `ActionQueue`, `MCActionQueue` | the action queue and the root of the one trie, with calls that overlap |
| `BlockStore`, `MCBlockStore` | the writes of `putBlock` and `popBlock`, and restarts |
| `OneChain` | abstract: what a forked node promises, one chain and answers about it |
| `Forking`, `MCForking` | reads, transactions, calls and reverts of a forked node; implements `OneChain` |
| `GethApi`, `MCGethApi` | the start-up gate and the locks of the accounts |
| `BlockFilters`, `MCBlockFilters` | polls of block filters, over blocks mined and reverted |
| `Subscriptions`, `MCSubscriptions` | the tables of the connection manager, over the line the provider is |
| `Chain_proofs` | types, replay, time, nonces, receipts and pool of `Chain`, and that it implements `SnapshotSpec`; that `PoolSort` does what `PoolOrder` says |
| `RequestQueue_proofs` | proofs about the line of the provider, and about the interval timer, a client of it |
| `ActionQueue_proofs` | proofs about the action queue and the trie its calls share |
| `GethApi_proofs` | proofs about the start and the locks |
| `Subscriptions_proofs` | proofs about the tables of the connection manager |
| `BlockStore_proofs` | proofs about the five collections of the database, write by write |
| `Forking_proofs` | proofs about a forked node, and that it implements `OneChain` |
| `BlockFilters_proofs` | proofs about the polls of block filters |

`Chain` and `ActionQueue` share `VM` and `PoolOrder`: they are the same ledger
seen with and without overlapping calls. `IntervalMiner` and `Subscriptions` take
the provider to be the `FifoServer` that `RequestQueue` is proved to be. `GethApi`
takes from `ActionQueue` that every transaction ends.

### State and actions against the code

**Chain.** `blocks`, `receipts`, `stateRoot`, `pending`, `snapshots`,
`timeAdjustment`, `is_mining` bear the names of the code's fields (`receipts`
stands for `data.transactions` and `data.transactionReceipts`); `clock` is
`new Date()`; `request` is the continuation of the handler being served and
`reply` what its callback was given. An RPC is one action, named after the
method; the loops are `MineBlock`/`FailBlock`/`FinishMining` (`processBlocks`)
and `PopSnapshot`/`PopBlock`/`SnapshotUnwound`/`FinishRevert` (`revert`).
`RevertToNothing` is a revert to an id that does not exist: the handler returns
without its callback, `request` becomes `"abandoned"`, and nothing is served any
more. A transaction carries the fate the VM will give it: `"ok"`, `"throws"` (a
receipt with status 0) or `"poor"` (the VM refuses the block). A root is the
nonces of the accounts and its history, the blocks executed since genesis.
Hashes, logs, code, storage, balances and the contents of errors are left out.
Two transactions of a sender always differ in their nonce, so a transaction
stands for its hash.

**PoolSort** has one action per phase of `sortByPriceAndNonce`. The heap is the
set it holds; pops and pushes take a best element, for the heap breaks ties in
an unspecified way. `Group` groups by sender and sorts each array by nonce;
`NonceSorts` is what a sort may leave. The grouping key, the insertion of the next
transaction of the same sender, and the final assignment are as in the code. Names
`Chain` has too begin with `PS`, for `Chain_proofs` extends the two.

**RequestQueue.** `_requestQueue` and `_requestInProgress` are the fields of the
code, `immediates` counts the scheduled `_processRequestQueue`s, `inEngine`,
`running` and `answered` are what the engine and callers see. A batch is
answered when all its calls have ended, or at once when one fails (the
`async.map` of the engine). The intermediary of `send` is then given the results of
the calls that ended, with holes for those that still run, and the one error.
`AnswerThrows` says when it throws: a hole stands before a later result
(`LacksResult`, `provider.js:166`), or the error is a `RuntimeError` and another call
of the batch that executes (`eth_sendTransaction`, `eth_call`) ended well and has no
error to write into (`BlamesSuccess`, `provider.js:217` and `:229`, with
`vmErrorsOnRPCResponse`). `lost` are the batches this happened to. The callback of
an answer may send one more payload, and for payloads in `Throwers` it throws.

**IntervalMiner.** `timeout` is what `mining_interval_timeout` has left; it counts down
(`TimePasses`) and starts over with each `mineOnInterval`, that of `miner_start`
too. `line` and `serving` are the provider. `ServeTick` is the end of the `evm_mine`
the timer sent: its callback is `mineOnInterval`. Names the module would share with
`RequestQueue` begin with `IM`: `RequestQueue_proofs` extends the two.

**ActionQueue.** Each call has a kind chosen at the start and is at a stage; a
step ends where the code waits for a callback. Reads (`StartRead`, `EndRead`),
calls (`StartCall`, `EndCall`) and traces keep the root they will put back.
Transactions and calls are checked inside their action
(`createFakeTransactionWithCorrectNonce`): a wrong nonce is rejected there, and the
code at the address called is read at the latest block, which swaps the root and puts
it back; without code the action ends. Whether a transaction has the right nonce and
whether a call is to a contract is left open, so each check goes either way.
Checkpoints are a stack, as in the trie. `putBlock` is one step here; the block
takes the root the trie has in that step. Calls start in the order of their numbers,
any number at a time. `spoiled` is a history variable: it becomes true when a method
outside the queue (a read of an account, `evm_mine`, `miner_start`) runs along with any
other call, or when a call on an older block ends refused. Either may leave a
wrong root in the trie; the properties about the state hold until then, and only
until then. `eth_estimateGas` behaves as `eth_call`, `eth_getCode`
and `eth_getTransactionCount` as `eth_getBalance`.

**BlockStore.** A list of the database is a length and items; a map is a
function. `StartPut` fixes the writes of `putBlock`, `PutWrite` makes any that
may be next (an item before its length, otherwise in any order); `PopWrite`
makes the writes of `popBlock` in order; `Restart` stops the process between
or inside any of them and opens the database again as `initialize` does. A record is a
file (`filedown.js:19`), and a write of it empties the file before it fills it: the
records of the writes cut off may be `torn`, that is, they do not decode until
written again or deleted (records of transactions and receipts are left out of this:
neither `putBlock` nor `popBlock` nor `initialize` reads them). A list with a torn length cannot be pushed to
(`PutFails`) nor popped from (`PopFails`). A file of a length is a few bytes and taken
to be filled by one write, so it is empty or whole; a deletion is done or not.

**Forking.** `upstream` is the other node, which mines at any time; `blocks` are
the own ones, `stateTrie` the accounts this node has written (a partial function:
what is not in its domain is fetched), `storageTrie` the one cached storage trie
of the contract, with its one slot: what was stored, or `Absent`, which it is again when 0
is stored. A request is a record with the parts it has so far; `FetchPart`
is one HTTP answer, in any order; `FetchFails` and `ExecutionFails` are an HTTP error,
outside and under the VM. A transaction has an effect: it adds to the slot, clears it,
adds and then throws, or destroys an account, whose key is then deleted and which
this node fetches again afterwards. `Undone` is what the VM takes back: it rolls the
state trie back but not the cached storage trie, which it was handed, so what a
call, a throwing transaction or one whose fetch failed has stored may stay. A storage
position asked for in short form (`padded` is false) is not found in the trie, whose keys
are 32 bytes long, and is always fetched. `parted` is a history variable: something has
put the storage trie apart from the chain; from then on nothing is said of storage and,
as a bound, `Undone` keeps nothing any more. The refinement mapping joins the other
node's blocks up to `fork_block_number` and the own ones into the chain of
`OneChain`. Questions that name a block or a transaction the other node got after
the fork are left out of the mapping: the code does not hide those from who knows
their hash. So are accounts that an own block has destroyed. A request that throws in a
callback, or whose callback never comes, becomes `"abandoned"`, with what it asked for.

**GethApi.** `initialized`, `initialization_error`,
`post_initialization_callbacks`, `accounts`, `personal_accounts`,
`account_passwords` and `unlocked_accounts` are the fields of the code;
`immediates` are the callbacks scheduled when `initialize` ends. `calls` has what
was asked and how far it is: sent, held, queued (a transaction that executes) or
answered. `unlocked_accounts` is a function with Boolean values, because
`personal_sendTransaction` stores `false`, which unlocks like any value; its
domain is what counts. `granted` and `raced` are history: who had the password
given, and who was locked while its `personal_sendTransaction` was on its way.

**BlockFilters.** `watching` is the list of filters not polled yet. A poll goes
through `GetFilterChanges`, `BlockNumber`, `GetBlockByHash`, `GetPreviousBlock`
and `End`, one action per callback. `overlapping` says whether requests are
handled along with each other; if not, `Turn` makes everything else wait for the
poll. The filters themselves are the engine's and hear of each block in one step,
through the tracker, whose `_currentBlock` is `tracked`: a block with the same hash is
not told again (`block_tracker.js:58`). That happens when a block is reverted and mined
again within its second (`Minable`). `current` is history: what was tracked when a
filter was made. With `forked`, the chain starts with the other node's last block and
the first own one is block 1; a block that is lost is then asked of the other node,
which has none, and the handler throws (`geth_api_double.js:180`).

**Subscriptions.** `connections` and `connectionsBySubscriptionId` are the tables
of the code, `id` what each connection was given. `line` and `serving` are the
provider, in its default serial mode. Each answer is an action with the callback
that changes the tables. A callback that throws sets `stopped`, and nothing
happens after it. Removing a subscription also takes back its notifications that
were not emitted; that is the engine's, external, and an assumption.

### Faults

Before some definitions stands another one with the same parameters that no
other definition uses. It is a plausible fault of that code (a dropped guard, an
off-by-one, a missing reset, a swapped order). `PROJECT.json` ("mutants") pairs
each with the property that must fail when it takes the definition's place; every
property of every passing run has one. The runs keep to properties that several
steps may break. `TypeOK` of a module states the types of its variables; TLC checks
that of `Chain`, and TLAPS proves those of `Chain`, `RequestQueue`, `IntervalMiner`,
`ActionQueue`, `GethApi`, `Subscriptions`, `BlockStore`, `Forking` and `BlockFilters`.

## 3. Runs

| Run | Question | Result |
|---|---|---|
| `pool_sort` | does the heap sort give an order, and the packing a block, that `PoolOrder` allows? | holds |
| `chain_pool` | do sending, rejecting, mining and failing blocks keep nonces and pool consistent, and what can leave a transaction stranded? | holds |
| `chain_snapshots` | do state and receipts stay the chain's, do nested snapshots and reverts restore, does time run forward, do the loops end? | holds |
| `queue` | is the provider a first-in first-out server, do the calls of payloads stay apart unless one fails, and does it answer until something throws? | holds |
| `interval` | does interval mining go on while it is on, and does `miner_stop` end it unless a tick waits? | holds |
| `store` | do the five collections tell one chain, does a pop find what it reads, and which stops of the process leave a database that cannot be opened? | holds |
| `actions` | does the action queue keep the one trie consistent, as long as no method outside it runs along and no call on an older block is refused? | holds |
| `forking` | does a forked node look like one chain, what stops it, and does its storage agree with the chain until one of the known causes parts the two? | holds |
| `forking_revert` | does it agree after a revert? | violated |
| `gethapi` | are requests held, ordered and answered over the start, and accounts locked until they are unlocked? | holds |
| `filters` | what does a block filter miss, when does a poll throw, does it end? | holds |
| `subscriptions` | who is notified, do the tables agree, what makes a callback throw, is a closed connection unsubscribed? | holds |

Bounds. `pool_sort`: three senders, two prices, two gas limits, four
transactions: enough for a group of two beside two others, so that the merge
refills the heap in the middle. `chain_pool`: two senders (interchangeable, so
symmetric), a pool of three, four blocks, a gas limit that one or two
transactions fill; snapshots are off. `chain_snapshots`: one sender, two
snapshots, three blocks, two seconds: two snapshots nest and share or do not
share a block, and a revert to the first unwinds both. TLC bounds appear as
`Max...` guards of the actions that add something, never of the loops. `queue`: two
single payloads, two batches of two and one of three; both calls of one batch fail, in
either order, the middle one of three reverts before a transaction, and one callback
throws, so that an answer is lost by a hole, by a `RuntimeError` and by the callback.
`vmErrorsOnRPCResponse` is on, its default; off, fewer answers throw. `interval`: a
timer of two units and four requests in the line, so that stop, start and the tick meet
in every order and a start may come while the timer runs down. `store`: a
genesis and two rivals that share a transaction, one with a second one; two restarts, so
that a process can stop again in what it found, inside as well as between writes. `actions`: three calls of
any kind, two senders, a gas limit of one transaction per block so that a pool
of two takes two blocks; every method may run along with every other, and every check
may go either way.
`forking`: two accounts, one of which the node itself writes, two parts of an
account and one slot; two blocks of the other node besides its genesis, and three own
ones, so that the fork is at any height and the other node mines before, during and
after it, and a revert takes back one or two blocks; own transactions touch either
account, have every effect on the slot and may destroy the contract, calls store, and
requests may fail. `forking_revert` has additions only and no failures, so that the revert alone is to
blame. `gethapi`: three accounts (made at the
start, made by a client, unlocked by an option without a key), two passwords,
three requests: a lock, a transaction and a use race in every order, and the start
comes before, between and after them. `filters`: one filter, two polls and three
blocks that differ, on a fork or not, overlapping or not: two first polls overlap, and a
block taken back may be mined again. `subscriptions`: two
connections, two subscriptions and four requests: a subscribe of one connection,
the close of it, and what the other does meanwhile.

`CHECK_DEADLOCK FALSE` stands where the system may stop: when all bounds are
reached, when every call or payload has been made, or when a request was
abandoned.

Fairness. Weak fairness only, of what the event loop does by itself: a step of
the handler in progress (`Serve` of `Chain`, `Step` of `ActionQueue`), a
scheduled `_processRequestQueue`, the end of a call in the engine, time and a timer
whose time has come, the next callback of a poll or of a held request, the end of `initialize`.
Clients are never assumed to send anything, and the clock
of `Chain` never to move. Nothing keeps the interval timer from starting over before its
time has come, so `KeepsMining` excepts clients that ask `miner_start` for ever.

### Where the code departs from what it says

Each of these is a behaviour the modules have. `forking_revert` shows one as a
violated property; for each other a property of a passing run says that it is the
only way things go wrong.

- *Storage of a forked contract* (`forkedblockchain.js:133`, run `forking_revert`): the
  cached storage trie is not taken back by `evm_revert`. `StorageUntilParted` lists what
  else parts the two: a call, a transaction that throws or one whose fetch fails leaves
  what it stored; a 0 stored over a value of the other node brings that value back
  (`forkedstoragetrie.js:55`); a contract that is destroyed keeps its storage. And a
  position not written as 32 bytes is read from the other node whatever this node stored
  (`forkedblockchain.js:255`; `blockchain_double.js:954` pads it without a fork): the
  property speaks of positions in full.
- *A destroyed account comes back* (`forkedblockchain.js:345`): its key is deleted, so it
  is fetched again, as it was at the fork (`LooksLikeOneChain` excepts it).
- *A stranded transaction* (`blockchain_double.js:642`): transactions leave the
  pool before the VM runs them; a block that fails leaves later nonces of the
  sender waiting for ever (`OnlyFailedBlocksStrand`; `test/bad_input.js:112`,
  "recovers after bad balance", has one transaction waiting).
- *A batch that is never answered* (`provider.js:166`, `:217`, `:229`): a call that fails
  makes the intermediary throw when one before a later result has not ended, or when the
  error is a `RuntimeError` and another transaction or call of the batch ended well
  (`PayloadsAnsweredUntilWedged`; `test/stability.js:65`). The other calls of a batch
  go on after its answer, beside the next payload (`CallsIsolated`).
- *Interval mining held up* (`statemanager.js:170`): each `miner_start` sets the
  countdown back; asked more often than `blockTime`, it keeps the node from mining
  (`KeepsMining`).
- *Mining after `miner_stop`* (`statemanager.js:181`): an `evm_mine` of the timer
  in the line arms the timer again (`StopIsFinalUnlessTickWaits`;
  `test/interval_mining.js:88`).
- *A database that cannot be opened* (`leveluparrayadapter.js:80`, `filedown.js:19`): `pop`
  deletes the last item before it shortens the length, and each write of the length, that
  of `push` too, empties its file first (`ReopenFailsOnlyAtTheLength`; `README.md:56`).
- *A wrong root put back* (`blockchain_double.js:902` and `:475`): a read outside
  the action queue puts back the root it found, though a block was executed
  meanwhile; a refused call on an older block puts back none
  (`StateIsOfLastBlock` and `spoiled`; the comment at `:901`).
- *Unlocked for good* (`geth_api_double.js:461`): `personal_sendTransaction` locks
  by storing `false`, which unlocks (`LockedUntilUnlocked`).
- *Answered twice* (`geth_api_double.js:113`): when the start fails, a request
  held is called back with the error and then handled (`AnsweredOnce`).
- *`eth_unsubscribe` over a web socket* (`webSocketServer.js:98`): one that succeeds
  always throws; so does the answer to an `eth_subscribe` whose connection closed,
  and the first notification of a subscription made elsewhere
  (`StopsOnlyForACause`; the repository's `README.md:101` lists the method).
- *First poll at genesis* (`delayedblockfilter.js:75`): it throws, where the
  comment at line 88 says it returns no changes (`ThrowsOnlyForNoBlock`); on a fork it
  throws when its first change has been reverted. The
  first poll shows the parent in the place of the first new block, which no poll
  tells, and the block tracked when a filter is made is missed when it is reverted and
  mined again with the same hash (`block_tracker.js:58`; both in `OneBlockMissed`).
- *A lost block asked of a fork* (`forkedblockchain.js:189`, `:557`,
  `geth_api_double.js:180`, `blockchain_double.js:176`): the hash of a reverted block or of
  none, the word "earliest", a word that is no tag, or an error of the other node to
  `eth_getLogs` leaves the request without an answer, and the node serves no other
  (`StopsOnlyWhenLost`).

## 4. Proofs

All theorems hold for any constants that satisfy the `ASSUME`s of their module. Those
are the types of the constants, that bounds are numbers, and that a constant which
stands for "none" is not one of the things it is told from (`Subscriptions`:
`NothingAssumption`, `ElsewhereAssumption`; `BlockFilters`: `NothingAssumption`;
`Forking`: `NothingAssumption`, and `PartsAssumption`, by which the slot of the contract
is no part of an account; by its `TxsAssumption` the other node's
transactions add to the slot or leave it alone). `BlockFilters` has at least one filter.
Each inductive invariant below was checked by TLC on the runs' instances before it was proved.

**Ledger.** `Chain_proofs.TypeCorrect` is inductive as it stands; its substance
is that every pop and lookup is of something there (a block popped is never the
genesis block, the snapshot popped exists). `Replay` (`RootIsReplay`)
strengthens the property by the number of the genesis block; only `MineBlock`
and `PopBlock` disturb it.

`TimeOrdered` (`TimeNeverRunsBack`) needs an invariant about
snapshots, because a revert lowers the time adjustment while the blocks made with
the higher one must be gone by then. `InTime` says: blocks are in order of time
and the last is not after now (`BlocksInTime`); snapshots are of blocks of the
chain, in its order (`SnapshotsInOrder`), with adjustments not behind their
blocks (`SnapshotsInTime`); the snapshot being unwound is not below any that is
left (`UnwindingInOrder`); the adjustment a revert will restore is not behind the
block it will stop at (`RevertInTime`).

`Snapshots` (`SnapshotsKept`), in the same module, is the refinement of
`SnapshotSpec`. The promised chain during a revert is the chain cut at
`RevertHeight`: from the turn that accepts the revert it is settled, so that turn
is the abstract `Restore`, every later one a stutter, and the one that answers
`AnswerRestore`, which changes nothing else: an abstract `Mine` is only possible
when no revert runs, so a loop that stops one block early implements nothing.
Type correctness, `Replayed` and `InTime` give that each pop is above the cut,
and that the ledger is what was promised when the handler answers.

The nonces take one invariant (`NonceInv`), and five theorems are drawn from it, the two action properties about waiting transactions among them. None of the
three invariants the runs check is inductive alone: that nonces follow the chain says
nothing of the state a new block is accepted on, and that receipts are exact needs
that no transaction is mined twice, which needs the nonces. `NonceInv` says: each
block was accepted by the VM on the state of its parent (`BlocksAccepted`); the
nonce an account has after block n is the number of its transactions up to n
(`NoncesCounted`, an invariant since a count over the whole chain is not to be had
by induction on it: a block adds one column to the count, a pop takes one away);
what waits has distinct, consecutive nonces not below that of the account
(`Consecutive`); a receipt for each place of a transaction on the chain and for no
other (`ReceiptsSound`). Two lemmas carry it: nonces grow along the chain, so no
sender uses one twice (`OnceOnChain`); and a price-nonce order has each sender's
transactions in strictly increasing nonces, so wherever it is cut, what is left is
consecutive (`RemainingConsecutive`), and starts at or after what the block uses
(`RemainingAfterBlock`, by counting: as many nonces as transactions lie between the
account's nonce and the first one left). `NoneStranded` adds that when the account's
nonce was in the pool before a block, it is still there after it.

**Sort and packing** (`PoolSort`, in `Chain_proofs`). `PoolSortInv` says what holds in
each phase. While the heap is merged (`MergeInv`): every transaction is in one place,
sorted, in the heap or in its sender's array (`Parted`); a sender with transactions left
has one in the heap, the first of them (`OneHeadEach`); what is sorted precedes what is
left of its sender (`SortedComesFirst`). The order by price needs `HeadsBidLess`: a head
no transaction of whose sender was taken since place i was in the heap then, so it bids
no more than what was taken at i. `SortIsRight` (`SortsByPriceAndNonce`) follows when the
heap is empty, with a count to show that nothing is lost or there twice. `PackIsLongest`
(`PacksLongestPrefix`) needs that the sum the loop keeps is the sum of the limits
(`PackInv`). The sum is a recursive function; that it is defined and obeys its equation
(`TotalExists`, `GasTotal`) is proved by a first counterexample (`LeastExists`) instead of
by induction. Of the pool the proof uses only that no transaction is in it twice. So what
the code computes is among the orders and cuts `Chain` and `ActionQueue` choose from.

**Request queue.** `RequestQueue_proofs` proves one invariant (types, the lock,
the wake-ups, what is in the engine and what runs) and draws `MutualExclusion`,
`WakeupsKept` and `Isolation` from it (`CallsIsolated` excepts the calls of a batch that was
answered early because one of it failed); `InOrder` maps answered, served and queued
payloads to the line of `FifoServer`, where dispatching is `Serve`, answering is
`Answer`, and losing an answer is a stutter.

**Action queue.** `ActionQueue_proofs` has two invariants. `QueueInv` holds always:
types; calls are at stages of their method; one action runs at a time, the flag says
so, and the line holds exactly the calls that wait, once each; there are as many
checkpoints as calls between theirs and its end (`CheckpointsCounted`), so a revert
of a checkpoint always finds one, though perhaps that of another call. `TrieInv`
holds until `spoiled`: then no method outside the queue runs along with another
call (`Crossing`), so at most one call has the trie, and what the trie is, is a
function of the stage of that call (`TrieOf`): the root of the last block with or
without a checkpoint, that root with a block executed on it, or the root asked for
with the one to be put back in hand, be it for a read, a call, a trace or the check of
the code at an address. When no call has it, it is the last block's.
`TrieIsPutBack`, `ChainReplays` and `ReadsAreOfBlocks` (`StateIsOfLastBlock`,
`ChainIsReplay`, `ReadsStateOfBlock`) follow. The proof showed that the block a call
asks for was written with two alternatives that may both apply (a trace of the
latest block); it is now decided in the order of the code.

**Interval mining** (`RequestQueue_proofs`, from `MinerTypeCorrect`). `Alive` (`IntervalAlive`): while mining is on there is a
timer armed or a tick in the line or being served, however long the line.
`StopsForGood` (`StopIsFinalUnlessTickWaits`): `miner_stop` with no tick on its way
leaves none behind, and none comes back before `miner_start`.

**Start and locks.** `GethApi_proofs.TypeCorrect` is inductive as it stands.
`LocksHold` (`LockedUntilUnlocked`) needs that a `personal_sendTransaction` on its
way is of an account that is granted or raced (`OnItsWayGranted`), for its end
stores a value. The gate has one invariant (`GateInv`): the two lists are never
both in use, requests not arrived yet come after all that have, and the line is
increasing and holds exactly the requests held. `HeldInOrder` is part of it;
`ReadyFirst` and `CalledBackOnce` use it to know that a request whose immediate
runs was held, and so neither queued nor answered.

**Subscriptions.** One invariant: ids are of one connection each (`IdsAreOwn`); every
subscription and every request is of a connection that was opened (`OwnersOpened`,
`LineSound`); an `unsubscribe` in the line that a close has put there is of a
subscription the closed connection had; between the engine's answer and its callback
the new subscription is in neither table and has no notification yet
(`ServingSound`, `LiveHaveEntries`). That is what makes the three properties hold
together: `TablesAgree` must know that an answer whose connection closed throws
before it can write one table, `NotifiedIsOwner` that a subscription number is never
given twice, and `StopsOnlyForACause` that a live subscription of an open connection
has its entry.

**Block store.** Between two writes the five parts disagree, so the invariant
(`StoreInv`) says how far each may be ahead. `Made` is the set of writes of the block
under way that are there: for a put those made, for a pop those not undone yet. That
one set serves both, although a put makes its writes in any order its pushes allow and
a pop undoes them in one order (`PopShape`: what is left of a pop is a tail of its
transactions and then of the five writes that end it). There are three layers.
`CanBeRead` holds in any life of the process, also in one that started from the torn
database of another: there is an item under every index the length counts, but for the
last one of a list whose item went before its length. `OpenedDecodes` holds in any life
too: the length of `blocks`, every block it counts and the one it is about to count
decode, for `initialize` would have failed otherwise. The two give `OpensAgain`
(`ReopenFailsOnlyAtTheLength`), which the action property could not be proved from by itself.
`StoreSound` is of the first life only: below the block under way (`Base`) the lists,
the hashes, the transactions and the receipts are those of one chain, and above it is
exactly what `Made` says. Of the transactions of a block that is popped it says only
which may be there, so that a block with one transaction twice needs no assumption.
`OneChainIsTold` (`StoreTellsOneChain`) is the case where nothing is under way, and
`PopsReadWhatTheyDelete` (`PopNeverFails`) the moment before the logs go: block, hash
and length are all still there.

**Forking.** A request is answered from parts that came over several turns, while the
other node mined. The invariant (`ForkInv`) is therefore about the future as well
(`GotTruth`): what a request has, and what it would be told if it asked now, is
what the one chain holds. It stays true because the other node's blocks only grow above
the fork, because nothing else is served while a request runs, and because an account
that this node has written is not fetched until it destroys it. It needs the two chains to fit together
(`UpstreamSound`; `OwnSound`: the own blocks follow the fork without a gap, each with a
hash of its own, and an account in a root stays in those after it unless a block has
destroyed it).
`StopsWhenLost` (`StopsOnlyWhenLost`) and `StorageAgrees`
(`StorageUntilParted`) are conjuncts of it: a transaction writes its storage on top of
the part it read, so the two go together. `ForkIsOneChain` (`LooksLikeOneChain`) then
takes each step: `createGenesisBlock` pins the fork, and the chain appears; a block
mined or reverted is `OneChain`'s; an answer is one it allows, because the parts are
true; the other node's blocks, each fetch and each failure are stutters. The proof showed
that two assumptions on the constants were missing, the first two named above.

**Block filters.** `FilterInv` follows a block from the moment it is mined: a filter that
was there has reported it, has it among its changes, has a poll on its way that will
report it, or has a poll that showed the block before in its place (`Accounted`).
The block tracked when the filter was made (`current`) is left out of it: the tracker may
not tell it. `MissesOne` (`OneBlockMissed`) counts the last kind: one block at most for each such
poll. That there is one such poll of a filter when requests do not overlap is
`FirstPolls`: one poll is on its way at a time, it is of a filter that is watched, and
no filter that is watched has had one. `ThrowsForNoBlock` (`ThrowsOnlyForNoBlock`) needs
what a poll knows at each stage (`PollSound`) and that the genesis block stays and is
never a change (`ChainSound`): the number a poll has is that of a block with one before
it, until a revert crosses the poll, which needs overlap.

Only model-checked: liveness (`LoopsEnd`, `KeepsMining`, `EveryCallEnds`,
`PayloadsAnsweredUntilWedged`, `RequestsAnswered`, `PollsEnd`,
`ClosedIsUnsubscribed`), for the prover has no fairness or `ENABLED`. Nor does a proof
show that `Chain` always has an order and a cut to choose: without, `LoopsEnd` would fail.

## 5. Not modelled

- *The contents of logs and traces, JSON-RPC argument checks, constant answers*:
  data or reads that no state depends on.
- *Serializers, conversions, HTTP, files*: pure functions, or pure input and
  output.
- *The engine, the VM, the trie, leveldb and async*: external; the modules say
  what they take of each.
- *Forking*: contents of blocks beyond their transactions, the network id and the
  start time; the sender of a transaction as an account of its own; more contracts or
  slots than one (so neither a short key that ends inside a trie of several). The other
  node never takes a block back; one request is served at a time; blocks above the height
  are not asked for, nor is a hash given where a tag is meant; a block has one
  transaction, which shares its hash. `debug_traceTransaction` on a fork does not come to
  execute: it asks for the parent by a buffer, which the forked `getBlock` does not take
  for a hash. `_checkpointTrie`, `_revertTrie` and the custom checkpoints are called by
  nothing.
- *Block store*: the files of the trie's nodes; reads of transactions and receipts, whose
  files may not decode either; a record read by a request while another
  writes it; the cache in front of the files (`cachedown`, external); the error of a failed
  `putBlock`, which is called back before its other writes end.
- *Filters*: log and pending filters and uninstalling, which the engine has alone; a
  request to the other node that fails under a poll.
- *Overlap of subscriptions*: `Subscriptions` has the serial mode only.
- *A revert that is never answered* (`statemanager.js:742`): `Chain` has the
  step; `LoopsEnd` speaks of the loops only.
- *`Chain`* takes all accounts to be unlocked, the node to be initialised and not
  forked: `GethApi` and `Forking` have those.

## 6. Plan

1. `ActionQueue` with the writes of `BlockStore`: two blocks in the making at once
   (now one step, `Commit`).
2. `Chain` composed with the interval timer, and `Subscriptions` with requests that
   overlap.
