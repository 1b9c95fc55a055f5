------------------------------- MODULE Forking -------------------------------
(***************************************************************************)
(* A node that forks another one (lib/utils/forkedblockchain.js,           *)
(* lib/utils/forkedstoragetrie.js).  It pins a block of the other node,    *)
(* starts its own chain after it, and keeps only what it writes: the keys  *)
(* of its state trie, a storage trie per contract, its blocks and          *)
(* receipts.  Everything else it asks the other node for, one HTTP request *)
(* at a time, while that node goes on mining.                              *)
(*                                                                         *)
(* The provider hands over one request at a time (RequestQueue).  An own   *)
(* block holds one transaction, which touches one account and may store in *)
(* the one slot of the one contract; a block, its transaction and that     *)
(* transaction's log share a hash.  A part of an account is the number of  *)
(* the transactions that changed it, the slot that of the additions to it  *)
(* since it was cleared.                                                   *)
(*                                                                         *)
(* A definition just before another with the same parameters, and not used *)
(* by any other, is a fault the code might have: PROJECT.json pairs them,  *)
(* and README.md says which property each must break.                      *)
(***************************************************************************)
EXTENDS Integers, Sequences, FiniteSets

CONSTANTS
  Accounts,       \* addresses
  OwnAccounts,    \* those options.accounts or the mnemonic make, with their balance
  Parts,          \* what is asked for one by one: code, balance, nonce
  Code,           \* the part eth_getCode asks for alone
  Contract,       \* the account the slot is of
  UpstreamTxs,    \* what transactions the other node may mine, and
  OwnTxs,         \*   this one: [account, effect]
  CallTxs,        \* the same of eth_call and eth_estimateGas, which are undone
  UpstreamFails,  \* a request to the other node may fail
  NoAnswer,       \* nothing answered since the last question
  NoBlock,        \* null
  MaxUpstream,    \* bound: blocks of the other node
  MaxOwn,         \* bound: own blocks at a time
  MaxMined        \* bound: own blocks ever

Slot == "slot"

\* What a transaction does to the slot: nothing, add to it, store 0 in it, add to it
\* and then throw; or it destroys the account (SELFDESTRUCT), with the slot if it is
\* the contract.
Storing == {"adds", "clears", "throws"}
Effects == {"none", "destroys"} \cup Storing

ASSUME AccountsAssumption == OwnAccounts \subseteq Accounts /\ Contract \in Accounts
ASSUME PartsAssumption == Code \in Parts /\ Slot \notin Parts
ASSUME TxsAssumption ==
  /\ UpstreamTxs \subseteq [account : Accounts, effect : {"none", "adds"}]
  /\ OwnTxs \cup CallTxs \subseteq [account : Accounts, effect : Effects]
ASSUME FailsAssumption == UpstreamFails \in BOOLEAN
ASSUME BoundsAssumption == {MaxUpstream, MaxOwn, MaxMined} \subseteq Nat

VARIABLES
  upstream,           \* the other node: [hash, txs, accounts, slot] per block
  fork_block_number,  \* the pinned block, Unpinned before createGenesisBlock
  blocks,             \* own: [hash, txs, number, root], and as history what slot
                      \*   holds after it and destroyed, the accounts that are lost
  mined,              \* the own blocks made so far, popped or not
  stateTrie,          \* the keys of the state trie and what they hold
  storageTrie,        \* the cached storage trie of the contract: a slot, or Absent;
                      \*   storing 0 deletes the key
  request,            \* what is being served
  answer,             \* what was told
  parted              \* history: something has parted the storage trie from the chain

node == <<fork_block_number, blocks, mined, stateTrie, storageTrie>>
vars == <<upstream, node, request, answer, parted>>

Unpinned == -1
Absent == -1
Latest == -1
Idle == [op |-> "idle"]

\* A request whose handler threw: its callback never comes, nothing is served after it.
Abandoned(reference) == [op |-> "abandoned", of |-> reference]
-----------------------------------------------------------------------------
(* The other node.  Its blocks are never taken back.                        *)

UpstreamHeight == Len(upstream) - 1
UpstreamBlock(n) == upstream[n + 1]
UpstreamHash(n) == <<"upstream", n>>
OwnHash(i) == <<"own", i>>

Touched(value) == [p \in Parts |-> value[p] + 1]
Fresh == [p \in Parts |-> 0]

UpstreamMines ==
  /\ Len(upstream) < MaxUpstream
  /\ \E tx \in UpstreamTxs :
       LET last == UpstreamBlock(UpstreamHeight)
           hash == UpstreamHash(UpstreamHeight + 1)
       IN  upstream' = Append(upstream,
             [hash |-> hash, txs |-> <<hash>>,
              accounts |-> [last.accounts EXCEPT ![tx.account] = Touched(@)],
              slot |-> last.slot + (IF tx.effect = "adds" THEN 1 ELSE 0)])
  /\ UNCHANGED <<node, request, answer, parted>>
-----------------------------------------------------------------------------
(* Block numbers.                                                           *)

Last == blocks[Len(blocks)]

\* getHeight: the number in the header of the latest block.
Height == Last.number

EffectiveBlockNumber(tag) == IF tag = Latest THEN Height ELSE tag

\* The blocks a client may name.  Numbers above the height are left out.
Tags == {Latest} \cup 0..Height

\* isFallbackBlock
IsFallbackBlock(n) == n <= fork_block_number

RelativeBlockNumber(n) == n - fork_block_number - 1

\* The own block of a number; blocks[i + 1] is item i of the list in the database.
OwnBlock(n) == blocks[RelativeBlockNumber(n) + 1]

\* getSafeFallbackBlockNumber, asked again by every fetch.
SafeFallbackFollowsTheFork(n) ==
  IF n > fork_block_number THEN UpstreamHeight ELSE n
SafeFallbackBlockNumber(n) == IF n > fork_block_number THEN fork_block_number ELSE n
-----------------------------------------------------------------------------
Init ==
  /\ upstream = << [hash |-> UpstreamHash(0), txs |-> <<>>,
                    accounts |-> [a \in Accounts |-> Fresh], slot |-> 0] >>
  /\ fork_block_number = Unpinned
  /\ blocks = <<>> /\ mined = 0
  /\ stateTrie = <<>> /\ storageTrie = Absent
  /\ request = Idle /\ answer = NoAnswer
  /\ parted = FALSE

\* options.fork_block_number || "latest": 0 and no number at all mean the same.
Pinned(requested) == IF requested = 0 THEN UpstreamHeight ELSE requested

\* createGenesisBlock and the accounts initialize puts after it.
CreateGenesisBlock ==
  /\ fork_block_number = Unpinned
  /\ \E requested \in 0..UpstreamHeight :
       LET pinned == Pinned(requested)
           accounts == [a \in OwnAccounts |-> Fresh]
       IN  /\ fork_block_number' = pinned
           /\ stateTrie' = accounts
           /\ blocks' = << [hash |-> OwnHash(0), txs |-> <<>>, number |-> pinned + 1,
                            root |-> accounts, slot |-> UpstreamBlock(pinned).slot,
                            destroyed |-> {}] >>
  /\ mined' = 1
  /\ UNCHANGED <<upstream, storageTrie, request, answer, parted>>
-----------------------------------------------------------------------------
(* What the node holds itself.                                              *)

KeyExists(a) == a \in DOMAIN stateTrie

\* getAccount and getCode: the own value when the key is in the trie and the
\* block is an own one; at that block's root the key may be missing all the same.
OwnWithoutTheBlock(a, n) == stateTrie
OwnAccountsAt(a, n) ==
  IF KeyExists(a) /\ ~IsFallbackBlock(n) THEN OwnBlock(n).root ELSE <<>>

HeldParts(a, n, parts) ==
  IF a \in DOMAIN OwnAccountsAt(a, n)
    THEN [p \in parts |-> OwnAccountsAt(a, n)[a][p]]
    ELSE <<>>

NewTrieEachTime == <<>>
HeldSlot == IF storageTrie = Absent THEN <<>> ELSE [p \in {Slot} |-> storageTrie]

\* The receipts and blockHashes of the node.
OwnIndexOfTx(tx) == {i \in DOMAIN blocks : \E j \in DOMAIN blocks[i].txs :
                                             blocks[i].txs[j] = tx}
OnlyTheLatestBlock(hash) == {i \in {Len(blocks)} : blocks[i].hash = hash}
OwnIndexOfHash(hash) == {i \in DOMAIN blocks : blocks[i].hash = hash}
UpstreamIndexOfTx(tx) == {i \in DOMAIN upstream : \E j \in DOMAIN upstream[i].txs :
                                                    upstream[i].txs[j] = tx}
UpstreamIndexOfHash(hash) == {i \in DOMAIN upstream : upstream[i].hash = hash}
-----------------------------------------------------------------------------
(* Serving a request.  got is what it has so far of its parts.              *)

Fetching == {"account", "storage", "transact", "call"}

MayAsk == fork_block_number # Unpinned /\ request = Idle

Ask(r) ==
  /\ request' = r
  /\ answer' = NoAnswer
  /\ UNCHANGED <<upstream, node, parted>>

Tell(r) == request' = Idle /\ answer' = r

\* eth_getBalance, eth_getTransactionCount (all parts) and eth_getCode (one).
GetAccount ==
  \E a \in Accounts, tag \in Tags, parts \in {Parts, {Code}} :
    LET n == EffectiveBlockNumber(tag)
    IN  Ask([op |-> "account", account |-> a, number |-> n, parts |-> parts,
             got |-> HeldParts(a, n, parts)])

\* eth_getStorageAt: whatever block is named, the one cached trie, whose keys are 32
\* bytes long.  A position is looked up as it was written; the other node pads it.
GetStorage ==
  \E padded \in BOOLEAN :
    Ask([op |-> "storage", parts |-> {Slot}, padded |-> padded,
         got |-> IF padded THEN HeldSlot ELSE <<>>])

\* The VM looks up the account at the latest block, whichever block a call names,
\* and, before it stores in it, the slot.
Execute(op, tx) ==
  LET slot == IF tx.effect \in Storing THEN HeldSlot ELSE <<>>
      held == HeldParts(tx.account, Height, Parts)
      known == DOMAIN slot \cup DOMAIN held
  IN  Ask([op |-> op, account |-> tx.account, number |-> Height, effect |-> tx.effect,
           parts |-> Parts \cup (IF tx.effect \in Storing THEN {Slot} ELSE {}),
           got |-> [p \in known |-> IF p = Slot THEN slot[p] ELSE held[p]]])

Transact ==
  /\ Len(blocks) < MaxOwn /\ mined < MaxMined
  /\ \E tx \in OwnTxs : Execute("transact", tx)

Call == \E tx \in CallTxs : Execute("call", tx)

\* fetchCodeFromFallback, fetchBalanceFromFallback, fetchNonceFromFallback, which
\* run together, and ForkedStorageTrie.get, always at the fork.
FetchPart ==
  /\ request.op \in Fetching
  /\ \E p \in request.parts \ DOMAIN request.got :
       LET value ==
             IF p = Slot THEN UpstreamBlock(fork_block_number).slot
             ELSE UpstreamBlock(SafeFallbackBlockNumber(request.number))
                    .accounts[request.account][p]
       IN  request' = [request EXCEPT !.got =
             [q \in DOMAIN @ \cup {p} |-> IF q = p THEN value ELSE @[q]]]
  /\ UNCHANGED <<upstream, node, answer, parted>>

AllFetched == request.parts = DOMAIN request.got

EndRead ==
  /\ request.op \in {"account", "storage"}
  /\ AllFetched
  /\ Tell(IF request.op = "account"
            THEN [op |-> "account", account |-> request.account,
                  number |-> request.number, value |-> request.got]
            ELSE [op |-> "storage", padded |-> request.padded,
                  value |-> request.got[Slot]])
  /\ UNCHANGED <<upstream, node, parted>>

Stores(r) == r.effect \in Storing /\ Slot \in DOMAIN r.got

\* What the store of a transaction leaves in the cached trie.
Stored(r) == IF r.effect = "clears" THEN Absent ELSE r.got[Slot] + 1

\* The VM takes back what a transaction did.  The storage trie it was given is the
\* cached one, and no checkpoint of this code reaches it: what was stored may stay.
\* The bound: nothing stays once the trie has parted from the chain.
Undone(r) ==
  \E stays \in BOOLEAN :
    /\ stays => Stores(r) /\ ~parted
    /\ storageTrie' = IF stays THEN Stored(r) ELSE storageTrie
    /\ parted' = (parted \/ stays)

\* Storing 0 brings back what the other node has there; destroying the contract leaves
\* its cached trie alone.
Kept(r) ==
  /\ storageTrie' = IF Stores(r) THEN Stored(r) ELSE storageTrie
  /\ parted' =
       \/ parted
       \/ r.effect = "clears" /\ UpstreamBlock(fork_block_number).slot # 0
       \/ r.effect = "destroys" /\ r.account = Contract /\ Last.slot # 0

SlotAfter(r) ==
  CASE r.effect = "adds" -> r.got[Slot] + 1
    [] r.effect = "clears" -> 0
    [] r.effect = "destroys" /\ r.account = Contract -> 0
    [] OTHER -> Last.slot

\* The key of a destroyed account is deleted.
RootAfter(r) ==
  IF r.effect = "destroys"
    THEN [b \in DOMAIN stateTrie \ {r.account} |-> stateTrie[b]]
    ELSE [b \in DOMAIN stateTrie \cup {r.account} |->
            IF b = r.account THEN [p \in Parts |-> r.got[p] + 1] ELSE stateTrie[b]]

\* The VM executes the transaction and putBlock appends its block.
EndTransact ==
  /\ request.op = "transact"
  /\ AllFetched
  /\ stateTrie' = RootAfter(request)
  /\ blocks' = Append(blocks,
       [hash |-> OwnHash(mined), txs |-> <<OwnHash(mined)>>, number |-> Height + 1,
        root |-> RootAfter(request), slot |-> SlotAfter(request),
        destroyed |-> Last.destroyed \cup
          (IF request.effect = "destroys" THEN {request.account} ELSE {})])
  /\ IF request.effect = "throws" THEN Undone(request) ELSE Kept(request)
  /\ mined' = mined + 1
  /\ request' = Idle
  /\ UNCHANGED <<upstream, fork_block_number, answer>>

EndCall ==
  /\ request.op = "call"
  /\ AllFetched
  /\ request' = Idle
  /\ Undone(request)
  /\ UNCHANGED <<upstream, fork_block_number, blocks, mined, stateTrie, answer>>
-----------------------------------------------------------------------------
(* Blocks, receipts and logs.                                               *)

\* eth_getBlockByNumber.  An upstream block is one HTTP request away.
GetBlock ==
  \E tag \in Tags :
    Ask([op |-> "block", number |-> EffectiveBlockNumber(tag)])

\* "earliest" is block 0, the other node's; getFallbackBlock makes a number of the
\* word before it sends it, and that throws.
Earliest == <<"earliest">>

GetEarliestBlock == Ask(Abandoned(Earliest))

\* Of another word than the tags, getEffectiveBlockNumber never calls back.
UnknownTag == <<"unknown tag">>

NameABlockByAWord == Ask(Abandoned(UnknownTag))

EndGetBlock ==
  /\ request.op = "block"
  /\ Tell([op |-> "block", number |-> request.number,
           value |-> IF IsFallbackBlock(request.number)
                       THEN UpstreamBlock(request.number).hash
                       ELSE OwnBlock(request.number).hash])
  /\ UNCHANGED <<upstream, node, parted>>

\* A hash no node has had a block or a transaction of.
UnknownHash == <<"none", 0>>

\* What a client may have heard of: blocks of either node, popped ones too.
Hashes ==
  {upstream[i].hash : i \in DOMAIN upstream} \cup {OwnHash(i) : i \in 0..mined - 1}
    \cup {UnknownHash}

GetBlockByHash == \E hash \in Hashes : Ask([op |-> "hash", hash |-> hash])

\* A hash that is not one of blockHashes is the other node's; when that has no
\* such block either, there is none, and eth_getBlockByNumber throws on it.
EndGetBlockByHash ==
  /\ request.op = "hash"
  /\ IF OwnIndexOfHash(request.hash) \cup UpstreamIndexOfHash(request.hash) # {}
       THEN Tell([op |-> "hash", hash |-> request.hash, value |-> request.hash])
       ELSE request' = Abandoned(request.hash) /\ UNCHANGED answer
  /\ UNCHANGED <<upstream, node, parted>>

GetReceipt == \E tx \in Hashes : Ask([op |-> "receipt", hash |-> tx])

\* getTransactionReceipt: the own receipt, else the other node's.  The block of
\* that one is looked up by its number, on this node's chain; a number it has not
\* reached is an error.
ReceiptBlockNumber(tx) == (CHOOSE i \in UpstreamIndexOfTx(tx) : TRUE) - 1

ReceiptBlock(tx) ==
  IF OwnIndexOfTx(tx) # {} THEN blocks[CHOOSE i \in OwnIndexOfTx(tx) : TRUE].hash
  ELSE IF UpstreamIndexOfTx(tx) = {} THEN NoBlock
  ELSE IF IsFallbackBlock(ReceiptBlockNumber(tx))
         THEN UpstreamBlock(ReceiptBlockNumber(tx)).hash
         ELSE OwnBlock(ReceiptBlockNumber(tx)).hash

OutOfRange(tx) ==
  /\ OwnIndexOfTx(tx) = {} /\ UpstreamIndexOfTx(tx) # {}
  /\ ReceiptBlockNumber(tx) > Height

EndGetReceipt ==
  /\ request.op = "receipt"
  /\ IF OutOfRange(request.hash) THEN request' = Idle /\ UNCHANGED answer
     ELSE Tell([op |-> "receipt", hash |-> request.hash,
                value |-> ReceiptBlock(request.hash)])
  /\ UNCHANGED <<upstream, node, parted>>

\* eth_getLogs: the blocks of the range one after another.
GetLogs ==
  \E from, to \in Tags :
    LET m == EffectiveBlockNumber(from)
        n == EffectiveBlockNumber(to)
    IN  /\ m <= n
        /\ Ask([op |-> "logs", number |-> m, to |-> n, logs |-> <<>>])

Current == request.number + Len(request.logs)

\* getBlockLogs
BlockLogs(n) ==
  IF RelativeBlockNumber(n) < 0 THEN UpstreamBlock(n).txs ELSE OwnBlock(n).txs

NextLogs ==
  /\ request.op = "logs" /\ Current <= request.to
  /\ request' = [request EXCEPT !.logs = Append(@, BlockLogs(Current))]
  /\ UNCHANGED <<upstream, node, answer, parted>>

EndGetLogs ==
  /\ request.op = "logs" /\ Current > request.to
  /\ Tell([op |-> "logs", number |-> request.number, to |-> request.to,
           value |-> request.logs])
  /\ UNCHANGED <<upstream, node, parted>>
-----------------------------------------------------------------------------
\* An HTTP request fails: the caller hears the error.
FetchFails ==
  /\ UpstreamFails
  /\ \/ request.op \in {"account", "storage"} /\ ~AllFetched
     \/ request.op = "block" /\ IsFallbackBlock(request.number)
     \/ request.op = "hash" /\ OwnIndexOfHash(request.hash) = {}
     \/ request.op = "receipt" /\ OwnIndexOfTx(request.hash) = {}
     \/ request.op = "logs" /\ Current <= request.to /\ RelativeBlockNumber(Current) < 0
  /\ request' = Idle
  /\ UNCHANGED <<upstream, node, answer, parted>>

\* One fails under the VM, which may have stored by then; a transaction is dropped with
\* the block it was to be in.
ExecutionFails ==
  /\ UpstreamFails
  /\ request.op \in {"transact", "call"} /\ ~AllFetched
  /\ request' = Idle
  /\ Undone(request)
  /\ UNCHANGED <<upstream, fork_block_number, blocks, mined, stateTrie, answer>>

\* The other node answers eth_getLogs with an error: getBlockLogs reads its result all
\* the same, and throws.
RefusedLogs == <<"refused logs">>

LogsRefused ==
  /\ UpstreamFails
  /\ request.op = "logs" /\ Current <= request.to /\ RelativeBlockNumber(Current) < 0
  /\ request' = Abandoned(RefusedLogs)
  /\ UNCHANGED <<upstream, node, answer, parted>>

\* evm_revert: popBlock takes blocks off and sets the root of the state trie.  The
\* cached storage trie stays as it is.
KeepsTheRoot(height) == stateTrie
RootAfterPop(height) == blocks[height].root

Revert ==
  /\ \E height \in 1..Len(blocks) - 1 :
       /\ blocks' = SubSeq(blocks, 1, height)
       /\ stateTrie' = RootAfterPop(height)
       /\ parted' = (parted \/ blocks[height].slot # Last.slot)
  /\ answer' = NoAnswer
  /\ UNCHANGED <<upstream, fork_block_number, mined, storageTrie, request>>
-----------------------------------------------------------------------------
Serve ==
  \/ FetchPart \/ EndRead \/ EndTransact \/ EndCall
  \/ EndGetBlock \/ EndGetBlockByHash \/ EndGetReceipt
  \/ NextLogs \/ EndGetLogs

Question ==
  /\ MayAsk
  /\ \/ GetAccount \/ GetStorage \/ Transact \/ Call \/ Revert
     \/ GetBlock \/ GetEarliestBlock \/ NameABlockByAWord
     \/ GetBlockByHash \/ GetReceipt \/ GetLogs

Failure == FetchFails \/ ExecutionFails \/ LogsRefused

Next == UpstreamMines \/ CreateGenesisBlock \/ Question \/ Serve \/ Failure

Spec == Init /\ [][Next]_vars
-----------------------------------------------------------------------------
Value == [Parts -> Nat]
PartialTrie == UNION {[S -> Value] : S \in SUBSET Accounts}
Got(parts) == UNION {[S -> Nat] : S \in SUBSET parts}
Hash == {"upstream", "own", "none"} \X Nat

UpstreamBlocks ==
  [hash : Hash, txs : Seq(Hash), accounts : [Accounts -> Value], slot : Nat]
OwnBlocks ==
  [hash : Hash, txs : Seq(Hash), number : Nat, root : PartialTrie, slot : Nat,
   destroyed : SUBSET Accounts]

Requests ==
  {Idle}
    \cup [op : {"account"}, account : Accounts, number : Nat, parts : {Parts, {Code}},
          got : Got(Parts)]
    \cup [op : {"storage"}, parts : {{Slot}}, padded : BOOLEAN, got : Got({Slot})]
    \cup [op : {"transact", "call"}, account : Accounts, number : Nat, effect : Effects,
          parts : {Parts, Parts \cup {Slot}}, got : Got(Parts \cup {Slot})]
    \cup [op : {"block"}, number : Nat]
    \cup [op : {"hash", "receipt"}, hash : Hash]
    \cup [op : {"logs"}, number : Nat, to : Nat, logs : Seq(Seq(Hash))]
    \cup [op : {"abandoned"}, of : Hash \cup {Earliest, UnknownTag, RefusedLogs}]

Answers ==
  [op : {"account"}, account : Accounts, number : Nat,
   value : [Parts -> Nat] \cup [{Code} -> Nat]]
    \cup [op : {"storage"}, padded : BOOLEAN, value : Nat]
    \cup [op : {"block"}, number : Nat, value : Hash]
    \cup [op : {"hash"}, hash : Hash, value : Hash]
    \cup [op : {"receipt"}, hash : Hash, value : Hash \cup {NoBlock}]
    \cup [op : {"logs"}, number : Nat, to : Nat, value : Seq(Seq(Hash))]

ASSUME NothingAssumption == NoAnswer \notin Answers

\* Types.
TypeOK ==
  /\ upstream \in Seq(UpstreamBlocks)
  /\ fork_block_number \in {Unpinned} \cup 0..UpstreamHeight
  /\ blocks \in Seq(OwnBlocks)
  /\ mined \in Nat
  /\ stateTrie \in PartialTrie
  /\ storageTrie \in Nat \cup {Absent}
  /\ request \in Requests
  /\ answer \in Answers \cup {NoAnswer}
  /\ parted \in BOOLEAN

\* The one chain: the other node's up to the fork, then this node's, with the accounts
\* this node has not destroyed.
OwnState(i) ==
  [a \in Accounts \ blocks[i].destroyed |->
     IF a \in DOMAIN blocks[i].root THEN blocks[i].root[a]
     ELSE UpstreamBlock(fork_block_number).accounts[a]]

Seen(block, accounts) ==
  [hash |-> block.hash, txs |-> block.txs, accounts |-> accounts]

TheChain ==
  IF fork_block_number = Unpinned THEN <<>>
  ELSE [n \in 1..fork_block_number + 1 + Len(blocks) |->
         IF IsFallbackBlock(n - 1)
           THEN Seen(UpstreamBlock(n - 1), UpstreamBlock(n - 1).accounts)
           ELSE Seen(OwnBlock(n - 1), OwnState(RelativeBlockNumber(n - 1) + 1))]

\* A block, or a transaction, that the other node got after the fork: the code does
\* not hide those from a client that has its hash.
AfterTheFork(hash) ==
  \E n \in fork_block_number + 1..UpstreamHeight : hash = UpstreamHash(n)

AboutTheChain ==
  /\ answer # NoAnswer
  /\ answer.op # "storage"
  /\ answer.op \in {"hash", "receipt"} => ~AfterTheFork(answer.hash)

\* The node is one chain to its clients: whatever the other node does meanwhile,
\* and whether a value, a block, a receipt or a range of logs is this node's or
\* fetched in parts over several turns, the answer is of one block of the chain
\* made of the blocks up to the fork and the own ones, and every own block is
\* executed on the state before it (the fallbacks of forkedblockchain.js).  Nothing
\* is said of an account after an own block has destroyed it: its key is gone, and
\* the node takes it from the other node again, as it was at the fork.
One == INSTANCE OneChain WITH
  chain <- TheChain,
  floor <- IF fork_block_number = Unpinned THEN 0 ELSE fork_block_number + 2,
  answer <- IF AboutTheChain THEN answer ELSE NoAnswer

LooksLikeOneChain == One!Spec

\* What eth_getStorageAt reads of a position written in full, and what the next
\* transaction starts from, is the storage of the latest block.
StorageOfLastBlock ==
  fork_block_number # Unpinned =>
    /\ Last.slot = IF storageTrie = Absent
                     THEN UpstreamBlock(fork_block_number).slot ELSE storageTrie
    /\ answer # NoAnswer =>
         (answer.op = "storage" /\ answer.padded => answer.value = Last.slot)

\* The storage trie, which is cached by address and has no root to go back to, and
\* the state trie stay together until a revert takes back a block that wrote it; what
\* a call, a transaction that throws or one whose fetch fails has stored stays; a 0 is
\* stored where the other node has none; or the contract is destroyed
\* (createForkedStorageTrie, ForkedStorageTrie.get, popBlock, processCall).
StorageUntilParted == ~parted => StorageOfLastBlock

\* A request is left without an answer in these ways only: the block is named
\* "earliest", or by a word that is no tag; the other node refuses the logs of a block
\* before the fork; or the hash is of an own block that a revert has taken back, or of
\* none there has ever been (getBlock falls back for a hash it does not know).
StopsOnlyWhenLost ==
  request.op = "abandoned" =>
    \/ request.of \in {Earliest, UnknownTag, UnknownHash}
    \/ request.of = RefusedLogs /\ UpstreamFails
    \/ \E i \in 0..mined - 1 : /\ request.of = OwnHash(i)
                              /\ \A k \in DOMAIN blocks : blocks[k].hash # OwnHash(i)

=============================================================================
