----------------------------- MODULE BlockStore -----------------------------
(***************************************************************************)
(* What putBlock and popBlock (lib/blockchain_double.js) write to the      *)
(* database, one key at a time (lib/database/leveluparrayadapter.js and    *)
(* levelupobjectadapter.js), and what a process that stops anywhere leaves *)
(* to the next one that opens the same db_path.                            *)
(*                                                                         *)
(* A list of the database is a length and the items put under its indices  *)
(* (from 0); push and pop write the two apart.  putBlock starts all its    *)
(* writes together; popBlock makes them one after the other.               *)
(*                                                                         *)
(* A record is a file of its own (lib/database/filedown.js).  A deletion   *)
(* is done or not; a write empties the file first, so a process that stops *)
(* inside it may leave one that does not decode.                           *)
(*                                                                         *)
(* A definition just before another with the same parameters, and not used *)
(* by any other, is a fault the code might have: PROJECT.json pairs them,  *)
(* and README.md says which property each must break.                      *)
(***************************************************************************)
EXTENDS Integers, Sequences, Functions

CONSTANTS
  BlockIds,     \* the hashes of blocks
  Txs,          \* the hashes of transactions
  TxsOf,        \* the transactions of a block, in order
  MaxRestarts,  \* bound: times the process stops and another starts
  Reverts,      \* evm_revert is used
  MaxLength     \* bound: blocks in the chain

ASSUME TxsOfAssumption == TxsOf \in [BlockIds -> Seq(Txs)]
ASSUME OptionsAssumption ==
  Reverts \in BOOLEAN /\ MaxRestarts \in Nat /\ MaxLength \in Nat

VARIABLES
  blocks, blockLogs,    \* lists: [length, item]; a block's logs bear its hash
  blockHashes,          \* block hash -> index
  transactions,         \* the transaction hashes with a record
  transactionReceipts,  \* transaction hash -> the block hash in its receipt
  root,                 \* stateTrie.root, named by the block it is the root of
  torn,                 \* the records whose files do not decode; those of
                        \*   transactions and receipts are left out
  job,                  \* the putBlock or popBlock under way
  restarts

store == <<blocks, blockLogs, blockHashes, transactions, transactionReceipts, torn>>
vars == <<store, root, job, restarts>>

NoBlock == "no block"

Quiet == [op |-> "none"]

\* The number of blocks or the last of them cannot be read: initialize fails.
Unopenable == [op |-> "failed"]

Empty == [length |-> 0, item |-> <<>>]

\* A write names what it writes, and the transaction when it is about one.
Of(kind) == <<kind, "">>

Holds(list, index) == index \in DOMAIN list.item

WithItem(list, index, value) ==
  [list EXCEPT !.item = [i \in DOMAIN @ \cup {index} |->
                           IF i = index THEN value ELSE @[i]]]

WithoutItem(list, index) ==
  [list EXCEPT !.item = [i \in DOMAIN @ \ {index} |-> @[i]]]

WithLength(list, length) == [list EXCEPT !.length = length]

Put(map, key, value) ==
  [k \in DOMAIN map \cup {key} |-> IF k = key THEN value ELSE map[k]]

Del(map, key) == [k \in DOMAIN map \ {key} |-> map[k]]

Indices == 0..(blocks.length - 1)

LastBlock ==
  IF blocks.length = 0 THEN NoBlock ELSE blocks.item[blocks.length - 1]

\* The decoder of a block's logs looks the block up by its hash, then its index;
\* a block without transactions has no logs, and there is nothing to look up.
LogsReadable(index) ==
  /\ Holds(blockLogs, index) /\ <<"blockLogs", index>> \notin torn
  /\ LET b == blockLogs.item[index]
     IN  TxsOf[b] # <<>> =>
         /\ b \in DOMAIN blockHashes /\ <<"hash", b>> \notin torn
         /\ blockHashes[b] < blocks.length
         /\ Holds(blocks, blockHashes[b])

Init ==
  /\ blocks = Empty /\ blockLogs = Empty
  /\ blockHashes = <<>>
  /\ transactions = {} /\ transactionReceipts = <<>>
  /\ root = NoBlock
  /\ torn = {}
  /\ job = Quiet
  /\ restarts = 0
-----------------------------------------------------------------------------
(* putBlock.                                                                *)

PutWrites(b) ==
  {Of("item"), Of("length"), Of("logs item"), Of("logs length"), Of("hash")}
    \cup {"tx", "receipt"} \X Range(TxsOf[b])

\* The VM has executed a new block, none of whose transactions is in the chain
\* (see Chain), and committed its root.
StartPut(b) ==
  /\ job = Quiet
  /\ blocks.length < MaxLength
  /\ \A i \in Indices : Holds(blocks, i) =>
       /\ blocks.item[i] # b
       /\ Range(TxsOf[blocks.item[i]]) \cap Range(TxsOf[b]) = {}
  /\ root' = b
  /\ job' = [op |-> "put", block |-> b, index |-> blocks.length,
             todo |-> PutWrites(b)]
  /\ UNCHANGED <<store, restarts>>

LengthAnyTime(w) == TRUE
\* The writes of putBlock run together, but push reads the length, puts the item,
\* and then puts the length.
MayWrite(w) ==
  /\ w = Of("logs item") => Of("logs length") \notin torn
  /\ w = Of("length") => Of("item") \notin job.todo
  /\ w = Of("logs length") => Of("logs item") \notin job.todo

\* The record a write of putBlock makes anew.
Record(w) ==
  CASE w = Of("item")      -> <<"blocks", blocks.length>>
    [] w = Of("logs item") -> <<"blockLogs", blockLogs.length>>
    [] w = Of("hash")      -> <<"hash", job.block>>
    [] OTHER               -> w

PutWrite(w) ==
  /\ job.op = "put" /\ w \in job.todo /\ MayWrite(w)
  /\ job' = [job EXCEPT !.todo = @ \ {w}]
  /\ blocks' =
       CASE w = Of("item")   -> WithItem(blocks, blocks.length, job.block)
         [] w = Of("length") -> WithLength(blocks, blocks.length + 1)
         [] OTHER            -> blocks
  /\ blockLogs' =
       CASE w = Of("logs item") ->
              WithItem(blockLogs, blockLogs.length, job.block)
         [] w = Of("logs length") -> WithLength(blockLogs, blockLogs.length + 1)
         [] OTHER -> blockLogs
  /\ blockHashes' = IF w = Of("hash") THEN Put(blockHashes, job.block, job.index)
                    ELSE blockHashes
  /\ transactions' = transactions \cup (IF w[1] = "tx" THEN {w[2]} ELSE {})
  /\ transactionReceipts' =
       IF w[1] = "receipt" THEN Put(transactionReceipts, w[2], job.block)
       ELSE transactionReceipts
  /\ torn' = torn \ {Record(w)}
  /\ UNCHANGED <<root, restarts>>

\* The push of the logs cannot read their length, and putBlock ends in an error; its
\* other writes have begun and are made all the same.
PutFails ==
  /\ job.op = "put" /\ Of("logs item") \in job.todo
  /\ Of("logs length") \in torn
  /\ job' = [job EXCEPT !.todo = @ \ {Of("logs item"), Of("logs length")}]
  /\ UNCHANGED <<store, root, restarts>>

\* async.parallel calls back: the block is announced ('block').
FinishPut ==
  /\ job.op = "put" /\ job.todo = {}
  /\ job' = Quiet
  /\ UNCHANGED <<store, root, restarts>>
-----------------------------------------------------------------------------
(* popBlock.                                                                *)

\* Of each transaction the record, then the receipt.
TxWrites(b) ==
  [k \in 1..2 * Len(TxsOf[b]) |->
     <<IF k % 2 = 1 THEN "tx" ELSE "receipt", TxsOf[b][(k + 1) \div 2]>>]

HashBeforeLogs(b) ==
  TxWrites(b) \o
    <<Of("hash"), Of("logs item"), Of("logs length"),
      Of("item"), Of("length")>>

\* The order of the deletions; the logs go while their block can be looked up.
PopWrites(b) ==
  TxWrites(b) \o
    <<Of("logs item"), Of("logs length"), Of("hash"),
      Of("item"), Of("length")>>

StartPop ==
  /\ Reverts /\ job = Quiet
  /\ blocks.length > 1
  /\ job' = [op |-> "pop", block |-> LastBlock, todo |-> PopWrites(LastBlock)]
  /\ UNCHANGED <<store, root, restarts>>

\* Reading what is about to go fails, and with it the revert.
ReadFails(w) ==
  /\ w = Of("logs item")
  /\ Of("logs length") \in torn \/ ~LogsReadable(blockLogs.length - 1)

PopKeepsReceipt(map, w) == map
ReceiptsWithout(map, w) == IF w[1] = "receipt" THEN Del(map, w[2]) ELSE map

PopWrite ==
  /\ job.op = "pop" /\ job.todo # <<>>
  /\ LET w == Head(job.todo)
     IN  /\ ~ReadFails(w)
         /\ blocks' =
              CASE w = Of("item")   -> WithoutItem(blocks, blocks.length - 1)
                [] w = Of("length") -> WithLength(blocks, blocks.length - 1)
                [] OTHER            -> blocks
         /\ blockLogs' =
              CASE w = Of("logs item") ->
                     WithoutItem(blockLogs, blockLogs.length - 1)
                [] w = Of("logs length") ->
                     WithLength(blockLogs, blockLogs.length - 1)
                [] OTHER -> blockLogs
         /\ blockHashes' = IF w = Of("hash") THEN Del(blockHashes, job.block)
                           ELSE blockHashes
         /\ transactions' = transactions \ (IF w[1] = "tx" THEN {w[2]} ELSE {})
         /\ transactionReceipts' = ReceiptsWithout(transactionReceipts, w)
         /\ torn' = torn \ {IF w = Of("hash") THEN <<"hash", job.block>> ELSE w}
  /\ job' = [job EXCEPT !.todo = Tail(@)]
  /\ UNCHANGED <<root, restarts>>

PopFails ==
  /\ job.op = "pop" /\ job.todo # <<>>
  /\ ReadFails(Head(job.todo))
  /\ job' = Quiet
  /\ UNCHANGED <<store, root, restarts>>

\* The root goes back to that of the block that is last now.
FinishPop ==
  /\ job.op = "pop" /\ job.todo = <<>>
  /\ root' = LastBlock
  /\ job' = Quiet
  /\ UNCHANGED <<store, restarts>>
-----------------------------------------------------------------------------
\* The writes that have begun and not ended, but for those of transactions and
\* receipts: neither a put, nor a pop, nor a process that starts reads those.
InFlight ==
  CASE job.op = "put" -> {w \in job.todo \ {"tx", "receipt"} \X Txs : MayWrite(w)}
    [] job.op = "pop" -> {w \in {Of("logs length"), Of("length")} :
                            job.todo # <<>> /\ Head(job.todo) = w}
    [] OTHER -> {}

CanOpen ==
  /\ Of("length") \notin torn
  /\ blocks.length > 0 =>
       /\ Holds(blocks, blocks.length - 1)
       /\ <<"blocks", blocks.length - 1>> \notin torn

\* The process stops, inside any of these; another opens the database and starts
\* from its last block, or from nothing when there is none (initialize).
Restart ==
  /\ job # Unopenable
  /\ restarts < MaxRestarts
  /\ restarts' = restarts + 1
  /\ \E cut \in SUBSET InFlight : torn' = torn \cup {Record(w) : w \in cut}
  /\ UNCHANGED <<blocks, blockLogs, blockHashes, transactions, transactionReceipts>>
  /\ IF CanOpen' THEN job' = Quiet /\ root' = LastBlock
                 ELSE job' = Unopenable /\ root' = NoBlock

Next ==
  \/ \E b \in BlockIds : StartPut(b)
  \/ \E w \in Range(<<"item", "length", "logs item", "logs length", "hash">>) :
       PutWrite(Of(w))
  \/ \E kind \in {"tx", "receipt"}, tx \in Txs : PutWrite(<<kind, tx>>)
  \/ PutFails \/ FinishPut
  \/ StartPop \/ PopWrite \/ PopFails \/ FinishPop
  \/ Restart

Spec == Init /\ [][Next]_vars
-----------------------------------------------------------------------------
Records ==
  {Of("length"), Of("logs length")} \cup {"blocks", "blockLogs"} \X Nat
    \cup {"hash"} \X BlockIds \cup {"tx", "receipt"} \X Txs

IsList(list) ==
  /\ list = [length |-> list.length, item |-> list.item]
  /\ list.length \in Nat /\ DOMAIN list.item \subseteq Nat
  /\ list.item \in [DOMAIN list.item -> BlockIds]

\* The variables have their types; what popBlock takes off a list was on it.
TypeOK ==
  /\ IsList(blocks) /\ IsList(blockLogs)
  /\ DOMAIN blockHashes \subseteq BlockIds
  /\ blockHashes \in [DOMAIN blockHashes -> Nat]
  /\ transactions \subseteq Txs
  /\ DOMAIN transactionReceipts \subseteq Txs
  /\ transactionReceipts \in [DOMAIN transactionReceipts -> BlockIds]
  /\ root \in BlockIds \cup {NoBlock}
  /\ torn \subseteq Records
  /\ \/ job \in {Quiet, Unopenable}
     \/ \E b \in BlockIds :
          \/ job \in [op : {"put"}, block : {b}, index : Nat, todo : SUBSET PutWrites(b)]
          \/ job \in [op : {"pop"}, block : {b}, todo : Seq(PutWrites(b))]
  /\ restarts \in 0..MaxRestarts

(* In one life of the process, the five parts of the database tell of one  *)
(* chain between jobs: every block has its logs under its own index, its   *)
(* hash leads to it, and the transactions and receipts are those of its    *)
(* blocks (putBlock, popBlock, through blocks and transactions that are    *)
(* popped and mined again).                                                *)
StoreTellsOneChain ==
  job = Quiet /\ restarts = 0 =>
    /\ DOMAIN blocks.item = Indices
    /\ blockLogs = blocks
    /\ blockHashes = [b \in Range(blocks.item) |->
                        CHOOSE i \in Indices : blocks.item[i] = b]
    /\ transactions = UNION {Range(TxsOf[b]) : b \in Range(blocks.item)}
    /\ DOMAIN transactionReceipts = transactions
    /\ \A tx \in transactions :
         /\ transactionReceipts[tx] \in Range(blocks.item)
         /\ tx \in Range(TxsOf[transactionReceipts[tx]])

(* In one life of the process, a pop never meets a record its own earlier  *)
(* deletions have made unreadable ("Do this one last in case anything      *)
(* relies on it", popBlock; the decoders of the database).                 *)
PopNeverFails ==
  job.op = "pop" /\ job.todo # <<>> /\ restarts = 0 => ~ReadFails(Head(job.todo))

(* The database a process leaves can be opened, wherever it stopped and    *)
(* whatever of its writes were cut off, but for two moments: while a push  *)
(* writes the new length of blocks, and, after a pop has deleted the last  *)
(* block, until the length is written (push, pop; README.md: "If a         *)
(* database already exists, that chain will be initialized").              *)
ReopenFailsOnlyAtTheLength ==
  [][job' = Unopenable =>
       \/ job.op = "put" /\ Of("length") \in job.todo /\ Of("item") \notin job.todo
       \/ job.op = "pop" /\ job.todo = <<Of("length")>>]_vars
=============================================================================
