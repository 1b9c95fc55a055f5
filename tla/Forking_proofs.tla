---------------------------- MODULE Forking_proofs ----------------------------
(***************************************************************************)
(* Proofs about Forking, for any accounts, parts, transactions and bounds: *)
(* when a question stops the node, that storage agrees with the chain      *)
(* until something parts them, and that the node looks like one chain.     *)
(***************************************************************************)
EXTENDS Forking, TLAPS, SequenceTheorems

-----------------------------------------------------------------------------
(* The inductive invariant.                                                 *)

\* The other node's blocks are numbered, and the genesis block is empty.
UpstreamSound ==
  /\ upstream # <<>>
  /\ \A i \in DOMAIN upstream :
       /\ upstream[i].hash = UpstreamHash(i - 1)
       /\ upstream[i].txs = IF i = 1 THEN <<>> ELSE <<UpstreamHash(i - 1)>>

\* Nothing is asked before there is a genesis block.
NothingBefore ==
  fork_block_number = Unpinned =>
    /\ blocks = <<>> /\ stateTrie = <<>> /\ storageTrie = Absent
    /\ request = Idle /\ answer = NoAnswer

\* The own blocks follow the fork, each with a hash of its own.  Along them a key of
\* the state trie only goes with the account, and what is destroyed stays so.
OwnSound ==
  fork_block_number # Unpinned =>
    /\ blocks # <<>> /\ stateTrie = Last.root
    /\ \A i \in DOMAIN blocks :
         /\ blocks[i].number = fork_block_number + i
         /\ \E k \in 0..mined - 1 : blocks[i].hash = OwnHash(k)
         /\ blocks[i].txs = IF i = 1 THEN <<>> ELSE <<blocks[i].hash>>
    /\ \A i, j \in DOMAIN blocks : blocks[i].hash = blocks[j].hash => i = j
    /\ \A i, j \in DOMAIN blocks :
         i <= j =>
           /\ DOMAIN blocks[i].root \subseteq DOMAIN blocks[j].root \cup blocks[j].destroyed
           /\ blocks[i].destroyed \subseteq blocks[j].destroyed

\* The accounts, the transactions and the hash of a block of the one chain.
AccountsAt(n) ==
  IF IsFallbackBlock(n) THEN UpstreamBlock(n).accounts
  ELSE OwnState(RelativeBlockNumber(n) + 1)

TxsAt(n) == IF IsFallbackBlock(n) THEN UpstreamBlock(n).txs ELSE OwnBlock(n).txs

HashAt(n) == IF IsFallbackBlock(n) THEN UpstreamBlock(n).hash ELSE OwnBlock(n).hash

\* The accounts that no block up to this one has destroyed.
LeftAt(n) == IF IsFallbackBlock(n) THEN Accounts ELSE Accounts \ OwnBlock(n).destroyed

CurrentSlot ==
  IF storageTrie = Absent THEN UpstreamBlock(fork_block_number).slot ELSE storageTrie

\* The node does not go wrong about an account no own block has destroyed, nor about
\* a slot whose position is written in full.
Right(account, n) == IsFallbackBlock(n) \/ account \notin Last.destroyed

Certain(r, p) ==
  IF p = Slot THEN r.op = "storage" => r.padded ELSE Right(r.account, r.number)

\* What a part of a request has to be told, ...
Truth(r, p) ==
  IF p = Slot THEN CurrentSlot ELSE AccountsAt(r.number)[r.account][p]

\* ... and what the other node says when it is asked for it.
Fetched(r, p) ==
  IF p = Slot THEN UpstreamBlock(fork_block_number).slot
  ELSE UpstreamBlock(SafeFallbackBlockNumber(r.number)).accounts[r.account][p]

\* What a request has is true, and so will be what it is still to fetch.
GotTruth(r) ==
  /\ DOMAIN r.got \subseteq r.parts
  /\ \A p \in r.parts : Certain(r, p) =>
       (IF p \in DOMAIN r.got THEN r.got[p] ELSE Fetched(r, p)) = Truth(r, p)

\* Logs are of the blocks of the range so far.
LogsTruth(r) ==
  /\ r.number \in 0..Height /\ r.to \in 0..Height /\ r.number <= r.to
  /\ Len(r.logs) <= r.to - r.number + 1
  /\ \A i \in 1..Len(r.logs) : r.logs[i] = TxsAt(r.number + i - 1)

RequestSound(r) ==
  /\ r.op \in {"account", "block"} => r.number \in 0..Height
  /\ r.op \in {"transact", "call"} =>
       /\ r.number = Height
       /\ r.parts = Parts \cup (IF r.effect \in Storing THEN {Slot} ELSE {})
  /\ r.op \in Fetching => GotTruth(r)
  /\ r.op \in {"hash", "receipt"} => r.hash \in Hashes
  /\ r.op = "logs" => LogsTruth(r)

AskedInTurn == request # Idle => answer = NoAnswer

Sound == TypeOK /\ UpstreamSound /\ NothingBefore /\ OwnSound /\ AskedInTurn

ForkInv ==
  /\ Sound
  /\ RequestSound(request)
  /\ StopsOnlyWhenLost
  /\ StorageUntilParted
-----------------------------------------------------------------------------
(* What is where.                                                           *)

LEMMA GotType ==
  ASSUME NEW parts, NEW f
  PROVE  f \in Got(parts) <=> DOMAIN f \subseteq parts /\ f \in [DOMAIN f -> Nat]
<1>1. ASSUME f \in Got(parts) PROVE DOMAIN f \subseteq parts /\ f \in [DOMAIN f -> Nat]
  <2>1. PICK S \in SUBSET parts : f \in [S -> Nat]
    BY <1>1 DEF Got
  <2>2. QED
    BY <2>1
<1>2. ASSUME DOMAIN f \subseteq parts, f \in [DOMAIN f -> Nat] PROVE f \in Got(parts)
  BY <1>2 DEF Got
<1>3. QED
  BY <1>1, <1>2

LEMMA NothingHeld == \A parts : <<>> \in Got(parts) /\ DOMAIN <<>> = {}
<1>1. DOMAIN <<>> = {}
  OBVIOUS
<1>2. <<>> \in [{} -> Nat]
  OBVIOUS
<1>3. QED
  BY <1>1, <1>2 DEF Got

LEMMA TrieType ==
  ASSUME NEW f
  PROVE  f \in PartialTrie <=> DOMAIN f \subseteq Accounts /\ f \in [DOMAIN f -> Value]
<1>1. ASSUME f \in PartialTrie
      PROVE DOMAIN f \subseteq Accounts /\ f \in [DOMAIN f -> Value]
  <2>1. PICK S \in SUBSET Accounts : f \in [S -> Value]
    BY <1>1 DEF PartialTrie
  <2>2. QED
    BY <2>1
<1>2. ASSUME DOMAIN f \subseteq Accounts, f \in [DOMAIN f -> Value]
      PROVE f \in PartialTrie
  BY <1>2 DEF PartialTrie
<1>3. QED
  BY <1>1, <1>2

\* The numbers of the chain: up to the fork the other node's, then the own ones.
LEMMA Numbers ==
  ASSUME TypeOK, UpstreamSound, OwnSound, fork_block_number # Unpinned
  PROVE  /\ fork_block_number \in Nat /\ fork_block_number <= UpstreamHeight
         /\ Len(blocks) \in Nat /\ Len(blocks) > 0
         /\ Height = fork_block_number + Len(blocks)
         /\ Last \in OwnBlocks /\ Last = blocks[Len(blocks)]
         /\ UpstreamBlock(fork_block_number) \in UpstreamBlocks
<1>1. fork_block_number \in 0..UpstreamHeight /\ Len(upstream) \in Nat
  BY DEF TypeOK, Unpinned, UpstreamHeight
<1>2. blocks \in Seq(OwnBlocks) /\ blocks # <<>>
  BY DEF TypeOK, OwnSound
<1>3. Len(blocks) \in Nat /\ Len(blocks) > 0 /\ Len(blocks) \in DOMAIN blocks
  BY <1>2
<1>4. Height = fork_block_number + Len(blocks)
  BY <1>3 DEF OwnSound, Height, Last
<1>5. fork_block_number + 1 \in 1..Len(upstream)
  BY <1>1 DEF UpstreamHeight
<1>6. UpstreamBlock(fork_block_number) \in UpstreamBlocks
  BY <1>5 DEF UpstreamBlock, TypeOK
<1>7. QED
  BY <1>1, <1>2, <1>3, <1>4, <1>6 DEF Last

LEMMA FallbackBlock ==
  ASSUME TypeOK, UpstreamSound, OwnSound, fork_block_number # Unpinned,
         NEW n \in 0..Height, n <= fork_block_number
  PROVE  /\ IsFallbackBlock(n) /\ n + 1 \in DOMAIN upstream
         /\ UpstreamBlock(n) \in UpstreamBlocks
         /\ UpstreamBlock(n).hash = UpstreamHash(n)
         /\ UpstreamBlock(n).txs = IF n = 0 THEN <<>> ELSE <<UpstreamHash(n)>>
         /\ RelativeBlockNumber(n) < 0
<1>1. n + 1 \in 1..Len(upstream) /\ n \in Nat
  BY Numbers DEF UpstreamHeight, TypeOK
<1>2. UpstreamBlock(n) = upstream[n + 1] /\ upstream[n + 1] \in UpstreamBlocks
  BY <1>1 DEF UpstreamBlock, TypeOK
<1>3. n + 1 \in DOMAIN upstream
  BY <1>1 DEF TypeOK
<1>4. (n + 1) - 1 = n /\ (n + 1 = 1 <=> n = 0)
  BY <1>1
<1>5. RelativeBlockNumber(n) < 0
  BY <1>1, Numbers DEF RelativeBlockNumber
<1>6. QED
  BY <1>2, <1>3, <1>4, <1>5 DEF UpstreamSound, IsFallbackBlock

LEMMA OwnBlockAt ==
  ASSUME TypeOK, UpstreamSound, OwnSound, fork_block_number # Unpinned,
         NEW n \in 0..Height, n > fork_block_number
  PROVE  /\ ~IsFallbackBlock(n)
         /\ n - fork_block_number \in DOMAIN blocks
         /\ RelativeBlockNumber(n) + 1 = n - fork_block_number
         /\ RelativeBlockNumber(n) >= 0
         /\ OwnBlock(n) = blocks[n - fork_block_number] /\ OwnBlock(n) \in OwnBlocks
<1>1. n \in Nat /\ n - fork_block_number \in 1..Len(blocks)
  BY Numbers
<1>2. RelativeBlockNumber(n) + 1 = n - fork_block_number /\ RelativeBlockNumber(n) >= 0
  BY <1>1, Numbers DEF RelativeBlockNumber
<1>3. n - fork_block_number \in DOMAIN blocks
  BY <1>1 DEF TypeOK
<1>4. OwnBlock(n) = blocks[n - fork_block_number] /\ OwnBlock(n) \in OwnBlocks
  BY <1>1, <1>2 DEF OwnBlock, TypeOK
<1>5. QED
  BY <1>1, <1>2, <1>3, <1>4, Numbers DEF IsFallbackBlock

\* The account states and the transactions of the chain have their types.
LEMMA ChainTypes ==
  ASSUME TypeOK, UpstreamSound, OwnSound, fork_block_number # Unpinned,
         NEW n \in 0..Height
  PROVE  /\ AccountsAt(n) \in [LeftAt(n) -> Value] /\ TxsAt(n) \in Seq(Hash)
         /\ TxsAt(n) = BlockLogs(n) /\ HashAt(n) \in Hash
<1>1. n \in Int /\ fork_block_number \in Int
  BY Numbers
<1>2. CASE n <= fork_block_number
  BY <1>2, FallbackBlock DEF AccountsAt, LeftAt, TxsAt, HashAt, BlockLogs, UpstreamBlocks
<1>3. CASE n > fork_block_number
  <2> DEFINE i == n - fork_block_number
  <2>1. /\ AccountsAt(n) = OwnState(i) /\ TxsAt(n) = OwnBlock(n).txs
        /\ BlockLogs(n) = OwnBlock(n).txs /\ OwnBlock(n) = blocks[i]
        /\ OwnBlock(n) \in OwnBlocks /\ HashAt(n) = OwnBlock(n).hash
        /\ LeftAt(n) = Accounts \ blocks[i].destroyed
    <3>1. /\ ~IsFallbackBlock(n) /\ RelativeBlockNumber(n) + 1 = i
          /\ ~(RelativeBlockNumber(n) < 0) /\ OwnBlock(n) = blocks[i]
          /\ OwnBlock(n) \in OwnBlocks
      <4>1. RelativeBlockNumber(n) >= 0 /\ RelativeBlockNumber(n) \in Int
        BY <1>3, <1>1, OwnBlockAt DEF RelativeBlockNumber
      <4>2. QED
        BY <4>1, <1>3, OwnBlockAt
    <3>2. QED
      BY <3>1 DEF AccountsAt, LeftAt, TxsAt, HashAt, BlockLogs
  <2>2. /\ blocks[i].root \in PartialTrie
        /\ OwnBlock(n).txs \in Seq(Hash) /\ OwnBlock(n).hash \in Hash
    BY <2>1 DEF OwnBlocks
  <2>3. \A a \in DOMAIN blocks[i].root : blocks[i].root[a] \in Value
    BY <2>2, TrieType
  <2>4. UpstreamBlock(fork_block_number).accounts \in [Accounts -> Value]
    BY Numbers DEF UpstreamBlocks
  <2>5. OwnState(i) \in [LeftAt(n) -> Value]
    BY <2>1, <2>3, <2>4 DEF OwnState
  <2>6. QED
    BY <2>1, <2>2, <2>5
<1>4. QED
  BY <1>1, <1>2, <1>3
-----------------------------------------------------------------------------
(* Asking and telling: the other node and what this one holds stay.         *)

\* What the node holds of an account at a block is true, and when it holds nothing
\* the other node has the truth, at the block it is asked for, unless the account has
\* been destroyed.
LEMMA HeldTruth ==
  ASSUME Sound, fork_block_number # Unpinned,
         NEW a \in Accounts, NEW n \in 0..Height, NEW parts \in SUBSET Parts
  PROVE  /\ HeldParts(a, n, parts) \in Got(parts)
         /\ Right(a, n) => \A p \in parts :
              (IF p \in DOMAIN HeldParts(a, n, parts) THEN HeldParts(a, n, parts)[p]
               ELSE UpstreamBlock(SafeFallbackBlockNumber(n)).accounts[a][p])
                = AccountsAt(n)[a][p]
<1> DEFINE h == HeldParts(a, n, parts)
           i == n - fork_block_number
<1>1. TypeOK /\ UpstreamSound /\ OwnSound
  BY DEF Sound
<1>2. n \in Int /\ fork_block_number \in Int
  BY <1>1, Numbers
<1>3. <<>> \in Got(parts) /\ DOMAIN <<>> = {}
  BY NothingHeld
<1>4. CASE n <= fork_block_number
  <2>1. IsFallbackBlock(n)
    BY <1>4, <1>1, FallbackBlock
  <2>2. h = <<>>
    BY <2>1, <1>3 DEF HeldParts, OwnAccountsAt
  <2>3. SafeFallbackBlockNumber(n) = n
    BY <1>4, <1>2 DEF SafeFallbackBlockNumber
  <2>4. AccountsAt(n) = UpstreamBlock(n).accounts
    BY <2>1 DEF AccountsAt
  <2>5. QED
    BY <1>3, <2>2, <2>3, <2>4
<1>5. CASE n > fork_block_number
  <2>1. /\ ~IsFallbackBlock(n) /\ i \in DOMAIN blocks /\ OwnBlock(n) = blocks[i]
        /\ RelativeBlockNumber(n) + 1 = i /\ blocks[i] \in OwnBlocks
    BY <1>5, <1>1, OwnBlockAt
  <2>2. SafeFallbackBlockNumber(n) = fork_block_number
    BY <1>5 DEF SafeFallbackBlockNumber
  <2>3. AccountsAt(n) = OwnState(i)
    BY <2>1 DEF AccountsAt
  <2>4. blocks[i].root \in PartialTrie
    BY <2>1 DEF OwnBlocks
  <2>5. h \in Got(parts)
    <3>1. CASE a \in DOMAIN OwnAccountsAt(a, n)
      <4>1. OwnAccountsAt(a, n) = blocks[i].root
        BY <2>1, <3>1, <1>3 DEF OwnAccountsAt
      <4>2. h = [p \in parts |-> blocks[i].root[a][p]]
        BY <3>1, <4>1 DEF HeldParts
      <4>3. blocks[i].root[a] \in [Parts -> Nat]
        BY <2>4, <3>1, <4>1, TrieType DEF Value
      <4>4. QED
        BY <4>2, <4>3, GotType
    <3>2. CASE a \notin DOMAIN OwnAccountsAt(a, n)
      <4>1. h = <<>>
        BY <3>2 DEF HeldParts
      <4>2. QED
        BY <1>3, <4>1
    <3>3. QED
      BY <3>1, <3>2
  <2>6. ASSUME Right(a, n)
        PROVE  /\ a \notin blocks[i].destroyed
               /\ a \in DOMAIN blocks[i].root => a \in DOMAIN stateTrie
    <3>1. Len(blocks) \in DOMAIN blocks /\ i <= Len(blocks)
      BY <2>1, <1>1, Numbers DEF TypeOK
    <3>2. a \notin Last.destroyed
      BY <2>1, <2>6 DEF Right
    <3>3. QED
      BY <3>1, <3>2, <2>1, <1>1 DEF OwnSound, Last
  <2>7. CASE Right(a, n) /\ a \in DOMAIN blocks[i].root
    <3>1. OwnAccountsAt(a, n) = blocks[i].root
      BY <2>1, <2>6, <2>7 DEF OwnAccountsAt, KeyExists
    <3>2. h = [p \in parts |-> blocks[i].root[a][p]]
      BY <3>1, <2>7 DEF HeldParts
    <3>3. OwnState(i)[a] = blocks[i].root[a]
      BY <2>6, <2>7 DEF OwnState
    <3>4. QED
      BY <2>3, <2>5, <3>2, <3>3
  <2>8. CASE Right(a, n) /\ a \notin DOMAIN blocks[i].root
    <3>1. a \notin DOMAIN OwnAccountsAt(a, n)
      BY <2>1, <2>8, <1>3 DEF OwnAccountsAt
    <3>2. h = <<>>
      BY <3>1 DEF HeldParts
    <3>3. OwnState(i)[a] = UpstreamBlock(fork_block_number).accounts[a]
      BY <2>6, <2>8 DEF OwnState
    <3>4. QED
      BY <1>3, <2>2, <2>3, <2>5, <3>2, <3>3
  <2>9. QED
    BY <2>5, <2>7, <2>8
<1>6. QED
  BY <1>2, <1>4, <1>5

LEMMA HeldSlotTruth ==
  ASSUME Sound, fork_block_number # Unpinned
  PROVE  /\ HeldSlot \in Got({Slot})
         /\ (IF Slot \in DOMAIN HeldSlot THEN HeldSlot[Slot]
             ELSE UpstreamBlock(fork_block_number).slot) = CurrentSlot
<1>1. storageTrie \in Nat \cup {Absent}
  BY DEF Sound, TypeOK
<1>2. CASE storageTrie = Absent
  <2>1. HeldSlot = <<>>
    BY <1>2 DEF HeldSlot
  <2>2. QED
    BY <1>2, <2>1, NothingHeld DEF CurrentSlot
<1>3. CASE storageTrie # Absent
  <2>1. HeldSlot = [p \in {Slot} |-> storageTrie] /\ storageTrie \in Nat
    BY <1>1, <1>3 DEF HeldSlot
  <2>2. HeldSlot \in Got({Slot})
    BY <2>1, GotType
  <2>3. QED
    BY <1>3, <2>1, <2>2 DEF CurrentSlot
<1>4. QED
  BY <1>2, <1>3

LEMMA SameRequestSound ==
  ASSUME UNCHANGED <<upstream, node>>
  PROVE  RequestSound(request)' <=> RequestSound(request')
BY DEF RequestSound, node, GotTruth, LogsTruth, Truth, Fetched, Certain, Right,
       AccountsAt, TxsAt, Height, Last, Hashes, CurrentSlot, UpstreamBlock,
       SafeFallbackBlockNumber, IsFallbackBlock, OwnState, OwnBlock, RelativeBlockNumber

\* The invariant is about what stays, the request and the answer.
LEMMA SameNode ==
  ASSUME ForkInv, UNCHANGED <<upstream, node, parted>>,
         request' \in Requests, answer' \in Answers \cup {NoAnswer},
         fork_block_number # Unpinned,
         request' # Idle => answer' = NoAnswer,
         RequestSound(request'),
         request'.op = "abandoned" =>
           \/ request'.of \in {Earliest, UnknownTag, UnknownHash}
           \/ request'.of = RefusedLogs /\ UpstreamFails
           \/ \E i \in 0..mined - 1 :
                /\ request'.of = OwnHash(i)
                /\ \A k \in DOMAIN blocks : blocks[k].hash # OwnHash(i),
         answer' # NoAnswer /\ answer'.op = "storage" /\ answer'.padded =>
           answer'.value = CurrentSlot
  PROVE  ForkInv'
<1>1. TypeOK'
  BY DEF ForkInv, Sound, TypeOK, node, UpstreamHeight
<1>2. UpstreamSound'
  BY DEF ForkInv, Sound, UpstreamSound
<1>3. OwnSound'
  BY DEF ForkInv, Sound, OwnSound, node, Last
<1>4. NothingBefore' /\ AskedInTurn'
  BY DEF NothingBefore, AskedInTurn, node
<1>5. RequestSound(request)'
  BY SameRequestSound
<1>6. StopsOnlyWhenLost'
  BY DEF StopsOnlyWhenLost, node
<1>7. StorageUntilParted'
  BY DEF ForkInv, StorageUntilParted, StorageOfLastBlock, node, Last, UpstreamBlock,
         CurrentSlot
<1>8. QED
  BY <1>1, <1>2, <1>3, <1>4, <1>5, <1>6, <1>7 DEF ForkInv, Sound

LEMMA AskKeeps ==
  ASSUME ForkInv, MayAsk, NEW r \in Requests, r.op # "abandoned",
         RequestSound(r), Ask(r)
  PROVE  ForkInv'
<1>1. UNCHANGED <<upstream, node, parted>> /\ request' = r /\ answer' = NoAnswer
  BY DEF Ask
<1>2. fork_block_number # Unpinned
  BY DEF MayAsk
<1>3. QED
  BY <1>1, <1>2, SameNode

LEMMA TagNumber ==
  ASSUME Sound, fork_block_number # Unpinned, NEW tag \in Tags
  PROVE  EffectiveBlockNumber(tag) \in 0..Height
  BY Numbers DEF Sound, Tags, EffectiveBlockNumber, Latest
-----------------------------------------------------------------------------
(* Questions.                                                               *)

LEMMA GetAccountKeeps == ASSUME ForkInv, MayAsk, GetAccount PROVE ForkInv'
<1>1. Sound /\ fork_block_number # Unpinned
  BY DEF ForkInv, MayAsk
<1>2. PICK a \in Accounts, tag \in Tags, parts \in {Parts, {Code}} :
        LET n == EffectiveBlockNumber(tag)
        IN  Ask([op |-> "account", account |-> a, number |-> n, parts |-> parts,
                 got |-> HeldParts(a, n, parts)])
  BY DEF GetAccount
<1> DEFINE n == EffectiveBlockNumber(tag)
           r == [op |-> "account", account |-> a, number |-> n, parts |-> parts,
                 got |-> HeldParts(a, n, parts)]
<1>3. n \in 0..Height /\ n \in Nat
  BY <1>1, TagNumber, Numbers DEF Sound
<1>4. parts \in SUBSET Parts /\ Slot \notin parts
  BY PartsAssumption
<1>5. /\ HeldParts(a, n, parts) \in Got(parts)
      /\ Right(a, n) => \A p \in parts :
           (IF p \in DOMAIN HeldParts(a, n, parts) THEN HeldParts(a, n, parts)[p]
            ELSE UpstreamBlock(SafeFallbackBlockNumber(n)).accounts[a][p])
             = AccountsAt(n)[a][p]
  BY <1>1, <1>3, <1>4, HeldTruth
<1>6. DOMAIN HeldParts(a, n, parts) \subseteq parts /\ HeldParts(a, n, parts) \in Got(Parts)
  BY <1>4, <1>5, GotType
<1> HIDE DEF n
<1>7. r \in Requests
  BY <1>3, <1>6 DEF Requests
<1>8. GotTruth(r)
  BY <1>4, <1>5, <1>6 DEF GotTruth, Certain, Truth, Fetched
<1>9. RequestSound(r)
  BY <1>3, <1>8 DEF RequestSound
<1>10. Ask(r) /\ r.op # "abandoned"
  BY <1>2 DEF n
<1>11. QED
  BY <1>7, <1>9, <1>10, AskKeeps

LEMMA GetStorageKeeps == ASSUME ForkInv, MayAsk, GetStorage PROVE ForkInv'
<1>1. Sound /\ fork_block_number # Unpinned
  BY DEF ForkInv, MayAsk
<1>2. PICK padded \in BOOLEAN :
        Ask([op |-> "storage", parts |-> {Slot}, padded |-> padded,
             got |-> IF padded THEN HeldSlot ELSE <<>>])
  BY DEF GetStorage
<1> DEFINE got == IF padded THEN HeldSlot ELSE <<>>
           r == [op |-> "storage", parts |-> {Slot}, padded |-> padded, got |-> got]
<1>3. got \in Got({Slot})
  BY <1>1, HeldSlotTruth, NothingHeld
<1>4. DOMAIN got \subseteq {Slot}
  BY <1>3, GotType
<1>5. padded => (IF Slot \in DOMAIN got THEN got[Slot]
                 ELSE UpstreamBlock(fork_block_number).slot) = CurrentSlot
  BY <1>1, HeldSlotTruth
<1>6. Ask(r)
  BY <1>2
<1> HIDE DEF got
<1>7. r \in Requests
  BY <1>3 DEF Requests
<1>8. GotTruth(r)
  BY <1>4, <1>5 DEF GotTruth, Certain, Truth, Fetched
<1>9. RequestSound(r) /\ r.op # "abandoned"
  BY <1>8 DEF RequestSound
<1>10. QED
  BY <1>6, <1>7, <1>9, AskKeeps

LEMMA ExecuteKeeps ==
  ASSUME ForkInv, MayAsk, NEW op \in {"transact", "call"}, NEW tx \in OwnTxs \cup CallTxs,
         Execute(op, tx)
  PROVE  ForkInv'
<1>1. Sound /\ fork_block_number # Unpinned
  BY DEF ForkInv, MayAsk
<1>2. tx.account \in Accounts /\ tx.effect \in Effects
  BY TxsAssumption
<1> DEFINE slot == IF tx.effect \in Storing THEN HeldSlot ELSE <<>>
           held == HeldParts(tx.account, Height, Parts)
           known == DOMAIN slot \cup DOMAIN held
           got == [p \in known |-> IF p = Slot THEN slot[p] ELSE held[p]]
           parts == Parts \cup (IF tx.effect \in Storing THEN {Slot} ELSE {})
           r == [op |-> op, account |-> tx.account, number |-> Height,
                 effect |-> tx.effect, parts |-> parts, got |-> got]
<1>3. Height \in 0..Height /\ Height \in Nat
  BY <1>1, Numbers DEF Sound
<1>4. /\ held \in Got(Parts)
      /\ Right(tx.account, Height) => \A p \in Parts :
           (IF p \in DOMAIN held THEN held[p]
            ELSE UpstreamBlock(SafeFallbackBlockNumber(Height)).accounts[tx.account][p])
             = AccountsAt(Height)[tx.account][p]
  BY <1>1, <1>2, <1>3, HeldTruth
<1>5. DOMAIN held \subseteq Parts /\ held \in [DOMAIN held -> Nat]
  BY <1>4, GotType
<1>6. slot \in Got({Slot}) /\ (tx.effect \notin Storing => DOMAIN slot = {})
  BY <1>1, <1>2, HeldSlotTruth, NothingHeld
<1>7. DOMAIN slot \subseteq {Slot} /\ slot \in [DOMAIN slot -> Nat]
  BY <1>6, GotType
<1>8. tx.effect \in Storing =>
        (IF Slot \in DOMAIN slot THEN slot[Slot]
         ELSE UpstreamBlock(fork_block_number).slot) = CurrentSlot
  BY <1>1, HeldSlotTruth
<1>9. Ask(r)
  BY DEF Execute
<1>10. Slot \notin Parts
  BY PartsAssumption
<1> HIDE DEF slot, held
<1>11. known \subseteq parts /\ got \in [known -> Nat] /\ DOMAIN got = known
  BY <1>2, <1>5, <1>6, <1>7, <1>10
<1>12. got \in Got(Parts \cup {Slot})
  BY <1>11, GotType
<1>13. parts \in {Parts, Parts \cup {Slot}}
  OBVIOUS
<1>14. ASSUME NEW p \in parts, Certain(r, p)
       PROVE  (IF p \in DOMAIN got THEN got[p] ELSE Fetched(r, p)) = Truth(r, p)
  <2>1. CASE p = Slot
    <3>1. tx.effect \in Storing
      BY <2>1, <1>10
    <3>2. (p \in DOMAIN got <=> Slot \in DOMAIN slot) /\ (p \in DOMAIN got => got[p] = slot[Slot])
      BY <2>1, <1>5, <1>10
    <3>3. QED
      BY <2>1, <3>1, <3>2, <1>8 DEF Truth, Fetched
  <2>2. CASE p # Slot
    <3>1. p \in Parts
      BY <2>2
    <3>2. (p \in DOMAIN got <=> p \in DOMAIN held) /\ (p \in DOMAIN got => got[p] = held[p])
      BY <2>2, <1>7
    <3>3. Right(tx.account, Height)
      BY <1>14, <2>2 DEF Certain
    <3>4. QED
      BY <2>2, <3>1, <3>2, <3>3, <1>4 DEF Truth, Fetched
  <2>3. QED
    BY <2>1, <2>2
<1>15. GotTruth(r)
  BY <1>11, <1>14 DEF GotTruth
<1> HIDE DEF got, parts, known
<1>16. r \in Requests
  BY <1>2, <1>3, <1>12, <1>13 DEF Requests
<1>17. RequestSound(r) /\ r.op # "abandoned"
  BY <1>15 DEF RequestSound, parts
<1>18. QED
  BY <1>9, <1>16, <1>17, AskKeeps

LEMMA BlockQuestionKeeps ==
  ASSUME ForkInv, MayAsk, GetBlock \/ GetBlockByHash \/ GetReceipt \/ GetLogs
  PROVE  ForkInv'
<1>1. Sound /\ fork_block_number # Unpinned
  BY DEF ForkInv, MayAsk
<1>2. \A tag \in Tags : EffectiveBlockNumber(tag) \in 0..Height
                          /\ EffectiveBlockNumber(tag) \in Nat
  BY <1>1, TagNumber, Numbers DEF Sound
<1>3. CASE GetBlock
  <2>1. PICK tag \in Tags : Ask([op |-> "block", number |-> EffectiveBlockNumber(tag)])
    BY <1>3 DEF GetBlock
  <2> DEFINE r == [op |-> "block", number |-> EffectiveBlockNumber(tag)]
  <2>2. r \in Requests /\ RequestSound(r) /\ r.op # "abandoned"
    BY <1>2 DEF Requests, RequestSound, Fetching
  <2>3. QED
    BY <2>1, <2>2, AskKeeps
<1>4. Hashes \subseteq Hash
  <2>1. \A i \in DOMAIN upstream : upstream[i].hash \in Hash
    <3> SUFFICES ASSUME NEW i \in DOMAIN upstream PROVE upstream[i].hash \in Hash
      OBVIOUS
    <3>1. upstream[i] \in UpstreamBlocks
      BY <1>1 DEF Sound, TypeOK
    <3>2. QED
      BY <3>1 DEF UpstreamBlocks
  <2>2. \A i \in 0..mined - 1 : OwnHash(i) \in Hash
    BY <1>1 DEF OwnHash, Hash, Sound, TypeOK
  <2>3. UnknownHash \in Hash
    BY DEF UnknownHash, Hash
  <2>4. QED
    BY <2>1, <2>2, <2>3 DEF Hashes
<1>5. CASE GetBlockByHash \/ GetReceipt
  <2>1. PICK hash \in Hashes, op \in {"hash", "receipt"} : Ask([op |-> op, hash |-> hash])
    BY <1>5 DEF GetBlockByHash, GetReceipt
  <2> DEFINE r == [op |-> op, hash |-> hash]
  <2>2. r \in Requests /\ RequestSound(r) /\ r.op # "abandoned"
    BY <1>4 DEF Requests, RequestSound, Fetching
  <2>3. QED
    BY <2>1, <2>2, AskKeeps
<1>6. CASE GetLogs
  <2>1. PICK from \in Tags, to \in Tags :
          /\ EffectiveBlockNumber(from) <= EffectiveBlockNumber(to)
          /\ Ask([op |-> "logs", number |-> EffectiveBlockNumber(from),
                  to |-> EffectiveBlockNumber(to), logs |-> <<>>])
    BY <1>6 DEF GetLogs
  <2> DEFINE m == EffectiveBlockNumber(from)
             n == EffectiveBlockNumber(to)
             r == [op |-> "logs", number |-> m, to |-> n, logs |-> <<>>]
  <2>2. m \in 0..Height /\ n \in 0..Height /\ m \in Nat /\ n \in Nat /\ m <= n /\ Ask(r)
    BY <1>2, <2>1
  <2> HIDE DEF m, n
  <2>3. r \in Requests /\ r.op # "abandoned"
    BY <2>2 DEF Requests
  <2>4. Len(r.logs) = 0
    OBVIOUS
  <2>5. LogsTruth(r)
    BY <2>2, <2>4 DEF LogsTruth
  <2>6. RequestSound(r)
    BY <2>5 DEF RequestSound, Fetching
  <2>7. QED
    BY <2>2, <2>3, <2>6, AskKeeps
<1>7. QED
  BY <1>3, <1>5, <1>6

LEMMA WordKeeps ==
  ASSUME ForkInv, MayAsk, GetEarliestBlock \/ NameABlockByAWord
  PROVE  ForkInv'
<1>1. PICK word \in {Earliest, UnknownTag} : Ask(Abandoned(word))
  BY DEF GetEarliestBlock, NameABlockByAWord
<1> DEFINE r == Abandoned(word)
<1>2. request' = r /\ answer' = NoAnswer /\ UNCHANGED <<upstream, node, parted>>
  BY <1>1 DEF Ask
<1>3. /\ r \in Requests /\ RequestSound(r) /\ r.op = "abandoned"
      /\ r.of \in {Earliest, UnknownTag, UnknownHash}
  BY DEF Abandoned, Requests, RequestSound, Fetching
<1>4. fork_block_number # Unpinned
  BY DEF MayAsk
<1>5. QED
  BY <1>2, <1>3, <1>4, SameNode
-----------------------------------------------------------------------------
(* Service.                                                                 *)

\* A question is only served when there is a chain.
LEMMA Serving ==
  ASSUME ForkInv, request # Idle
  PROVE  /\ Sound /\ fork_block_number # Unpinned /\ answer = NoAnswer
         /\ RequestSound(request) /\ request \in Requests
  BY DEF ForkInv, Sound, NothingBefore, AskedInTurn, TypeOK

LEMMA SlotType ==
  ASSUME Sound, fork_block_number # Unpinned
  PROVE  CurrentSlot \in Nat /\ UpstreamBlock(fork_block_number).slot \in Nat
<1>1. storageTrie \in Nat \cup {Absent} /\ UpstreamBlock(fork_block_number).slot \in Nat
  BY Numbers DEF Sound, TypeOK, UpstreamBlocks
<1>2. QED
  BY <1>1 DEF CurrentSlot

LEMMA FetchedType ==
  ASSUME Sound, fork_block_number # Unpinned, NEW r, NEW p,
         p # Slot => r.number \in 0..Height /\ r.account \in Accounts /\ p \in Parts
  PROVE  Fetched(r, p) \in Nat
<1>1. CASE p = Slot
  BY <1>1, SlotType DEF Fetched
<1>2. CASE p # Slot
  <2> DEFINE n == SafeFallbackBlockNumber(r.number)
  <2>1. /\ fork_block_number \in Nat /\ fork_block_number <= UpstreamHeight
        /\ Height \in Nat /\ Height = fork_block_number + Len(blocks)
        /\ upstream \in Seq(UpstreamBlocks)
    BY Numbers DEF Sound, TypeOK
  <2>2. n \in 0..fork_block_number
    BY <1>2, <2>1 DEF SafeFallbackBlockNumber
  <2> HIDE DEF n
  <2>3. n + 1 \in 1..Len(upstream)
    BY <2>1, <2>2 DEF UpstreamHeight
  <2>4. UpstreamBlock(n) \in UpstreamBlocks
    BY <2>1, <2>3 DEF UpstreamBlock
  <2>5. UpstreamBlock(n).accounts[r.account] \in [Parts -> Nat]
    BY <1>2, <2>4 DEF UpstreamBlocks, Value
  <2>6. QED
    BY <1>2, <2>5 DEF Fetched, n
<1>3. QED
  BY <1>1, <1>2

\* The records of the requests whose parts are fetched.
LEMMA FetchingTypes ==
  ASSUME request \in Requests, request.op \in Fetching, RequestSound(request)
  PROVE  /\ request.op \in {"account", "transact", "call"} =>
              request.account \in Accounts /\ request.number \in Nat
         /\ request.op = "account" =>
              /\ request.parts \in {Parts, {Code}}
              /\ request = [op |-> "account", account |-> request.account,
                            number |-> request.number, parts |-> request.parts,
                            got |-> request.got]
         /\ request.op = "storage" =>
              /\ request.parts = {Slot}
              /\ request.padded \in BOOLEAN
              /\ request = [op |-> "storage", parts |-> {Slot},
                            padded |-> request.padded, got |-> request.got]
         /\ request.op \in {"transact", "call"} =>
              /\ request.effect \in Effects
              /\ request.parts \in {Parts, Parts \cup {Slot}}
              /\ request = [op |-> request.op, account |-> request.account,
                            number |-> request.number, effect |-> request.effect,
                            parts |-> request.parts, got |-> request.got]
         /\ request.got \in [DOMAIN request.got -> Nat]
         /\ DOMAIN request.got \subseteq request.parts
<1>1. DOMAIN request.got \subseteq request.parts
  BY DEF RequestSound, GotTruth
<1>2. CASE request.op = "account"
  <2>1. request \in [op : {"account"}, account : Accounts, number : Nat,
                     parts : {Parts, {Code}}, got : Got(Parts)]
    BY <1>2 DEF Requests, Idle
  <2>2. request.got \in [DOMAIN request.got -> Nat]
    BY <2>1, GotType
  <2>3. QED
    BY <1>1, <1>2, <2>1, <2>2
<1>3. CASE request.op = "storage"
  <2>1. request \in [op : {"storage"}, parts : {{Slot}}, padded : BOOLEAN,
                     got : Got({Slot})]
    BY <1>3 DEF Requests, Idle
  <2>2. request.got \in [DOMAIN request.got -> Nat]
    BY <2>1, GotType
  <2>3. QED
    BY <1>1, <1>3, <2>1, <2>2
<1>4. CASE request.op \in {"transact", "call"}
  <2>1. request \in [op : {"transact", "call"}, account : Accounts, number : Nat,
                     effect : Effects, parts : {Parts, Parts \cup {Slot}},
                     got : Got(Parts \cup {Slot})]
    BY <1>4 DEF Requests, Idle
  <2>2. request.got \in [DOMAIN request.got -> Nat]
    BY <2>1, GotType
  <2>3. QED
    BY <1>1, <1>4, <2>1, <2>2
<1>5. QED
  BY <1>2, <1>3, <1>4 DEF Fetching

\* What is fetched for the request served, whatever it has got of it.
LEMMA PartType ==
  ASSUME ForkInv, request.op \in Fetching, NEW p \in request.parts
  PROVE  Fetched(request, p) \in Nat
<1>1. request # Idle
  BY DEF Idle, Fetching
<1>2. /\ Sound /\ fork_block_number # Unpinned /\ RequestSound(request)
      /\ request \in Requests
  BY <1>1, Serving
<1>3. Height \in 0..Height
  BY <1>2, Numbers DEF Sound
<1>4. ASSUME p # Slot
      PROVE  request.number \in 0..Height /\ request.account \in Accounts /\ p \in Parts
  <2>1. request.op # "storage"
    BY <1>2, <1>4, FetchingTypes
  <2>2. request.op \in {"account", "transact", "call"}
    BY <2>1 DEF Fetching
  <2>3. request.number \in 0..Height
    BY <1>2, <1>3, <2>2 DEF RequestSound
  <2>4. request.account \in Accounts /\ request.parts \subseteq Parts \cup {Slot}
    BY <1>2, <2>2, FetchingTypes, PartsAssumption DEF Fetching
  <2>5. QED
    BY <1>4, <2>3, <2>4
<1>5. QED
  BY <1>2, <1>4, FetchedType

LEMMA FetchKeeps == ASSUME ForkInv, FetchPart PROVE ForkInv'
<1>1. request.op \in Fetching /\ request # Idle
  BY DEF FetchPart, Idle, Fetching
<1>2. /\ Sound /\ fork_block_number # Unpinned /\ answer = NoAnswer
      /\ RequestSound(request) /\ request \in Requests
  BY <1>1, Serving
<1>3. PICK p \in request.parts \ DOMAIN request.got :
        request' = [request EXCEPT !.got =
          [q \in DOMAIN @ \cup {p} |-> IF q = p THEN Fetched(request, p) ELSE @[q]]]
  BY DEF FetchPart, Fetched
<1> DEFINE got == [q \in DOMAIN request.got \cup {p} |->
                     IF q = p THEN Fetched(request, p) ELSE request.got[q]]
<1>4. /\ Fetched(request, p) \in Nat
      /\ Certain(request, p) => Fetched(request, p) = Truth(request, p)
  BY <1>1, <1>2, PartType DEF RequestSound, GotTruth
<1>5. DOMAIN got = DOMAIN request.got \cup {p} /\ got \in [DOMAIN got -> Nat]
  BY <1>1, <1>2, <1>4, FetchingTypes
<1>6. DOMAIN got \subseteq request.parts
  BY <1>1, <1>2, <1>5, FetchingTypes
<1>7. \A parts : request.parts \subseteq parts => got \in Got(parts)
  BY <1>5, <1>6, GotType
<1>8. \A q \in DOMAIN got : got[q] = IF q = p THEN Fetched(request, p) ELSE request.got[q]
  OBVIOUS
<1>9. request' = [request EXCEPT !.got = got]
  BY <1>3
<1> HIDE DEF got
<1>10. /\ request' \in Requests /\ request'.op = request.op
       /\ request'.got = got /\ request'.parts = request.parts
       /\ request.op # "storage" =>
            request'.number = request.number /\ request'.account = request.account
       /\ request.op = "storage" => request'.padded = request.padded
       /\ request.op \in {"transact", "call"} => request'.effect = request.effect
  <2>1. CASE request.op = "account"
    <3>1. /\ request.account \in Accounts /\ request.number \in Nat
          /\ request.parts \in {Parts, {Code}} /\ request.parts \subseteq Parts
          /\ request = [op |-> "account", account |-> request.account,
                        number |-> request.number, parts |-> request.parts,
                        got |-> request.got]
      BY <1>1, <1>2, <2>1, FetchingTypes, PartsAssumption
    <3>2. request' = [op |-> "account", account |-> request.account,
                      number |-> request.number, parts |-> request.parts, got |-> got]
      BY <1>9, <3>1
    <3>3. got \in Got(Parts)
      BY <1>7, <3>1
    <3>4. QED
      BY <2>1, <3>1, <3>2, <3>3 DEF Requests
  <2>2. CASE request.op = "storage"
    <3>1. /\ request.parts = {Slot} /\ request.padded \in BOOLEAN
          /\ request = [op |-> "storage", parts |-> {Slot}, padded |-> request.padded,
                        got |-> request.got]
      BY <1>1, <1>2, <2>2, FetchingTypes
    <3>2. request' = [op |-> "storage", parts |-> {Slot}, padded |-> request.padded,
                      got |-> got]
      BY <1>9, <3>1
    <3>3. got \in Got({Slot})
      BY <1>7, <3>1
    <3>4. QED
      BY <2>2, <3>1, <3>2, <3>3 DEF Requests
  <2>3. CASE request.op \in {"transact", "call"}
    <3>1. /\ request.account \in Accounts /\ request.number \in Nat
          /\ request.effect \in Effects /\ request.parts \in {Parts, Parts \cup {Slot}}
          /\ request = [op |-> request.op, account |-> request.account,
                        number |-> request.number, effect |-> request.effect,
                        parts |-> request.parts, got |-> request.got]
      BY <1>1, <1>2, <2>3, FetchingTypes
    <3>2. request' = [op |-> request.op, account |-> request.account,
                      number |-> request.number, effect |-> request.effect,
                      parts |-> request.parts, got |-> got]
      BY <1>9, <3>1
    <3>3. got \in Got(Parts \cup {Slot})
      BY <1>7, <3>1
    <3>4. QED
      BY <2>3, <3>1, <3>2, <3>3 DEF Requests
  <2>4. QED
    BY <1>1, <2>1, <2>2, <2>3 DEF Fetching
<1>11. ASSUME NEW q \in request.parts
       PROVE /\ Fetched(request', q) = Fetched(request, q)
             /\ Truth(request', q) = Truth(request, q)
             /\ Certain(request', q) => Certain(request, q)
  <2>1. CASE request.op # "storage"
    BY <1>10, <2>1 DEF Truth, Fetched, Certain
  <2>2. CASE request.op = "storage"
    <3>1. q = Slot
      BY <1>1, <1>2, <2>2, FetchingTypes
    <3>2. QED
      BY <1>10, <2>2, <3>1 DEF Truth, Fetched, Certain
  <2>3. QED
    BY <2>1, <2>2
<1>12. GotTruth(request')
  <2>1. GotTruth(request)
    BY <1>1, <1>2 DEF RequestSound
  <2>2. \A q \in request.parts : Certain(request, q) =>
          (IF q \in DOMAIN got THEN got[q] ELSE Fetched(request, q)) = Truth(request, q)
    BY <1>4, <1>5, <1>8, <2>1 DEF GotTruth
  <2>3. QED
    BY <1>6, <1>10, <1>11, <2>2 DEF GotTruth
<1>13. RequestSound(request')
  BY <1>1, <1>2, <1>10, <1>12 DEF RequestSound, Fetching
<1>14. QED
  <2>1. UNCHANGED <<upstream, node, answer, parted>>
    BY DEF FetchPart
  <2>2. request'.op # "abandoned"
    BY <1>1, <1>10 DEF Fetching
  <2>3. QED
    BY <1>2, <1>10, <1>13, <2>1, <2>2, SameNode

\* What is fetched whole is the truth.
LEMMA AllTruth ==
  ASSUME ForkInv, request.op \in Fetching, AllFetched
  PROVE  /\ DOMAIN request.got = request.parts
         /\ \A p \in request.parts :
              Certain(request, p) => request.got[p] = Truth(request, p)
<1>1. request # Idle
  BY DEF Idle, Fetching
<1>2. GotTruth(request)
  BY <1>1, Serving DEF RequestSound
<1>3. QED
  BY <1>2 DEF GotTruth, AllFetched

\* The request ends, and what is told is of its type.
LEMMA TellKeeps ==
  ASSUME ForkInv, request # Idle, request' = Idle, answer' \in Answers \cup {NoAnswer},
         UNCHANGED <<upstream, node, parted>>,
         answer' # NoAnswer /\ answer'.op = "storage" /\ answer'.padded =>
           answer'.value = CurrentSlot
  PROVE  ForkInv'
<1>1. Idle \in Requests /\ RequestSound(Idle) /\ Idle.op # "abandoned"
  BY DEF Requests, RequestSound, Idle, Fetching
<1>2. QED
  BY <1>1, Serving, SameNode

LEMMA EndReadTold ==
  ASSUME ForkInv, EndRead
  PROVE  /\ request # Idle /\ request' = Idle /\ UNCHANGED <<upstream, node, parted>>
         /\ answer' \in Answers
         /\ answer'.op = "storage" /\ answer'.padded => answer'.value = CurrentSlot
         /\ answer'.op \in {"account", "storage"}
         /\ answer'.op = "account" =>
              /\ answer'.number \in 0..Height /\ answer'.account \in Accounts
              /\ DOMAIN answer'.value \subseteq Parts
              /\ Right(answer'.account, answer'.number) => \A p \in DOMAIN answer'.value :
                   answer'.value[p] = AccountsAt(answer'.number)[answer'.account][p]
<1>1. request # Idle /\ request.op \in Fetching /\ AllFetched
  BY DEF EndRead, Idle, Fetching
<1>2. Sound /\ fork_block_number # Unpinned /\ RequestSound(request) /\ request \in Requests
  BY <1>1, Serving
<1>3. /\ DOMAIN request.got = request.parts
      /\ \A p \in request.parts :
           Certain(request, p) => request.got[p] = Truth(request, p)
  BY <1>1, AllTruth
<1>4. request.got \in [request.parts -> Nat]
  BY <1>1, <1>2, <1>3, FetchingTypes
<1>5. CASE request.op = "account"
  <2>1. answer' = [op |-> "account", account |-> request.account,
                   number |-> request.number, value |-> request.got]
    BY <1>5 DEF EndRead, Tell
  <2>2. /\ request.account \in Accounts /\ request.number \in Nat
        /\ request.parts \in {Parts, {Code}}
    BY <1>1, <1>2, <1>5, FetchingTypes
  <2>3. answer' \in Answers
    BY <1>4, <2>1, <2>2 DEF Answers
  <2>4. request.number \in 0..Height
    BY <1>2, <1>5 DEF RequestSound
  <2>5. request.parts \subseteq Parts /\ Slot \notin request.parts
    BY <2>2, PartsAssumption
  <2>6. Right(request.account, request.number) => \A p \in request.parts :
          request.got[p] = AccountsAt(request.number)[request.account][p]
    BY <1>3, <2>5 DEF Truth, Certain
  <2>7. QED
    BY <1>1, <1>3, <2>1, <2>2, <2>3, <2>4, <2>5, <2>6 DEF EndRead, Tell
<1>6. CASE request.op = "storage"
  <2>1. answer' = [op |-> "storage", padded |-> request.padded,
                   value |-> request.got[Slot]]
    BY <1>6 DEF EndRead, Tell
  <2>2. request.parts = {Slot} /\ request.padded \in BOOLEAN
    BY <1>1, <1>2, <1>6, FetchingTypes
  <2>3. request.padded => request.got[Slot] = CurrentSlot
    BY <1>3, <2>2 DEF Truth, Certain
  <2>4. answer' \in Answers
    BY <1>4, <2>1, <2>2 DEF Answers
  <2>5. QED
    BY <1>1, <2>1, <2>3, <2>4 DEF EndRead, Tell
<1>7. QED
  BY <1>5, <1>6 DEF EndRead

LEMMA EndBlockTold ==
  ASSUME ForkInv, EndGetBlock
  PROVE  /\ request # Idle /\ request' = Idle /\ UNCHANGED <<upstream, node, parted>>
         /\ answer' \in Answers /\ answer'.op = "block"
         /\ answer'.number \in 0..Height
         /\ answer'.value = HashAt(answer'.number)
<1>1. request # Idle /\ request.op = "block"
  BY DEF EndGetBlock, Idle
<1>2. Sound /\ fork_block_number # Unpinned /\ RequestSound(request) /\ request \in Requests
  BY <1>1, Serving
<1> DEFINE n == request.number
<1>3. answer' = [op |-> "block", number |-> n, value |-> HashAt(n)]
  BY DEF EndGetBlock, Tell, HashAt
<1>4. n \in 0..Height /\ n \in Nat
  BY <1>1, <1>2, Numbers DEF RequestSound, Sound
<1>5. HashAt(n) \in Hash
  BY <1>2, <1>4, ChainTypes DEF Sound
<1>6. answer' \in Answers
  BY <1>3, <1>4, <1>5 DEF Answers
<1>7. QED
  BY <1>1, <1>3, <1>4, <1>6 DEF EndGetBlock, Tell

LEMMA EndReadKeeps == ASSUME ForkInv, EndRead PROVE ForkInv'
  BY EndReadTold, TellKeeps

LEMMA EndBlockKeeps == ASSUME ForkInv, EndGetBlock PROVE ForkInv'
  BY EndBlockTold, TellKeeps

LEMMA HashRequest ==
  ASSUME ForkInv, request.op \in {"hash", "receipt"}
  PROVE  /\ request # Idle /\ Sound /\ fork_block_number # Unpinned /\ answer = NoAnswer
         /\ request.hash \in Hashes /\ request.hash \in Hash
<1>1. request # Idle
  BY DEF Idle
<1>2. RequestSound(request) /\ request \in Requests
  BY <1>1, Serving
<1>3. request.hash \in Hash
  BY <1>2 DEF Requests, Idle
<1>4. QED
  BY <1>1, <1>2, <1>3, Serving DEF RequestSound

LEMMA EndHashKeeps == ASSUME ForkInv, EndGetBlockByHash PROVE ForkInv'
<1>1. request.op = "hash"
  BY DEF EndGetBlockByHash
<1>2. /\ request # Idle /\ Sound /\ fork_block_number # Unpinned /\ answer = NoAnswer
      /\ request.hash \in Hashes /\ request.hash \in Hash
  BY <1>1, HashRequest
<1>3. UNCHANGED <<upstream, node, parted>>
  BY DEF EndGetBlockByHash
<1>4. CASE OwnIndexOfHash(request.hash) \cup UpstreamIndexOfHash(request.hash) # {}
  <2>1. /\ request' = Idle
        /\ answer' = [op |-> "hash", hash |-> request.hash, value |-> request.hash]
    BY <1>4 DEF EndGetBlockByHash, Tell
  <2>2. answer' \in Answers /\ answer'.op # "storage"
    BY <1>2, <2>1 DEF Answers
  <2>3. QED
    BY <1>2, <1>3, <2>1, <2>2, TellKeeps
<1>5. CASE OwnIndexOfHash(request.hash) \cup UpstreamIndexOfHash(request.hash) = {}
  <2>1. request' = Abandoned(request.hash) /\ answer' = NoAnswer
    BY <1>2, <1>5 DEF EndGetBlockByHash
  <2>2. request' \in Requests /\ RequestSound(request')
    BY <1>2, <2>1 DEF Requests, RequestSound, Abandoned, Fetching
  <2>3. \A k \in DOMAIN blocks : blocks[k].hash # request.hash
    BY <1>5 DEF OwnIndexOfHash
  <2>4. \A k \in DOMAIN upstream : upstream[k].hash # request.hash
    BY <1>5 DEF UpstreamIndexOfHash
  <2>5. request.hash = UnknownHash \/ \E i \in 0..mined - 1 : request.hash = OwnHash(i)
    BY <1>2, <2>4 DEF Hashes
  <2>6. request'.of = request.hash
    BY <2>1 DEF Abandoned
  <2>7. \/ request'.of = UnknownHash
        \/ \E i \in 0..mined - 1 : /\ request'.of = OwnHash(i)
                                   /\ \A k \in DOMAIN blocks : blocks[k].hash # OwnHash(i)
    BY <2>3, <2>5, <2>6
  <2>8. QED
    BY <1>2, <1>3, <2>1, <2>2, <2>7, SameNode
<1>6. QED
  BY <1>4, <1>5

\* An own block, by its place.
LEMMA OwnNumber ==
  ASSUME Sound, fork_block_number # Unpinned, NEW i \in DOMAIN blocks
  PROVE  /\ fork_block_number + i \in 0..Height
         /\ HashAt(fork_block_number + i) = blocks[i].hash
         /\ TxsAt(fork_block_number + i) = blocks[i].txs
         /\ AccountsAt(fork_block_number + i) = OwnState(i)
<1> DEFINE n == fork_block_number + i
<1>1. TypeOK /\ UpstreamSound /\ OwnSound
  BY DEF Sound
<1>2. i \in 1..Len(blocks)
  BY <1>1 DEF TypeOK
<1>3. n \in 0..Height /\ n > fork_block_number /\ n - fork_block_number = i
  BY <1>1, <1>2, Numbers
<1>4. ~IsFallbackBlock(n) /\ RelativeBlockNumber(n) + 1 = i /\ OwnBlock(n) = blocks[i]
  BY <1>1, <1>3, OwnBlockAt
<1>5. QED
  BY <1>3, <1>4 DEF HashAt, TxsAt, AccountsAt

\* A transaction the other node has is that of a block of its own number.
LEMMA UpstreamTx ==
  ASSUME Sound, NEW tx, NEW i \in UpstreamIndexOfTx(tx)
  PROVE  i \in 2..Len(upstream) /\ tx = UpstreamHash(i - 1)
<1>1. PICK j \in DOMAIN upstream[i].txs : upstream[i].txs[j] = tx
  BY DEF UpstreamIndexOfTx
<1>2. i \in 1..Len(upstream)
  BY DEF UpstreamIndexOfTx, Sound, TypeOK
<1>3. upstream[i].txs = IF i = 1 THEN <<>> ELSE <<UpstreamHash(i - 1)>>
  BY <1>2 DEF Sound, UpstreamSound, TypeOK
<1>4. i # 1
  BY <1>1, <1>3, NothingHeld
<1>5. j = 1 /\ upstream[i].txs[1] = UpstreamHash(i - 1)
  BY <1>1, <1>3, <1>4
<1>6. QED
  BY <1>1, <1>2, <1>4, <1>5

LEMMA EndReceiptTold ==
  ASSUME ForkInv, EndGetReceipt
  PROVE  /\ request # Idle /\ request' = Idle /\ UNCHANGED <<upstream, node, parted>>
         /\ \/ answer' = NoAnswer
            \/ /\ answer' \in Answers /\ answer'.op = "receipt"
               /\ ~AfterTheFork(answer'.hash) =>
                    \/ \E n \in 0..Height :
                         /\ answer'.value = HashAt(n)
                         /\ \E i \in DOMAIN TxsAt(n) : TxsAt(n)[i] = answer'.hash
                    \/ /\ answer'.value = NoBlock
                       /\ \A n \in 0..Height : \A i \in DOMAIN TxsAt(n) :
                            TxsAt(n)[i] # answer'.hash
<1>1. request.op = "receipt"
  BY DEF EndGetReceipt
<1>2. /\ request # Idle /\ Sound /\ fork_block_number # Unpinned /\ answer = NoAnswer
      /\ request.hash \in Hash
  BY <1>1, HashRequest
<1> DEFINE tx == request.hash
<1>3. request' = Idle /\ UNCHANGED <<upstream, node, parted>>
  BY DEF EndGetReceipt, Tell
<1>4. CASE OutOfRange(tx)
  BY <1>2, <1>3, <1>4 DEF EndGetReceipt
<1>5. CASE ~OutOfRange(tx)
  <2>1. answer' = [op |-> "receipt", hash |-> tx, value |-> ReceiptBlock(tx)]
    BY <1>5 DEF EndGetReceipt, Tell
  <2>2. ASSUME ReceiptBlock(tx) \in Hash \cup {NoBlock}
        PROVE  answer' \in Answers
    BY <1>2, <2>1, <2>2 DEF Answers
  <2>3. fork_block_number \in Nat /\ Height \in Nat /\ Len(upstream) \in Nat
        /\ fork_block_number <= Height
    BY <1>2, Numbers DEF Sound, TypeOK
  <2>4. CASE OwnIndexOfTx(tx) # {}
    <3> DEFINE i == CHOOSE i \in OwnIndexOfTx(tx) : TRUE
    <3>1. i \in OwnIndexOfTx(tx)
      BY <2>4
    <3>2. i \in DOMAIN blocks /\ \E j \in DOMAIN blocks[i].txs : blocks[i].txs[j] = tx
      BY <3>1 DEF OwnIndexOfTx
    <3>3. ReceiptBlock(tx) = blocks[i].hash
      BY <2>4 DEF ReceiptBlock
    <3> HIDE DEF i
    <3>4. /\ fork_block_number + i \in 0..Height
          /\ HashAt(fork_block_number + i) = blocks[i].hash
          /\ TxsAt(fork_block_number + i) = blocks[i].txs
      BY <1>2, <3>2, OwnNumber
    <3>5. blocks[i].hash \in Hash
      BY <1>2, <3>4, ChainTypes DEF Sound
    <3>6. QED
      BY <1>2, <1>3, <2>1, <2>2, <3>2, <3>3, <3>4, <3>5
  <2>5. CASE OwnIndexOfTx(tx) = {} /\ UpstreamIndexOfTx(tx) = {}
    <3>1. ReceiptBlock(tx) = NoBlock
      BY <2>5 DEF ReceiptBlock
    <3>2. ASSUME NEW n \in 0..Height, NEW i \in DOMAIN TxsAt(n) PROVE TxsAt(n)[i] # tx
      <4>1. CASE n <= fork_block_number
        <5>1. TxsAt(n) = upstream[n + 1].txs /\ n + 1 \in DOMAIN upstream
          BY <1>2, <4>1, FallbackBlock DEF Sound, TxsAt, UpstreamBlock
        <5>2. QED
          BY <2>5, <5>1 DEF UpstreamIndexOfTx
      <4>2. CASE n > fork_block_number
        <5>1. /\ TxsAt(n) = blocks[n - fork_block_number].txs
              /\ n - fork_block_number \in DOMAIN blocks
          BY <1>2, <4>2, OwnBlockAt DEF Sound, TxsAt
        <5>2. QED
          BY <2>5, <5>1 DEF OwnIndexOfTx
      <4>3. QED
        BY <2>3, <4>1, <4>2
    <3>3. QED
      BY <1>2, <1>3, <2>1, <2>2, <3>1, <3>2
  <2>6. CASE OwnIndexOfTx(tx) = {} /\ UpstreamIndexOfTx(tx) # {}
    <3> DEFINE n == ReceiptBlockNumber(tx)
    <3>1. PICK i : i \in UpstreamIndexOfTx(tx) /\ n = i - 1
      BY <2>6 DEF ReceiptBlockNumber
    <3>2. i \in 2..Len(upstream) /\ tx = UpstreamHash(i - 1)
      BY <1>2, <3>1, UpstreamTx
    <3>3. ReceiptBlock(tx) = HashAt(n)
      BY <2>6 DEF ReceiptBlock, HashAt
    <3>4. ~(n > Height)
      BY <1>5, <2>6 DEF OutOfRange
    <3> HIDE DEF n
    <3>5. n \in 0..Height
      BY <2>3, <3>1, <3>2, <3>4
    <3>6. HashAt(n) \in Hash
      BY <1>2, <3>5, ChainTypes DEF Sound
    <3>7. ASSUME ~AfterTheFork(tx)
          PROVE  \E j \in DOMAIN TxsAt(n) : TxsAt(n)[j] = tx
      <4>1. ~(n > fork_block_number)
        BY <2>3, <3>1, <3>2, <3>7 DEF AfterTheFork, UpstreamHeight
      <4>2. n <= fork_block_number /\ n # 0
        BY <2>3, <3>1, <3>2, <3>5, <4>1
      <4>3. TxsAt(n) = <<UpstreamHash(n)>>
        BY <1>2, <3>5, <4>2, FallbackBlock DEF Sound, TxsAt
      <4>4. QED
        BY <3>1, <3>2, <4>3
    <3>8. QED
      BY <1>2, <1>3, <2>1, <2>2, <3>3, <3>5, <3>6, <3>7
  <2>7. QED
    BY <2>4, <2>5, <2>6
<1>6. QED
  BY <1>4, <1>5

LEMMA EndReceiptKeeps == ASSUME ForkInv, EndGetReceipt PROVE ForkInv'
<1>1. answer' # NoAnswer => answer'.op # "storage"
  BY EndReceiptTold
<1>2. QED
  BY <1>1, EndReceiptTold, TellKeeps

LEMMA SeqAsFunction ==
  ASSUME NEW S, NEW s \in Seq(S)
  PROVE  s = [i \in 1..Len(s) |-> s[i]]
<1>1. s \in [1..Len(s) -> S]
  OBVIOUS
<1>2. QED
  BY <1>1

LEMMA LogsRequest ==
  ASSUME ForkInv, request.op = "logs"
  PROVE  /\ request # Idle /\ Sound /\ fork_block_number # Unpinned
         /\ LogsTruth(request) /\ request.logs \in Seq(Seq(Hash))
         /\ request.number \in Nat /\ request.to \in Nat
         /\ request = [op |-> "logs", number |-> request.number, to |-> request.to,
                       logs |-> request.logs]
<1>1. request # Idle
  BY DEF Idle
<1>2. RequestSound(request) /\ request \in Requests
  BY <1>1, Serving
<1>3. request \in [op : {"logs"}, number : Nat, to : Nat, logs : Seq(Seq(Hash))]
  BY <1>2 DEF Requests, Idle
<1>4. QED
  BY <1>1, <1>2, <1>3, Serving DEF RequestSound

LEMMA NextLogsKeeps == ASSUME ForkInv, NextLogs PROVE ForkInv'
<1>1. request.op = "logs" /\ Current <= request.to
  BY DEF NextLogs
<1>2. /\ request # Idle /\ Sound /\ fork_block_number # Unpinned
      /\ LogsTruth(request) /\ request.logs \in Seq(Seq(Hash))
      /\ request.number \in Nat /\ request.to \in Nat
      /\ request = [op |-> "logs", number |-> request.number, to |-> request.to,
                    logs |-> request.logs]
  BY <1>1, LogsRequest
<1> DEFINE logs == Append(request.logs, BlockLogs(Current))
           k == Len(request.logs)
<1>3. Height \in Nat /\ k \in Nat
  BY <1>2, Numbers DEF Sound
<1>4. Current \in 0..Height /\ Current = request.number + k
  BY <1>1, <1>2, <1>3 DEF Current, LogsTruth
<1>5. BlockLogs(Current) = TxsAt(Current) /\ TxsAt(Current) \in Seq(Hash)
  BY <1>2, <1>4, ChainTypes DEF Sound
<1>6. logs \in Seq(Seq(Hash)) /\ Len(logs) = k + 1
  BY <1>2, <1>5
<1>7. request' = [op |-> "logs", number |-> request.number, to |-> request.to,
                  logs |-> logs]
  BY <1>2 DEF NextLogs
<1>8. Len(logs) <= request.to - request.number + 1
  BY <1>1, <1>2, <1>3, <1>4, <1>6
<1>9. ASSUME NEW i \in 1..Len(logs) PROVE logs[i] = TxsAt(request.number + i - 1)
  <2>1. CASE i <= k
    <3>1. logs[i] = request.logs[i]
      BY <1>2, <1>3, <2>1
    <3>2. QED
      BY <1>2, <1>3, <2>1, <3>1 DEF LogsTruth
  <2>2. CASE i = k + 1
    <3>1. logs[i] = TxsAt(Current)
      BY <1>2, <1>5, <2>2
    <3>2. request.number + i - 1 = Current
      BY <1>2, <1>3, <1>4, <2>2
    <3>3. QED
      BY <3>1, <3>2
  <2>3. QED
    BY <1>3, <1>6, <2>1, <2>2
<1> HIDE DEF logs
<1>10. LogsTruth(request')
  BY <1>2, <1>7, <1>8, <1>9 DEF LogsTruth
<1>11. request' \in Requests
  BY <1>2, <1>6, <1>7 DEF Requests
<1>12. RequestSound(request') /\ request'.op # "abandoned"
  BY <1>7, <1>10 DEF RequestSound, Fetching
<1>13. answer' = NoAnswer /\ UNCHANGED <<upstream, node, parted>>
  BY <1>2, Serving DEF NextLogs
<1>14. QED
  BY <1>2, <1>11, <1>12, <1>13, SameNode

LEMMA EndLogsTold ==
  ASSUME ForkInv, EndGetLogs
  PROVE  /\ request # Idle /\ request' = Idle /\ UNCHANGED <<upstream, node, parted>>
         /\ answer' \in Answers /\ answer'.op = "logs"
         /\ answer'.number \in 0..Height /\ answer'.to \in 0..Height
         /\ answer'.number <= answer'.to
         /\ answer'.value =
              [i \in 1..answer'.to - answer'.number + 1 |-> TxsAt(answer'.number + i - 1)]
<1>1. request.op = "logs" /\ Current > request.to
  BY DEF EndGetLogs
<1>2. /\ request # Idle /\ Sound /\ fork_block_number # Unpinned
      /\ LogsTruth(request) /\ request.logs \in Seq(Seq(Hash))
      /\ request.number \in Nat /\ request.to \in Nat
  BY <1>1, LogsRequest
<1>3. answer' = [op |-> "logs", number |-> request.number, to |-> request.to,
                 value |-> request.logs]
  BY DEF EndGetLogs, Tell
<1>4. answer' \in Answers
  BY <1>2, <1>3 DEF Answers
<1>5. Len(request.logs) = request.to - request.number + 1
  BY <1>1, <1>2 DEF Current, LogsTruth
<1>6. request.logs = [i \in 1..Len(request.logs) |-> request.logs[i]]
  BY <1>2, SeqAsFunction
<1>7. \A i \in 1..Len(request.logs) : request.logs[i] = TxsAt(request.number + i - 1)
  BY <1>2 DEF LogsTruth
<1>8. request.logs = [i \in 1..request.to - request.number + 1 |->
                        TxsAt(request.number + i - 1)]
  BY <1>5, <1>6, <1>7
<1>9. QED
  BY <1>2, <1>3, <1>4, <1>8 DEF EndGetLogs, Tell, LogsTruth

LEMMA EndLogsKeeps == ASSUME ForkInv, EndGetLogs PROVE ForkInv'
  BY EndLogsTold, TellKeeps

LEMMA FetchFailsKeeps == ASSUME ForkInv, FetchFails PROVE ForkInv'
<1>1. request # Idle
  BY DEF FetchFails, Idle
<1>2. QED
  BY <1>1, Serving, TellKeeps DEF FetchFails

LEMMA LogsRefusedKeeps == ASSUME ForkInv, LogsRefused PROVE ForkInv'
<1> DEFINE r == Abandoned(RefusedLogs)
<1>1. /\ request # Idle /\ request' = r /\ UpstreamFails
      /\ UNCHANGED <<upstream, node, answer, parted>>
  BY DEF LogsRefused, Idle
<1>2. fork_block_number # Unpinned /\ answer = NoAnswer
  BY <1>1, Serving
<1>3. r \in Requests /\ RequestSound(r) /\ r.op = "abandoned" /\ r.of = RefusedLogs
  BY DEF Abandoned, Requests, RequestSound, Fetching
<1>4. QED
  BY <1>1, <1>2, <1>3, SameNode
-----------------------------------------------------------------------------
(* The chain changes.                                                       *)

LEMMA InitKeeps == Init => ForkInv
<1> SUFFICES ASSUME Init PROVE ForkInv
  OBVIOUS
<1> DEFINE genesis == [hash |-> UpstreamHash(0), txs |-> <<>>,
                       accounts |-> [a \in Accounts |-> Fresh], slot |-> 0]
<1>1. genesis \in UpstreamBlocks
  BY DEF UpstreamBlocks, UpstreamHash, Hash, Fresh, Value
<1>2. upstream = <<genesis>>
  BY DEF Init
<1> HIDE DEF genesis
<1>3. upstream \in Seq(UpstreamBlocks) /\ Len(upstream) = 1 /\ upstream[1] = genesis
      /\ upstream # <<>> /\ DOMAIN upstream = {1}
  BY <1>1, <1>2
<1>4. UpstreamSound
  BY <1>3 DEF UpstreamSound, genesis
<1>5. TypeOK
  <2>1. <<>> \in PartialTrie
    <3>1. DOMAIN <<>> = {} /\ <<>> \in [{} -> Value]
      OBVIOUS
    <3>2. QED
      BY <3>1, TrieType
  <2>2. /\ fork_block_number \in {Unpinned} /\ blocks = <<>> /\ mined = 0
        /\ stateTrie = <<>> /\ storageTrie = Absent /\ request \in Requests
        /\ answer = NoAnswer /\ parted = FALSE
    BY DEF Init, Requests
  <2>3. blocks \in Seq(OwnBlocks)
    BY <2>2
  <2>4. QED
    BY <1>3, <2>1, <2>2, <2>3 DEF TypeOK
<1>6. NothingBefore /\ OwnSound /\ AskedInTurn
  BY DEF Init, NothingBefore, OwnSound, AskedInTurn
<1>7. RequestSound(request) /\ StopsOnlyWhenLost
  BY DEF Init, Idle, RequestSound, Fetching, StopsOnlyWhenLost
<1>8. StorageUntilParted
  BY DEF Init, StorageUntilParted, StorageOfLastBlock
<1>9. QED
  BY <1>4, <1>5, <1>6, <1>7, <1>8 DEF ForkInv, Sound

\* A block of the other node is executed on the one before it.
LEMMA TouchedType == ASSUME NEW value \in Value PROVE Touched(value) \in Value
  BY DEF Touched, Value

LEMMA UpstreamGrows ==
  ASSUME Sound, UpstreamMines
  PROVE  /\ upstream' \in Seq(UpstreamBlocks) /\ Len(upstream') = Len(upstream) + 1
         /\ \A i \in 1..Len(upstream) : upstream'[i] = upstream[i]
         /\ upstream'[Len(upstream')].hash = UpstreamHash(Len(upstream))
         /\ upstream'[Len(upstream')].txs = <<UpstreamHash(Len(upstream))>>
         /\ UNCHANGED <<node, request, answer, parted>>
<1>1. upstream \in Seq(UpstreamBlocks) /\ Len(upstream) \in Nat /\ Len(upstream) > 0
  BY DEF Sound, TypeOK, UpstreamSound
<1>2. PICK tx \in UpstreamTxs :
        LET last == UpstreamBlock(UpstreamHeight)
            hash == UpstreamHash(UpstreamHeight + 1)
        IN  upstream' = Append(upstream,
              [hash |-> hash, txs |-> <<hash>>,
               accounts |-> [last.accounts EXCEPT ![tx.account] = Touched(@)],
               slot |-> last.slot + (IF tx.effect = "adds" THEN 1 ELSE 0)])
  BY DEF UpstreamMines
<1> DEFINE last == upstream[Len(upstream)]
           hash == UpstreamHash(Len(upstream))
           new == [hash |-> hash, txs |-> <<hash>>,
                   accounts |-> [last.accounts EXCEPT ![tx.account] = Touched(@)],
                   slot |-> last.slot + (IF tx.effect = "adds" THEN 1 ELSE 0)]
<1>3. UpstreamHeight + 1 = Len(upstream)
  BY <1>1 DEF UpstreamHeight
<1>4. upstream' = Append(upstream, new)
  BY <1>2, <1>3 DEF UpstreamBlock
<1>5. tx.account \in Accounts
  BY TxsAssumption
<1>6. last.accounts \in [Accounts -> Value] /\ last.slot \in Nat
  <2>1. last \in UpstreamBlocks
    BY <1>1
  <2>2. QED
    BY <2>1 DEF UpstreamBlocks
<1>7. [last.accounts EXCEPT ![tx.account] = Touched(@)] \in [Accounts -> Value]
  BY <1>5, <1>6, TouchedType
<1>8. hash \in Hash /\ <<hash>> \in Seq(Hash)
  BY <1>1 DEF UpstreamHash, Hash
<1>9. last.slot + (IF tx.effect = "adds" THEN 1 ELSE 0) \in Nat
  BY <1>6
<1> HIDE DEF last, hash
<1>10. new \in UpstreamBlocks /\ new.hash = hash /\ new.txs = <<hash>>
  BY <1>7, <1>8, <1>9 DEF UpstreamBlocks
<1> HIDE DEF new
<1>11. /\ upstream' \in Seq(UpstreamBlocks) /\ Len(upstream') = Len(upstream) + 1
       /\ \A i \in 1..Len(upstream) : upstream'[i] = upstream[i]
       /\ upstream'[Len(upstream) + 1] = new
  BY <1>1, <1>4, <1>10
<1>12. QED
  BY <1>1, <1>10, <1>11 DEF UpstreamMines, hash

\* What it mines is not part of the chain.
LEMMA ChainStays ==
  ASSUME Sound, UpstreamMines, fork_block_number # Unpinned
  PROVE  /\ Height' = Height /\ Last' = Last
         /\ UpstreamBlock(fork_block_number)' = UpstreamBlock(fork_block_number)
         /\ CurrentSlot' = CurrentSlot
         /\ \A n \in 0..fork_block_number : upstream'[n + 1] = upstream[n + 1]
         /\ \A n \in 0..Height : /\ AccountsAt(n)' = AccountsAt(n)
                                 /\ TxsAt(n)' = TxsAt(n) /\ HashAt(n)' = HashAt(n)
         /\ TheChain' = TheChain
<1>1. /\ upstream' \in Seq(UpstreamBlocks) /\ Len(upstream') = Len(upstream) + 1
      /\ \A i \in 1..Len(upstream) : upstream'[i] = upstream[i]
      /\ UNCHANGED <<node, request, answer, parted>>
  BY UpstreamGrows
<1>2. fork_block_number \in Nat /\ fork_block_number + 1 \in 1..Len(upstream)
      /\ Height \in Nat /\ Len(upstream) \in Nat
  BY Numbers DEF Sound, TypeOK, UpstreamHeight
<1>3. \A n \in 0..fork_block_number : upstream'[n + 1] = upstream[n + 1]
  BY <1>1, <1>2
<1>4. Height' = Height /\ Last' = Last /\ fork_block_number' = fork_block_number
      /\ blocks' = blocks /\ storageTrie' = storageTrie
  BY <1>1 DEF node, Height, Last
<1>5. UpstreamBlock(fork_block_number)' = UpstreamBlock(fork_block_number)
  BY <1>2, <1>3, <1>4 DEF UpstreamBlock
<1>6. CurrentSlot' = CurrentSlot
  BY <1>4, <1>5 DEF CurrentSlot
<1>7. \A i : OwnState(i)' = OwnState(i)
  BY <1>4, <1>5 DEF OwnState
<1>8. ASSUME NEW n \in Int
      PROVE  /\ IsFallbackBlock(n)' <=> IsFallbackBlock(n)
             /\ RelativeBlockNumber(n)' = RelativeBlockNumber(n)
             /\ OwnBlock(n)' = OwnBlock(n)
             /\ n >= 0 /\ IsFallbackBlock(n) => UpstreamBlock(n)' = UpstreamBlock(n)
  BY <1>2, <1>3, <1>4 DEF IsFallbackBlock, RelativeBlockNumber, OwnBlock, UpstreamBlock
<1>9. ASSUME NEW n \in 0..Height
      PROVE  AccountsAt(n)' = AccountsAt(n) /\ TxsAt(n)' = TxsAt(n) /\ HashAt(n)' = HashAt(n)
  BY <1>2, <1>7, <1>8 DEF AccountsAt, TxsAt, HashAt
<1>10. TheChain' = TheChain
  <2> DEFINE m == fork_block_number + 1 + Len(blocks)
             Item(n) == IF IsFallbackBlock(n - 1)
                          THEN Seen(UpstreamBlock(n - 1), UpstreamBlock(n - 1).accounts)
                          ELSE Seen(OwnBlock(n - 1),
                                    OwnState(RelativeBlockNumber(n - 1) + 1))
  <2>1. TheChain = [n \in 1..m |-> Item(n)]
    BY DEF TheChain
  <2>2. TheChain' = [n \in 1..m |-> Item(n)']
    BY <1>4 DEF TheChain
  <2>3. \A n \in 1..m : Item(n)' = Item(n)
    <3> SUFFICES ASSUME NEW n \in 1..m PROVE Item(n)' = Item(n)
      OBVIOUS
    <3>1. n - 1 \in Int /\ n - 1 >= 0
      OBVIOUS
    <3>2. QED
      BY <1>7, <1>8, <3>1 DEF Seen
  <2> HIDE DEF Item
  <2>4. QED
    BY <2>1, <2>2, <2>3
<1>11. QED
  BY <1>3, <1>4, <1>5, <1>6, <1>9, <1>10

LEMMA UpstreamMinesKeeps == ASSUME ForkInv, UpstreamMines PROVE ForkInv'
<1>1. Sound
  BY DEF ForkInv
<1>2. /\ upstream' \in Seq(UpstreamBlocks) /\ Len(upstream') = Len(upstream) + 1
      /\ \A i \in 1..Len(upstream) : upstream'[i] = upstream[i]
      /\ upstream'[Len(upstream')].hash = UpstreamHash(Len(upstream))
      /\ upstream'[Len(upstream')].txs = <<UpstreamHash(Len(upstream))>>
      /\ UNCHANGED <<node, request, answer, parted>>
  BY <1>1, UpstreamGrows
<1>3. Len(upstream) \in Nat /\ Len(upstream) > 0
  BY <1>1 DEF Sound, TypeOK, UpstreamSound
<1>4. TypeOK'
  BY <1>1, <1>2, <1>3 DEF Sound, TypeOK, node, UpstreamHeight, Unpinned
<1>5. UpstreamSound'
  <2>1. DOMAIN upstream' = 1..Len(upstream) + 1 /\ DOMAIN upstream = 1..Len(upstream)
    BY <1>1, <1>2, <1>3 DEF Sound, TypeOK
  <2>2. ASSUME NEW i \in DOMAIN upstream'
        PROVE  /\ upstream'[i].hash = UpstreamHash(i - 1)
               /\ upstream'[i].txs = IF i = 1 THEN <<>> ELSE <<UpstreamHash(i - 1)>>
    <3>1. CASE i \in 1..Len(upstream)
      BY <1>1, <1>2, <2>1, <3>1 DEF Sound, UpstreamSound
    <3>2. CASE i = Len(upstream) + 1
      <4>1. i - 1 = Len(upstream) /\ i # 1 /\ i = Len(upstream')
        BY <1>2, <1>3, <3>2
      <4>2. QED
        BY <1>2, <4>1
    <3>3. QED
      BY <1>3, <2>1, <3>1, <3>2
  <2>3. upstream' # <<>>
    BY <1>2, <1>3
  <2>4. QED
    BY <2>2, <2>3 DEF UpstreamSound
<1>6. NothingBefore' /\ OwnSound' /\ AskedInTurn'
  BY <1>1, <1>2 DEF Sound, NothingBefore, OwnSound, AskedInTurn, node, Last
<1>7. RequestSound(request)'
  <2>1. CASE request = Idle
    <3>1. request' = Idle
      BY <1>2, <2>1
    <3>2. QED
      BY <3>1 DEF RequestSound, Idle, Fetching
  <2>2. CASE request # Idle
    <3>1. fork_block_number # Unpinned /\ RequestSound(request)
      BY <2>2, Serving
    <3>2. /\ Height' = Height /\ CurrentSlot' = CurrentSlot /\ Last' = Last
          /\ UpstreamBlock(fork_block_number)' = UpstreamBlock(fork_block_number)
          /\ \A n \in 0..fork_block_number : upstream'[n + 1] = upstream[n + 1]
          /\ \A n \in 0..Height : AccountsAt(n)' = AccountsAt(n) /\ TxsAt(n)' = TxsAt(n)
      BY <1>1, <3>1, ChainStays
    <3>3. request' = request /\ fork_block_number' = fork_block_number /\ mined' = mined
      BY <1>2 DEF node
    <3>4. fork_block_number \in Nat /\ Height \in Nat
      BY <1>1, <3>1, Numbers DEF Sound
    <3>5. ASSUME request.op \in Fetching PROVE GotTruth(request)'
      <4>1. GotTruth(request)
        BY <3>1, <3>5 DEF RequestSound
      <4>2. ASSUME NEW p \in request.parts
            PROVE  /\ Truth(request, p)' = Truth(request, p)
                   /\ Fetched(request, p)' = Fetched(request, p)
                   /\ Certain(request, p)' => Certain(request, p)
        <5>1. CASE p = Slot
          BY <3>2, <3>3, <5>1 DEF Truth, Fetched, Certain
        <5>2. CASE p # Slot
          <6>1. request.number \in 0..Height
            <7>1. request \in Requests
              BY <2>2, Serving
            <7>2. request.op # "storage"
              BY <3>1, <3>5, <5>2, <7>1, FetchingTypes
            <7>3. Height \in 0..Height
              BY <3>4
            <7>4. QED
              BY <3>1, <3>5, <7>2, <7>3 DEF Fetching, RequestSound
          <6>2. SafeFallbackBlockNumber(request.number) \in 0..fork_block_number
            BY <3>4, <6>1 DEF SafeFallbackBlockNumber
          <6>3. UpstreamBlock(SafeFallbackBlockNumber(request.number))'
                  = UpstreamBlock(SafeFallbackBlockNumber(request.number))
            BY <3>2, <3>3, <6>2 DEF UpstreamBlock, SafeFallbackBlockNumber
          <6>4. QED
            BY <3>2, <3>3, <5>2, <6>1, <6>3
            DEF Truth, Fetched, Certain, Right, IsFallbackBlock
        <5>3. QED
          BY <5>1, <5>2
      <4>3. QED
        BY <3>3, <4>1, <4>2 DEF GotTruth
    <3>6. Hashes \subseteq Hashes'
      <4>1. DOMAIN upstream \subseteq DOMAIN upstream'
            /\ \A i \in DOMAIN upstream : upstream'[i].hash = upstream[i].hash
        BY <1>1, <1>2, <1>3 DEF Sound, TypeOK
      <4>2. QED
        BY <3>3, <4>1 DEF Hashes
    <3>7. ASSUME request.op = "logs" PROVE LogsTruth(request)'
      <4>1. LogsTruth(request) /\ request.logs \in Seq(Seq(Hash))
            /\ request.number \in Nat /\ request.to \in Nat
        BY <3>7, LogsRequest
      <4>2. \A i \in 1..Len(request.logs) : request.number + i - 1 \in 0..Height
        BY <3>4, <4>1 DEF LogsTruth
      <4>3. QED
        BY <3>2, <3>3, <4>1, <4>2 DEF LogsTruth
    <3>8. QED
      BY <3>1, <3>2, <3>3, <3>5, <3>6, <3>7 DEF RequestSound
  <2>3. QED
    BY <2>1, <2>2
<1>8. StopsOnlyWhenLost'
  BY <1>2 DEF ForkInv, StopsOnlyWhenLost, node
<1>9. StorageUntilParted'
  <2>1. CASE fork_block_number = Unpinned
    BY <1>2, <2>1 DEF StorageUntilParted, StorageOfLastBlock, node
  <2>2. CASE fork_block_number # Unpinned
    <3>1. /\ Last' = Last
          /\ UpstreamBlock(fork_block_number)' = UpstreamBlock(fork_block_number)
      BY <1>1, <2>2, ChainStays
    <3>2. QED
      BY <1>2, <3>1 DEF ForkInv, StorageUntilParted, StorageOfLastBlock, node
  <2>3. QED
    BY <2>1, <2>2
<1>10. QED
  BY <1>4, <1>5, <1>6, <1>7, <1>8, <1>9 DEF ForkInv, Sound

LEMMA RestIsQuiet ==
  ASSUME request' = Idle
  PROVE  /\ request' \in Requests /\ RequestSound(request)' /\ StopsOnlyWhenLost'
         /\ AskedInTurn'
  BY DEF Requests, RequestSound, StopsOnlyWhenLost, AskedInTurn, Idle, Fetching

LEMMA CreateKeeps ==
  ASSUME ForkInv, CreateGenesisBlock
  PROVE  /\ ForkInv'
         /\ fork_block_number' \in 0..UpstreamHeight /\ Len(blocks') = 1
         /\ upstream' = upstream /\ answer' = NoAnswer /\ blocks = <<>>
<1>1. /\ fork_block_number = Unpinned /\ Sound
      /\ blocks = <<>> /\ storageTrie = Absent /\ request = Idle /\ answer = NoAnswer
  BY DEF CreateGenesisBlock, ForkInv, Sound, NothingBefore
<1>2. UpstreamHeight \in Nat /\ Len(upstream) = UpstreamHeight + 1
  BY <1>1 DEF Sound, TypeOK, UpstreamSound, UpstreamHeight
<1> DEFINE accounts == [a \in OwnAccounts |-> Fresh]
<1>3. PICK pinned \in 0..UpstreamHeight :
        /\ fork_block_number' = pinned
        /\ stateTrie' = accounts
        /\ blocks' = << [hash |-> OwnHash(0), txs |-> <<>>, number |-> pinned + 1,
                         root |-> accounts, slot |-> UpstreamBlock(pinned).slot,
                         destroyed |-> {}] >>
  <2>1. PICK requested \in 0..UpstreamHeight :
          /\ fork_block_number' = Pinned(requested)
          /\ stateTrie' = accounts
          /\ blocks' = << [hash |-> OwnHash(0), txs |-> <<>>,
                           number |-> Pinned(requested) + 1, root |-> accounts,
                           slot |-> UpstreamBlock(Pinned(requested)).slot,
                           destroyed |-> {}] >>
    BY DEF CreateGenesisBlock
  <2>2. Pinned(requested) \in 0..UpstreamHeight
    BY <1>2 DEF Pinned
  <2> HIDE DEF accounts
  <2>3. QED
    BY <2>1, <2>2
<1> DEFINE block == [hash |-> OwnHash(0), txs |-> <<>>, number |-> pinned + 1,
                     root |-> accounts, slot |-> UpstreamBlock(pinned).slot,
                     destroyed |-> {}]
<1>4. /\ mined' = 1 /\ UNCHANGED <<upstream, storageTrie, request, answer, parted>>
  BY DEF CreateGenesisBlock
<1>5. accounts \in PartialTrie
  BY AccountsAssumption, TrieType DEF Fresh, Value
<1>6. UpstreamBlock(pinned) \in UpstreamBlocks
  BY <1>1, <1>2 DEF UpstreamBlock, Sound, TypeOK
<1>7. block \in OwnBlocks
  BY <1>2, <1>5, <1>6 DEF OwnBlocks, UpstreamBlocks, OwnHash, Hash
<1> HIDE DEF accounts, block
<1>8. /\ blocks' = <<block>> /\ blocks' \in Seq(OwnBlocks) /\ Len(blocks') = 1
      /\ blocks'[1] = block /\ blocks' # <<>> /\ DOMAIN blocks' = {1}
  BY <1>3, <1>7 DEF block
<1>9. Last' = block
  BY <1>8 DEF Last
<1>10. TypeOK'
  <2>1. fork_block_number' \in ({Unpinned} \cup 0..UpstreamHeight)' /\ mined' \in Nat
    BY <1>3, <1>4 DEF UpstreamHeight
  <2>2. QED
    BY <1>1, <1>3, <1>4, <1>5, <1>8, <2>1 DEF Sound, TypeOK
<1>11. UpstreamSound'
  BY <1>1, <1>4 DEF Sound, UpstreamSound
<1>12. fork_block_number' # Unpinned
  BY <1>2, <1>3 DEF Unpinned
<1>13. OwnSound'
  <2>1. block.root = accounts /\ block.number = pinned + 1 /\ block.hash = OwnHash(0)
        /\ block.txs = <<>>
    BY DEF block
  <2>2. stateTrie' = Last.root'
    BY <1>3, <1>9, <2>1
  <2>3. \E k \in 0..mined' - 1 : block.hash = OwnHash(k)
    BY <1>4, <2>1
  <2>4. QED
    BY <1>3, <1>8, <2>1, <2>2, <2>3 DEF OwnSound
<1>14. NothingBefore'
  BY <1>12 DEF NothingBefore
<1>15. StorageUntilParted'
  <2>1. block.slot = UpstreamBlock(pinned).slot
    BY DEF block
  <2>2. UpstreamBlock(fork_block_number)' = UpstreamBlock(pinned)
    BY <1>3, <1>4 DEF UpstreamBlock
  <2>3. QED
    BY <1>1, <1>4, <1>9, <2>1, <2>2 DEF StorageUntilParted, StorageOfLastBlock
<1>16. ForkInv'
  BY <1>1, <1>4, <1>10, <1>11, <1>13, <1>14, <1>15, RestIsQuiet DEF ForkInv, Sound
<1>17. QED
  BY <1>1, <1>3, <1>4, <1>8, <1>16

\* What a transaction or a call has got: the state of the latest block, whether that is
\* held or fetched.
LEMMA TransactGot ==
  ASSUME ForkInv, request.op \in {"transact", "call"}
  PROVE  /\ request # Idle /\ Sound /\ fork_block_number # Unpinned /\ answer = NoAnswer
         /\ request.account \in Accounts /\ request.effect \in Effects
         /\ request.got \in [DOMAIN request.got -> Nat] /\ CurrentSlot \in Nat
         /\ AllFetched =>
              /\ Parts \subseteq DOMAIN request.got
              /\ request.effect \in Storing =>
                   Slot \in DOMAIN request.got /\ request.got[Slot] = CurrentSlot
              /\ request.account \notin Last.destroyed => \A p \in Parts :
                   request.got[p] = AccountsAt(Height)[request.account][p]
<1>1. request # Idle /\ request.op \in Fetching
  BY DEF Idle, Fetching
<1>2. /\ Sound /\ fork_block_number # Unpinned /\ answer = NoAnswer
      /\ RequestSound(request) /\ request \in Requests
  BY <1>1, Serving
<1>3. /\ request.number = Height
      /\ request.parts = Parts \cup (IF request.effect \in Storing THEN {Slot} ELSE {})
  BY <1>2 DEF RequestSound
<1>4. /\ request.account \in Accounts /\ request.effect \in Effects
      /\ request.got \in [DOMAIN request.got -> Nat]
  BY <1>1, <1>2, FetchingTypes
<1>5. ASSUME AllFetched
      PROVE  /\ DOMAIN request.got = request.parts
             /\ \A p \in request.parts :
                  Certain(request, p) => request.got[p] = Truth(request, p)
  BY <1>1, <1>5, AllTruth
<1>6. ASSUME AllFetched, request.effect \in Storing
      PROVE  Slot \in DOMAIN request.got /\ request.got[Slot] = CurrentSlot
  <2>1. Slot \in request.parts /\ Certain(request, Slot)
    BY <1>3, <1>6 DEF Certain
  <2>2. QED
    BY <1>5, <1>6, <2>1 DEF Truth
<1>7. ASSUME AllFetched, request.account \notin Last.destroyed, NEW p \in Parts
      PROVE  request.got[p] = AccountsAt(Height)[request.account][p]
  <2>1. p \in request.parts /\ p # Slot
    BY <1>3, PartsAssumption
  <2>2. Certain(request, p)
    BY <1>7, <2>1 DEF Certain, Right
  <2>3. QED
    BY <1>3, <1>5, <1>7, <2>1, <2>2 DEF Truth
<1>8. CurrentSlot \in Nat
  BY <1>2, SlotType
<1>9. QED
  BY <1>1, <1>2, <1>3, <1>4, <1>5, <1>6, <1>7, <1>8

\* The block a transaction makes: executed on the state of the latest block.
LEMMA BlockMade ==
  ASSUME ForkInv, EndTransact
  PROVE  /\ Sound /\ fork_block_number # Unpinned /\ answer = NoAnswer
         /\ request.account \in Accounts
         /\ UNCHANGED <<upstream, fork_block_number, answer>>
         /\ request' = Idle /\ mined' = mined + 1
         /\ Len(blocks') = Len(blocks) + 1 /\ blocks' \in Seq(OwnBlocks)
         /\ \A i \in 1..Len(blocks) : blocks'[i] = blocks[i]
         /\ blocks'[Len(blocks) + 1].hash = OwnHash(mined)
         /\ blocks'[Len(blocks) + 1].txs = <<OwnHash(mined)>>
         /\ blocks'[Len(blocks) + 1].number = Height + 1
         /\ stateTrie' = RootAfter(request)
         /\ blocks'[Len(blocks) + 1].root = RootAfter(request)
         /\ blocks'[Len(blocks) + 1].slot = SlotAfter(request)
         /\ blocks'[Len(blocks) + 1].destroyed = Last.destroyed \cup
              (IF request.effect = "destroys" THEN {request.account} ELSE {})
<1>1. request.op \in {"transact", "call"} /\ AllFetched
  BY DEF EndTransact
<1>2. /\ Sound /\ fork_block_number # Unpinned /\ answer = NoAnswer
      /\ request.account \in Accounts
      /\ request.got \in [DOMAIN request.got -> Nat] /\ CurrentSlot \in Nat
      /\ Parts \subseteq DOMAIN request.got
      /\ request.effect \in Storing =>
           Slot \in DOMAIN request.got /\ request.got[Slot] = CurrentSlot
  BY <1>1, TransactGot
<1> DEFINE a == request.account
           root == RootAfter(request)
           slot == SlotAfter(request)
           destroyed == Last.destroyed \cup
             (IF request.effect = "destroys" THEN {request.account} ELSE {})
           block == [hash |-> OwnHash(mined), txs |-> <<OwnHash(mined)>>,
                     number |-> Height + 1, root |-> root, slot |-> slot,
                     destroyed |-> destroyed]
<1>3. /\ stateTrie' = root /\ blocks' = Append(blocks, block)
      /\ mined' = mined + 1 /\ request' = Idle
      /\ UNCHANGED <<upstream, fork_block_number, answer>>
  BY DEF EndTransact
<1>4. stateTrie \in PartialTrie /\ mined \in Nat /\ Height \in Nat
      /\ blocks \in Seq(OwnBlocks) /\ Last \in OwnBlocks
  BY <1>2, Numbers DEF Sound, TypeOK
<1>5. slot \in Nat
  BY <1>2, <1>4 DEF SlotAfter, OwnBlocks, Storing
<1>6. destroyed \in SUBSET Accounts
  BY <1>2, <1>4 DEF OwnBlocks
<1>7. root \in PartialTrie
  <2>1. DOMAIN stateTrie \subseteq Accounts /\ stateTrie \in [DOMAIN stateTrie -> Value]
    BY <1>4, TrieType
  <2>2. CASE request.effect = "destroys"
    <3>1. root \in [DOMAIN stateTrie \ {a} -> Value]
      BY <2>1, <2>2 DEF RootAfter
    <3>2. QED
      BY <2>1, <3>1 DEF PartialTrie
  <2>3. CASE request.effect # "destroys"
    <3> DEFINE new == [p \in Parts |-> request.got[p] + 1]
    <3>1. new \in Value
      BY <1>2 DEF Value
    <3>2. root = [b \in DOMAIN stateTrie \cup {a} |-> IF b = a THEN new ELSE stateTrie[b]]
      BY <2>3 DEF RootAfter
    <3> HIDE DEF new, root
    <3>3. root \in [DOMAIN stateTrie \cup {a} -> Value]
      BY <2>1, <3>1, <3>2
    <3>4. DOMAIN stateTrie \cup {a} \in SUBSET Accounts
      BY <1>2, <2>1
    <3>5. QED
      BY <3>3, <3>4 DEF PartialTrie
  <2>4. QED
    BY <2>2, <2>3
<1>8. OwnHash(mined) \in Hash
  BY <1>4 DEF OwnHash, Hash
<1> HIDE DEF root, slot, destroyed
<1>9. /\ block \in OwnBlocks /\ block.root = root /\ block.slot = slot
      /\ block.hash = OwnHash(mined) /\ block.txs = <<OwnHash(mined)>>
      /\ block.number = Height + 1 /\ block.destroyed = destroyed
  BY <1>4, <1>5, <1>6, <1>7, <1>8 DEF OwnBlocks
<1> HIDE DEF block
<1>10. /\ Len(blocks') = Len(blocks) + 1 /\ blocks' \in Seq(OwnBlocks)
       /\ \A i \in 1..Len(blocks) : blocks'[i] = blocks[i]
       /\ blocks'[Len(blocks) + 1] = block
  BY <1>3, <1>4, <1>9
<1> HIDE DEF a
<1>11. QED
  BY <1>2, <1>3, <1>9, <1>10 DEF root, slot, destroyed

\* What the VM takes back may stay in the storage trie, which has then parted.
LEMMA UndoneSlot ==
  ASSUME ForkInv, request.op \in {"transact", "call"}, Undone(request)
  PROVE  /\ storageTrie' \in Nat \cup {Absent} /\ parted' \in BOOLEAN
         /\ ~parted' => ~parted /\ storageTrie' = storageTrie
<1>1. Sound /\ request.got \in [DOMAIN request.got -> Nat]
  BY TransactGot
<1>2. storageTrie \in Nat \cup {Absent} /\ parted \in BOOLEAN
  BY <1>1 DEF Sound, TypeOK
<1>3. PICK stays \in BOOLEAN :
        /\ stays => Stores(request) /\ ~parted
        /\ storageTrie' = IF stays THEN Stored(request) ELSE storageTrie
        /\ parted' = (parted \/ stays)
  BY DEF Undone
<1>4. CASE ~stays
  <2>1. storageTrie' = storageTrie
    BY <1>3, <1>4
  <2>2. parted' = parted
    BY <1>2, <1>3, <1>4
  <2>3. QED
    BY <1>2, <2>1, <2>2
<1>5. CASE stays
  <2>1. parted' = TRUE
    BY <1>3, <1>5, Zenon
  <2>2. storageTrie' = Stored(request)
    BY <1>3, <1>5
  <2>3. Slot \in DOMAIN request.got
    BY <1>3, <1>5 DEF Stores
  <2>4. Stored(request) \in Nat \cup {Absent}
    BY <1>1, <2>3 DEF Stored
  <2>5. QED
    BY <2>1, <2>2, <2>4
<1>6. QED
  BY <1>4, <1>5

\* The slot of the new block is the one the trie has now, or they have parted.
LEMMA SlotMade ==
  ASSUME ForkInv, EndTransact
  PROVE  /\ storageTrie' \in Nat \cup {Absent} /\ parted' \in BOOLEAN
         /\ ~parted' =>
              SlotAfter(request) = IF storageTrie' = Absent
                                     THEN UpstreamBlock(fork_block_number).slot
                                     ELSE storageTrie'
<1>1. request.op \in {"transact", "call"} /\ AllFetched
  BY DEF EndTransact
<1>2. /\ Sound /\ fork_block_number # Unpinned
      /\ request.account \in Accounts /\ request.effect \in Effects
      /\ request.got \in [DOMAIN request.got -> Nat] /\ CurrentSlot \in Nat
      /\ request.effect \in Storing =>
           Slot \in DOMAIN request.got /\ request.got[Slot] = CurrentSlot
  BY <1>1, TransactGot
<1>3. storageTrie \in Nat \cup {Absent} /\ parted \in BOOLEAN
  BY <1>2 DEF Sound, TypeOK
<1>4. ~parted => Last.slot = CurrentSlot
  BY <1>2 DEF ForkInv, StorageUntilParted, StorageOfLastBlock, CurrentSlot
<1>5. CASE request.effect = "throws"
  <2>1. /\ storageTrie' \in Nat \cup {Absent} /\ parted' \in BOOLEAN
        /\ ~parted' => ~parted /\ storageTrie' = storageTrie
    <3>1. Undone(request)
      BY <1>5 DEF EndTransact
    <3>2. QED
      BY <1>1, <3>1, UndoneSlot
  <2>2. SlotAfter(request) = Last.slot
    BY <1>5 DEF SlotAfter
  <2>3. QED
    BY <1>4, <2>1, <2>2 DEF CurrentSlot
<1>6. CASE request.effect # "throws"
  <2> DEFINE cleared == /\ request.effect = "clears"
                        /\ UpstreamBlock(fork_block_number).slot # 0
             gone == /\ request.effect = "destroys" /\ request.account = Contract
                     /\ Last.slot # 0
  <2>1. Kept(request)
    BY <1>6 DEF EndTransact
  <2>2. storageTrie' = IF Stores(request) THEN Stored(request) ELSE storageTrie
    BY <2>1 DEF Kept
  <2>3. parted' = (parted \/ cleared \/ gone)
    BY <2>1 DEF Kept
  <2>4. parted' \in BOOLEAN /\ (~parted' => ~parted /\ ~cleared /\ ~gone)
    BY <2>3, Zenon
  <2>5. CASE request.effect = "adds"
    <3>1. Stores(request) /\ Stored(request) = CurrentSlot + 1
      BY <1>2, <2>5 DEF Stores, Stored, Storing
    <3>2. SlotAfter(request) = CurrentSlot + 1
      BY <1>2, <2>5 DEF SlotAfter, Storing
    <3>3. storageTrie' = CurrentSlot + 1 /\ storageTrie' # Absent
      BY <1>2, <2>2, <3>1 DEF Absent
    <3>4. QED
      BY <1>2, <2>4, <3>2, <3>3
  <2>6. CASE request.effect = "clears"
    <3>1. Stores(request) /\ Stored(request) = Absent
      BY <1>2, <2>6 DEF Stores, Stored, Storing
    <3>2. SlotAfter(request) = 0
      BY <2>6 DEF SlotAfter
    <3>3. storageTrie' = Absent
      BY <2>2, <3>1
    <3>4. QED
      BY <2>4, <2>6, <3>2, <3>3
  <2>7. CASE request.effect \in {"none", "destroys"}
    <3>1. storageTrie' = storageTrie
      BY <2>2, <2>7 DEF Stores, Storing
    <3>2. ~parted' => SlotAfter(request) = Last.slot
      BY <2>4, <2>7 DEF SlotAfter
    <3>3. QED
      BY <1>3, <1>4, <2>4, <3>1, <3>2 DEF CurrentSlot
  <2>8. QED
    BY <1>2, <1>6, <2>5, <2>6, <2>7 DEF Effects, Storing
<1>7. QED
  BY <1>5, <1>6

LEMMA TransactKeeps == ASSUME ForkInv, EndTransact PROVE ForkInv'
<1> DEFINE m == Len(blocks)
<1>1. /\ Sound /\ fork_block_number # Unpinned /\ answer = NoAnswer
      /\ request.account \in Accounts
      /\ UNCHANGED <<upstream, fork_block_number, answer>>
      /\ request' = Idle /\ mined' = mined + 1
      /\ Len(blocks') = m + 1 /\ blocks' \in Seq(OwnBlocks)
      /\ \A i \in 1..m : blocks'[i] = blocks[i]
      /\ blocks'[m + 1].hash = OwnHash(mined)
      /\ blocks'[m + 1].txs = <<OwnHash(mined)>>
      /\ blocks'[m + 1].number = Height + 1
      /\ stateTrie' = blocks'[m + 1].root
      /\ blocks'[m + 1].root = RootAfter(request)
      /\ blocks'[m + 1].slot = SlotAfter(request)
      /\ blocks'[m + 1].destroyed = Last.destroyed \cup
           (IF request.effect = "destroys" THEN {request.account} ELSE {})
  BY BlockMade
<1>2. /\ DOMAIN stateTrie \subseteq
           DOMAIN blocks'[m + 1].root \cup blocks'[m + 1].destroyed
      /\ Last.destroyed \subseteq blocks'[m + 1].destroyed
  <2>1. CASE request.effect = "destroys"
    <3>1. DOMAIN RootAfter(request) = DOMAIN stateTrie \ {request.account}
      BY <2>1 DEF RootAfter
    <3>2. QED
      BY <1>1, <2>1, <3>1
  <2>2. CASE request.effect # "destroys"
    <3>1. DOMAIN RootAfter(request) = DOMAIN stateTrie \cup {request.account}
      BY <2>2 DEF RootAfter
    <3>2. QED
      BY <1>1, <2>2, <3>1
  <2>3. QED
    BY <2>1, <2>2
<1>3. m \in Nat /\ m > 0 /\ mined \in Nat /\ fork_block_number \in Nat
      /\ Height = fork_block_number + m /\ Last = blocks[m]
      /\ DOMAIN blocks = 1..m /\ DOMAIN blocks' = 1..m + 1
  BY <1>1, Numbers DEF Sound, TypeOK
<1>4. Last' = blocks'[m + 1]
  BY <1>1 DEF Last
<1>5. TypeOK'
  <2>1. blocks'[m + 1] \in OwnBlocks
    BY <1>1, <1>3
  <2>2. stateTrie' \in PartialTrie
    BY <1>1, <2>1 DEF OwnBlocks
  <2>3. storageTrie' \in Nat \cup {Absent} /\ parted' \in BOOLEAN
    BY SlotMade
  <2>4. mined' \in Nat
    BY <1>1, <1>3
  <2>5. QED
    BY <1>1, <2>2, <2>3, <2>4, RestIsQuiet DEF Sound, TypeOK, UpstreamHeight
<1>6. UpstreamSound' /\ NothingBefore'
  BY <1>1 DEF Sound, UpstreamSound, NothingBefore
<1>7. OwnSound'
  <2>1. /\ stateTrie = blocks[m].root
        /\ \A i \in 1..m :
             /\ blocks[i].number = fork_block_number + i
             /\ \E k \in 0..mined - 1 : blocks[i].hash = OwnHash(k)
             /\ blocks[i].txs = IF i = 1 THEN <<>> ELSE <<blocks[i].hash>>
        /\ \A i, j \in 1..m : blocks[i].hash = blocks[j].hash => i = j
        /\ \A i, j \in 1..m : i <= j =>
             /\ DOMAIN blocks[i].root \subseteq DOMAIN blocks[j].root \cup blocks[j].destroyed
             /\ blocks[i].destroyed \subseteq blocks[j].destroyed
    BY <1>1, <1>3 DEF Sound, OwnSound
  <2>2. \A i \in 1..m : blocks[i].hash # OwnHash(mined)
    <3>1. \A k \in 0..mined - 1 : OwnHash(k) # OwnHash(mined)
      BY <1>3 DEF OwnHash
    <3>2. SUFFICES ASSUME NEW i \in 1..m, blocks[i].hash = OwnHash(mined) PROVE FALSE
      OBVIOUS
    <3>3. PICK k \in 0..mined - 1 : blocks[i].hash = OwnHash(k)
      BY <2>1, <3>2
    <3>4. QED
      BY <3>1, <3>2, <3>3
  <2>3. ASSUME NEW i \in 1..m + 1
        PROVE  /\ blocks'[i].number = fork_block_number + i
               /\ \E k \in 0..mined' - 1 : blocks'[i].hash = OwnHash(k)
               /\ blocks'[i].txs = IF i = 1 THEN <<>> ELSE <<blocks'[i].hash>>
    <3>1. CASE i \in 1..m
      <4>1. PICK k \in 0..mined - 1 : blocks[i].hash = OwnHash(k)
        BY <2>1, <3>1
      <4>2. k \in 0..mined' - 1
        BY <1>1, <1>3
      <4>3. QED
        BY <1>1, <2>1, <3>1, <4>1, <4>2
    <3>2. CASE i = m + 1
      <4>1. i # 1 /\ mined \in 0..mined' - 1 /\ Height + 1 = fork_block_number + i
        BY <1>1, <1>3, <3>2
      <4>2. QED
        BY <1>1, <3>2, <4>1
    <3>3. QED
      BY <1>3, <3>1, <3>2
  <2>4. ASSUME NEW i \in 1..m + 1, NEW j \in 1..m + 1, blocks'[i].hash = blocks'[j].hash
        PROVE  i = j
    <3>1. CASE i \in 1..m /\ j \in 1..m
      BY <1>1, <2>1, <2>4, <3>1
    <3>2. CASE i \in 1..m /\ j = m + 1
      BY <1>1, <2>2, <2>4, <3>2
    <3>3. CASE i = m + 1 /\ j \in 1..m
      BY <1>1, <2>2, <2>4, <3>3
    <3>4. QED
      BY <1>3, <3>1, <3>2, <3>3
  <2>5. ASSUME NEW i \in 1..m + 1, NEW j \in 1..m + 1, i <= j
        PROVE  /\ DOMAIN blocks'[i].root \subseteq
                    DOMAIN blocks'[j].root \cup blocks'[j].destroyed
               /\ blocks'[i].destroyed \subseteq blocks'[j].destroyed
    <3>1. CASE j \in 1..m
      <4>1. i \in 1..m
        BY <1>3, <2>5, <3>1
      <4>2. QED
        BY <1>1, <2>1, <2>5, <3>1, <4>1
    <3>2. CASE i \in 1..m /\ j = m + 1
      <4>1. m \in 1..m /\ i <= m
        BY <1>3, <3>2
      <4>2. /\ DOMAIN blocks[i].root \subseteq DOMAIN blocks[m].root \cup blocks[m].destroyed
            /\ blocks[i].destroyed \subseteq blocks[m].destroyed
        BY <2>1, <3>2, <4>1
      <4>3. QED
        BY <1>1, <1>2, <1>3, <2>1, <3>2, <4>2
    <3>3. CASE i = m + 1 /\ j = m + 1
      BY <3>3
    <3>4. QED
      BY <1>3, <2>5, <3>1, <3>2, <3>3
  <2>6. blocks' # <<>>
    BY <1>1, <1>3
  <2>7. QED
    BY <1>1, <1>3, <1>4, <2>3, <2>4, <2>5, <2>6 DEF OwnSound
<1>8. StorageUntilParted'
  <2>1. ASSUME ~parted' PROVE StorageOfLastBlock'
    <3>1. SlotAfter(request) = IF storageTrie' = Absent
                                 THEN UpstreamBlock(fork_block_number).slot
                                 ELSE storageTrie'
      BY <2>1, SlotMade
    <3>2. QED
      BY <1>1, <1>4, <3>1 DEF StorageOfLastBlock, UpstreamBlock
  <2>2. QED
    BY <2>1 DEF StorageUntilParted
<1>9. QED
  BY <1>1, <1>5, <1>6, <1>7, <1>8, RestIsQuiet DEF ForkInv, Sound

\* A call ends, or an execution fails: only the storage trie may have changed.
LEMMA TakenBackKeeps ==
  ASSUME ForkInv, EndCall \/ ExecutionFails
  PROVE  /\ ForkInv' /\ request # Idle
         /\ UNCHANGED <<upstream, fork_block_number, blocks, answer>>
<1>1. /\ request.op \in {"transact", "call"} /\ request' = Idle /\ Undone(request)
      /\ UNCHANGED <<upstream, fork_block_number, blocks, mined, stateTrie, answer>>
  BY DEF EndCall, ExecutionFails
<1>2. request # Idle /\ Sound /\ fork_block_number # Unpinned /\ answer = NoAnswer
  BY <1>1, TransactGot
<1>3. /\ storageTrie' \in Nat \cup {Absent} /\ parted' \in BOOLEAN
      /\ ~parted' => ~parted /\ storageTrie' = storageTrie
  BY <1>1, UndoneSlot
<1>4. TypeOK' /\ UpstreamSound' /\ OwnSound' /\ NothingBefore'
  BY <1>1, <1>2, <1>3, RestIsQuiet
  DEF Sound, TypeOK, UpstreamHeight, UpstreamSound, OwnSound, NothingBefore, Last
<1>5. StorageUntilParted'
  <2>1. ASSUME ~parted' PROVE StorageOfLastBlock'
    BY <1>1, <1>2, <1>3, <2>1
    DEF ForkInv, StorageUntilParted, StorageOfLastBlock, Last, UpstreamBlock
  <2>2. QED
    BY <2>1 DEF StorageUntilParted
<1>6. QED
  BY <1>1, <1>2, <1>4, <1>5, RestIsQuiet DEF ForkInv, Sound

LEMMA RevertKeeps == ASSUME ForkInv, MayAsk, Revert PROVE ForkInv'
<1>1. Sound /\ fork_block_number # Unpinned /\ request = Idle
  BY DEF ForkInv, MayAsk
<1>2. /\ answer' = NoAnswer
      /\ UNCHANGED <<upstream, fork_block_number, mined, storageTrie, request>>
  BY DEF Revert
<1>3. PICK height \in 1..Len(blocks) - 1 :
        /\ blocks' = SubSeq(blocks, 1, height)
        /\ stateTrie' = blocks[height].root
        /\ parted' = (parted \/ blocks[height].slot # Last.slot)
  BY DEF Revert, RootAfterPop
<1>4. /\ Len(blocks) \in Nat /\ blocks \in Seq(OwnBlocks) /\ height \in 1..Len(blocks)
  BY <1>1, Numbers DEF Sound, TypeOK
<1>5. /\ blocks' \in Seq(OwnBlocks) /\ Len(blocks') = height
      /\ \A i \in 1..height : blocks'[i] = blocks[i]
      /\ DOMAIN blocks' = 1..height /\ DOMAIN blocks = 1..Len(blocks)
      /\ 1..height \subseteq DOMAIN blocks /\ height \in 1..height
  BY <1>3, <1>4
<1>6. Last' = blocks[height] /\ blocks[height] \in OwnBlocks
  BY <1>4, <1>5 DEF Last
<1>7. TypeOK'
  BY <1>1, <1>2, <1>3, <1>5, <1>6 DEF Sound, TypeOK, UpstreamHeight, OwnBlocks
<1>8. UpstreamSound' /\ NothingBefore'
  BY <1>1, <1>2 DEF Sound, UpstreamSound, NothingBefore
<1>9. OwnSound'
  <2>1. blocks' # <<>>
    BY <1>5
  <2>2. ASSUME NEW i \in DOMAIN blocks' PROVE i \in DOMAIN blocks /\ blocks'[i] = blocks[i]
    BY <1>5
  <2>3. \A i \in DOMAIN blocks' :
          /\ blocks'[i].number = fork_block_number + i
          /\ \E k \in 0..mined - 1 : blocks'[i].hash = OwnHash(k)
          /\ blocks'[i].txs = IF i = 1 THEN <<>> ELSE <<blocks'[i].hash>>
    BY <1>1, <2>2 DEF Sound, OwnSound
  <2>4. \A i, j \in DOMAIN blocks' : blocks'[i].hash = blocks'[j].hash => i = j
    BY <1>1, <2>2 DEF Sound, OwnSound
  <2>5. \A i, j \in DOMAIN blocks' :
          i <= j =>
            /\ DOMAIN blocks'[i].root \subseteq DOMAIN blocks'[j].root \cup blocks'[j].destroyed
            /\ blocks'[i].destroyed \subseteq blocks'[j].destroyed
    BY <1>1, <2>2 DEF Sound, OwnSound
  <2>6. stateTrie' = Last.root'
    BY <1>3, <1>6
  <2>7. QED
    BY <1>2, <2>1, <2>3, <2>4, <2>5, <2>6 DEF OwnSound
<1>10. StorageUntilParted'
  <2>1. ASSUME ~parted' PROVE StorageOfLastBlock'
    <3>1. ~parted /\ blocks[height].slot = Last.slot
      BY <1>3, <2>1
    <3>2. QED
      BY <1>1, <1>2, <1>6, <3>1
      DEF ForkInv, StorageUntilParted, StorageOfLastBlock, UpstreamBlock
  <2>2. QED
    BY <2>1 DEF StorageUntilParted
<1>11. request' = Idle
  BY <1>1, <1>2
<1>12. QED
  BY <1>7, <1>8, <1>9, <1>10, <1>11, RestIsQuiet DEF ForkInv, Sound
-----------------------------------------------------------------------------
(* The invariant holds, whatever the other node and the clients do.         *)

LEMMA ForkStep == ForkInv /\ [Next]_vars => ForkInv'
<1> SUFFICES ASSUME ForkInv, [Next]_vars PROVE ForkInv'
  OBVIOUS
<1>1. CASE UpstreamMines
  BY <1>1, UpstreamMinesKeeps
<1>2. CASE CreateGenesisBlock
  BY <1>2, CreateKeeps
<1>3. CASE Question
  <2>1. MayAsk
    BY <1>3 DEF Question
  <2>2. CASE GetAccount
    BY <2>1, <2>2, GetAccountKeeps
  <2>3. CASE GetStorage
    BY <2>1, <2>3, GetStorageKeeps
  <2>4. CASE Transact \/ Call
    <3>1. PICK op \in {"transact", "call"}, tx \in OwnTxs \cup CallTxs : Execute(op, tx)
      BY <2>4 DEF Transact, Call
    <3>2. QED
      BY <2>1, <3>1, ExecuteKeeps
  <2>5. CASE Revert
    BY <2>1, <2>5, RevertKeeps
  <2>6. CASE GetBlock \/ GetBlockByHash \/ GetReceipt \/ GetLogs
    BY <2>1, <2>6, BlockQuestionKeeps
  <2>7. CASE GetEarliestBlock \/ NameABlockByAWord
    BY <2>1, <2>7, WordKeeps
  <2>8. QED
    BY <1>3, <2>2, <2>3, <2>4, <2>5, <2>6, <2>7 DEF Question
<1>4. CASE Serve
  <2>1. CASE FetchPart
    BY <2>1, FetchKeeps
  <2>2. CASE EndRead
    BY <2>2, EndReadKeeps
  <2>3. CASE EndTransact
    BY <2>3, TransactKeeps
  <2>4. CASE EndCall
    BY <2>4, TakenBackKeeps
  <2>5. CASE EndGetBlock
    BY <2>5, EndBlockKeeps
  <2>6. CASE EndGetBlockByHash
    BY <2>6, EndHashKeeps
  <2>7. CASE EndGetReceipt
    BY <2>7, EndReceiptKeeps
  <2>8. CASE NextLogs
    BY <2>8, NextLogsKeeps
  <2>9. CASE EndGetLogs
    BY <2>9, EndLogsKeeps
  <2>10. QED
    BY <1>4, <2>1, <2>2, <2>3, <2>4, <2>5, <2>6, <2>7, <2>8, <2>9 DEF Serve
<1>5. CASE Failure
  BY <1>5, FetchFailsKeeps, TakenBackKeeps, LogsRefusedKeeps DEF Failure
<1>6. CASE UNCHANGED vars
  <2>1. UNCHANGED <<upstream, node, request, answer, parted>>
    BY <1>6 DEF vars
  <2>2. Sound' /\ StopsOnlyWhenLost' /\ StorageUntilParted'
    BY <2>1
    DEF ForkInv, Sound, TypeOK, UpstreamSound, NothingBefore, OwnSound, AskedInTurn,
        node, UpstreamHeight, Last, StopsOnlyWhenLost, StorageUntilParted,
        StorageOfLastBlock, UpstreamBlock
  <2>3. RequestSound(request)'
    BY <2>1, SameRequestSound DEF ForkInv
  <2>4. QED
    BY <2>2, <2>3 DEF ForkInv
<1>7. QED
  BY <1>1, <1>2, <1>3, <1>4, <1>5, <1>6 DEF Next

LEMMA ForkInvHolds == Spec => []ForkInv
<1>1. Init => ForkInv
  BY InitKeeps
<1>2. ForkInv /\ [Next]_vars => ForkInv'
  BY ForkStep
<1>3. QED
  BY <1>1, <1>2, PTL DEF Spec

\* TypeOK: the variables keep their types; every block or part looked up, here or at
\* the other node, exists.
THEOREM TypeCorrect == Spec => []TypeOK
<1>1. ForkInv => TypeOK
  BY DEF ForkInv, Sound
<1>2. QED
  BY <1>1, ForkInvHolds, PTL

\* StopsOnlyWhenLost: a request is left without an answer only when the block is named
\* by a word the code does not take, when its hash is of no block there is now, or when
\* the other node refuses the logs of a block before the fork (getBlock,
\* getEffectiveBlockNumber, getFallbackBlock, getBlockLogs).
THEOREM StopsWhenLost == Spec => []StopsOnlyWhenLost
<1>1. ForkInv => StopsOnlyWhenLost
  BY DEF ForkInv
<1>2. QED
  BY <1>1, ForkInvHolds, PTL

\* StorageUntilParted: the cached storage trie is that of the latest block, for a
\* position written in full, until a store is taken back (by a revert, or at the end of
\* a call, a transaction that throws or one whose fetch fails), a 0 is stored where the
\* other node has none, or the contract is destroyed (createForkedStorageTrie,
\* ForkedStorageTrie.get, popBlock, processCall).
THEOREM StorageAgrees == Spec => []StorageUntilParted
<1>1. ForkInv => StorageUntilParted
  BY DEF ForkInv
<1>2. QED
  BY <1>1, ForkInvHolds, PTL
-----------------------------------------------------------------------------
(* One chain: Forking implements OneChain.                                  *)

TheFloor == IF fork_block_number = Unpinned THEN 0 ELSE fork_block_number + 2
Told == IF AboutTheChain THEN answer ELSE NoAnswer

ChainItem == [hash : Hash, txs : Seq(Hash), accounts : PartialTrie]

\* The chain the clients see, block by block.
LEMMA ChainItems ==
  ASSUME Sound, fork_block_number # Unpinned
  PROVE  /\ TheChain \in Seq(ChainItem) /\ Len(TheChain) = Height + 1
         /\ DOMAIN TheChain = 1..Height + 1 /\ Height \in Nat
         /\ \A n \in 0..Height :
              /\ n + 1 \in DOMAIN TheChain
              /\ TheChain[n + 1] = [hash |-> HashAt(n), txs |-> TxsAt(n),
                                    accounts |-> AccountsAt(n)]
              /\ TheChain[n + 1].hash = HashAt(n) /\ TheChain[n + 1].txs = TxsAt(n)
              /\ TheChain[n + 1].accounts = AccountsAt(n)
<1>1. /\ fork_block_number \in Nat /\ Len(blocks) \in Nat
      /\ Height = fork_block_number + Len(blocks)
  BY Numbers DEF Sound
<1>2. Height \in Nat /\ fork_block_number + 1 + Len(blocks) = Height + 1
  BY <1>1
<1> DEFINE Item(n) == [hash |-> HashAt(n), txs |-> TxsAt(n), accounts |-> AccountsAt(n)]
<1>3. TheChain = [k \in 1..Height + 1 |-> Item(k - 1)]
  BY <1>2 DEF TheChain, Seen, HashAt, TxsAt, AccountsAt
<1>4. \A n \in 0..Height : Item(n) \in ChainItem
  <2> SUFFICES ASSUME NEW n \in 0..Height PROVE Item(n) \in ChainItem
    OBVIOUS
  <2>1. /\ AccountsAt(n) \in [LeftAt(n) -> Value] /\ TxsAt(n) \in Seq(Hash)
        /\ HashAt(n) \in Hash
    BY ChainTypes DEF Sound
  <2>2. LeftAt(n) \subseteq Accounts
    BY DEF LeftAt
  <2>3. AccountsAt(n) \in PartialTrie
    BY <2>1, <2>2 DEF PartialTrie
  <2>4. QED
    BY <2>1, <2>3 DEF ChainItem
<1> HIDE DEF Item
<1>5. \A k \in 1..Height + 1 : Item(k - 1) \in ChainItem
  BY <1>2, <1>4
<1>6. TheChain \in [1..Height + 1 -> ChainItem]
  BY <1>3, <1>5
<1>7. TheChain \in Seq(ChainItem) /\ Len(TheChain) = Height + 1
  BY <1>2, <1>6
<1>8. \A n \in 0..Height : n + 1 \in 1..Height + 1 /\ (n + 1) - 1 = n
  BY <1>2
<1>9. \A n \in 0..Height : TheChain[n + 1] = Item(n)
  BY <1>3, <1>8
<1>10. DOMAIN TheChain = 1..Height + 1
  BY <1>6
<1>11. ASSUME NEW n \in 0..Height
       PROVE  /\ n + 1 \in DOMAIN TheChain /\ TheChain[n + 1] = Item(n)
              /\ Item(n).hash = HashAt(n) /\ Item(n).txs = TxsAt(n)
              /\ Item(n).accounts = AccountsAt(n)
  BY <1>8, <1>9, <1>10 DEF Item
<1>12. QED
  BY <1>2, <1>7, <1>10, <1>11 DEF Item

LEMMA PrefixIs ==
  ASSUME NEW S, NEW s \in Seq(S), NEW t \in Seq(S), Len(t) <= Len(s),
         \A i \in 1..Len(t) : t[i] = s[i]
  PROVE  SubSeq(s, 1, Len(t)) = t
<1> DEFINE u == SubSeq(s, 1, Len(t))
<1>1. u \in Seq(S) /\ Len(u) = Len(t) /\ \A i \in 1..Len(t) : u[i] = s[i]
  OBVIOUS
<1> HIDE DEF u
<1>2. u = t
  BY <1>1, SeqEqual
<1>3. QED
  BY <1>2 DEF u

LEMMA NoAnswerTold == answer = NoAnswer => Told = NoAnswer
  BY DEF Told

\* The next state keeps the answer, or forgets it.
LEMMA NothingNew ==
  ASSUME TheChain' = TheChain, TheFloor' = TheFloor, Told' = Told \/ Told' = NoAnswer
  PROVE  [One!Next]_(One!vars)
  BY DEF One!Next, One!Ask, One!vars, TheFloor, Told

LEMMA SomethingTold ==
  ASSUME TheChain' = TheChain, TheFloor' = TheFloor, Told' # NoAnswer, One!Correct(Told')
  PROVE  [One!Next]_(One!vars)
  BY DEF One!Next, One!Tell, One!vars, TheFloor, Told

LEMMA SameChain ==
  ASSUME UNCHANGED <<upstream, fork_block_number, blocks>>
  PROVE  TheChain' = TheChain /\ TheFloor' = TheFloor
         /\ \A hash : AfterTheFork(hash)' <=> AfterTheFork(hash)
  BY DEF TheChain, TheFloor, AfterTheFork, IsFallbackBlock, Seen, UpstreamBlock, OwnBlock,
         OwnState, RelativeBlockNumber, UpstreamHeight

\* What is forgotten, or is not about the chain.
LEMMA NothingToldStep ==
  ASSUME UNCHANGED <<upstream, fork_block_number, blocks>>,
         answer' = answer \/ answer' = NoAnswer \/ ~AboutTheChain'
  PROVE  [One!Next]_(One!vars)
<1>1. /\ TheChain' = TheChain /\ TheFloor' = TheFloor
      /\ \A hash : AfterTheFork(hash)' <=> AfterTheFork(hash)
  BY SameChain
<1>2. Told' = Told \/ Told' = NoAnswer
  <2>1. CASE answer' = answer
    <3>1. AboutTheChain' <=> AboutTheChain
      BY <1>1, <2>1 DEF AboutTheChain
    <3>2. QED
      BY <2>1, <3>1 DEF Told
  <2>2. CASE answer' = NoAnswer
    BY <2>2 DEF Told
  <2>3. CASE ~AboutTheChain'
    BY <2>3 DEF Told
  <2>4. QED
    BY <2>1, <2>2, <2>3
<1>3. QED
  BY <1>1, <1>2, NothingNew

\* A record is an answer: it is not the absence of one.
LEMMA IsAnAnswer == answer' \in Answers => answer' # NoAnswer
  BY NothingAssumption

LEMMA TellStep ==
  ASSUME UNCHANGED <<upstream, fork_block_number, blocks>>, answer' \in Answers,
         AboutTheChain' => One!Correct(answer')
  PROVE  [One!Next]_(One!vars)
<1>1. CASE AboutTheChain'
  <2>1. Told' = answer' /\ answer' # NoAnswer
    BY <1>1, IsAnAnswer DEF Told
  <2>2. One!Correct(Told')
    BY <1>1, <2>1
  <2>3. QED
    BY <2>1, <2>2, SameChain, SomethingTold
<1>2. CASE ~AboutTheChain'
  BY <1>2, NothingToldStep
<1>3. QED
  BY <1>1, <1>2

\* Each answer is of a block of the chain.
\* The state of the latest block is of the accounts that are left.
LEMMA LatestState ==
  ASSUME Sound, fork_block_number # Unpinned
  PROVE  /\ Height \in 0..Height /\ Height > fork_block_number
         /\ AccountsAt(Height) = OwnState(Len(blocks)) /\ stateTrie = Last.root
         /\ AccountsAt(Height) \in [Accounts \ Last.destroyed -> Value]
<1>1. /\ fork_block_number \in Nat /\ Len(blocks) \in Nat /\ Len(blocks) > 0
      /\ Height = fork_block_number + Len(blocks)
  BY Numbers DEF Sound
<1>2. Height \in 0..Height /\ Height > fork_block_number
  BY <1>1
<1>3. ~IsFallbackBlock(Height) /\ RelativeBlockNumber(Height) + 1 = Len(blocks)
  BY <1>1 DEF IsFallbackBlock, RelativeBlockNumber
<1>4. OwnBlock(Height) = Last
  BY <1>3 DEF OwnBlock, Last
<1>5. LeftAt(Height) = Accounts \ Last.destroyed
  BY <1>3, <1>4 DEF LeftAt
<1>6. AccountsAt(Height) \in [LeftAt(Height) -> Value]
  BY <1>2, ChainTypes DEF Sound
<1>7. QED
  BY <1>2, <1>3, <1>5, <1>6 DEF AccountsAt, Sound, OwnSound

LEMMA EndReadIsTell == ASSUME ForkInv, EndRead PROVE [One!Next]_(One!vars)
<1>1. /\ request # Idle /\ UNCHANGED <<upstream, node, parted>> /\ answer' \in Answers
      /\ answer'.op \in {"account", "storage"}
      /\ answer'.op = "account" =>
           /\ answer'.number \in 0..Height
           /\ Right(answer'.account, answer'.number) => \A p \in DOMAIN answer'.value :
                answer'.value[p] = AccountsAt(answer'.number)[answer'.account][p]
  BY EndReadTold
<1>2. UNCHANGED <<upstream, fork_block_number, blocks>>
  BY <1>1 DEF node
<1>3. Sound /\ fork_block_number # Unpinned
  BY <1>1, Serving
<1>4. ASSUME AboutTheChain' PROVE One!Correct(answer')
  <2>1. answer'.op = "account"
    BY <1>1, <1>4 DEF AboutTheChain
  <2>2. /\ answer'.number + 1 \in DOMAIN TheChain
        /\ TheChain[answer'.number + 1].accounts = AccountsAt(answer'.number)
    BY <1>1, <1>3, <2>1, ChainItems
  <2>3. DOMAIN TheChain[Len(TheChain)].accounts = Accounts \ Last.destroyed
    <3>1. /\ Height \in 0..Height
          /\ AccountsAt(Height) \in [Accounts \ Last.destroyed -> Value]
      BY <1>3, LatestState
    <3>2. Len(TheChain) = Height + 1 /\ TheChain[Height + 1].accounts = AccountsAt(Height)
      BY <1>3, <3>1, ChainItems
    <3>3. QED
      BY <3>1, <3>2
  <2>4. ASSUME One!Promised(answer'.account, answer'.number)
        PROVE  Right(answer'.account, answer'.number)
    <3>1. CASE answer'.number + 1 < fork_block_number + 2
      <4>1. answer'.number <= fork_block_number
        <5>1. answer'.number \in Int /\ fork_block_number \in Int
          BY <1>1, <1>3, <2>1, Numbers DEF Sound
        <5>2. QED
          BY <3>1, <5>1
      <4>2. QED
        BY <4>1 DEF Right, IsFallbackBlock
    <3>2. CASE answer'.account \in DOMAIN TheChain[Len(TheChain)].accounts
      BY <2>3, <3>2 DEF Right
    <3>3. QED
      BY <1>3, <2>4, <3>1, <3>2 DEF One!Promised
  <2>5. QED
    BY <1>1, <2>1, <2>2, <2>4 DEF One!Correct
<1>5. QED
  BY <1>1, <1>2, <1>4, TellStep

LEMMA EndBlockIsTell == ASSUME ForkInv, EndGetBlock PROVE [One!Next]_(One!vars)
<1>1. /\ request # Idle /\ UNCHANGED <<upstream, node, parted>> /\ answer' \in Answers
      /\ answer'.op = "block" /\ answer'.number \in 0..Height
      /\ answer'.value = HashAt(answer'.number)
  BY EndBlockTold
<1>2. UNCHANGED <<upstream, fork_block_number, blocks>>
  BY <1>1 DEF node
<1>3. Sound /\ fork_block_number # Unpinned
  BY <1>1, Serving
<1>4. /\ answer'.number + 1 \in DOMAIN TheChain
      /\ TheChain[answer'.number + 1].hash = HashAt(answer'.number)
  BY <1>1, <1>3, ChainItems
<1>5. One!Correct(answer')
  BY <1>1, <1>4 DEF One!Correct
<1>6. QED
  BY <1>1, <1>2, <1>5, TellStep

LEMMA EndLogsIsTell == ASSUME ForkInv, EndGetLogs PROVE [One!Next]_(One!vars)
<1>1. /\ request # Idle /\ UNCHANGED <<upstream, node, parted>> /\ answer' \in Answers
      /\ answer'.op = "logs"
      /\ answer'.number \in 0..Height /\ answer'.to \in 0..Height
      /\ answer'.value =
           [i \in 1..answer'.to - answer'.number + 1 |-> TxsAt(answer'.number + i - 1)]
  BY EndLogsTold
<1>2. UNCHANGED <<upstream, fork_block_number, blocks>>
  BY <1>1 DEF node
<1>3. Sound /\ fork_block_number # Unpinned
  BY <1>1, Serving
<1>4. /\ Height \in Nat
      /\ \A n \in 0..Height : TheChain[n + 1].txs = TxsAt(n)
  BY <1>3, ChainItems
<1>5. ASSUME NEW i \in 1..answer'.to - answer'.number + 1
      PROVE  TheChain[answer'.number + i].txs = TxsAt(answer'.number + i - 1)
  <2>1. /\ answer'.number + i - 1 \in 0..Height
        /\ (answer'.number + i - 1) + 1 = answer'.number + i
    BY <1>1, <1>4
  <2> DEFINE n == answer'.number + i - 1
  <2> HIDE DEF n
  <2>2. n \in 0..Height /\ n + 1 = answer'.number + i
    BY <2>1 DEF n
  <2>3. TheChain[answer'.number + i].txs = TxsAt(n)
    BY <1>4, <2>2
  <2>4. QED
    BY <2>3 DEF n
<1>6. answer'.value = [i \in 1..answer'.to - answer'.number + 1 |->
                         TheChain[answer'.number + i].txs]
  BY <1>1, <1>5
<1>7. One!Correct(answer')
  BY <1>1, <1>6 DEF One!Correct
<1>8. QED
  BY <1>1, <1>2, <1>7, TellStep

LEMMA EndReceiptIsTell == ASSUME ForkInv, EndGetReceipt PROVE [One!Next]_(One!vars)
<1>1. /\ request # Idle /\ UNCHANGED <<upstream, node, parted>>
      /\ \/ answer' = NoAnswer
         \/ /\ answer' \in Answers /\ answer'.op = "receipt"
            /\ ~AfterTheFork(answer'.hash) =>
                 \/ \E n \in 0..Height :
                      /\ answer'.value = HashAt(n)
                      /\ \E i \in DOMAIN TxsAt(n) : TxsAt(n)[i] = answer'.hash
                 \/ /\ answer'.value = NoBlock
                    /\ \A n \in 0..Height : \A i \in DOMAIN TxsAt(n) :
                         TxsAt(n)[i] # answer'.hash
  BY EndReceiptTold
<1>2. UNCHANGED <<upstream, fork_block_number, blocks>>
  BY <1>1 DEF node
<1>3. Sound /\ fork_block_number # Unpinned
  BY <1>1, Serving
<1>4. /\ Height \in Nat /\ DOMAIN TheChain = 1..Height + 1
      /\ \A n \in 0..Height : TheChain[n + 1].hash = HashAt(n)
                              /\ TheChain[n + 1].txs = TxsAt(n)
  BY <1>3, ChainItems
<1>5. CASE answer' = NoAnswer
  BY <1>2, <1>5, NothingToldStep
<1>6. CASE answer' # NoAnswer
  <2>1. ASSUME AboutTheChain' PROVE One!Correct(answer')
    <3>1. answer'.op = "receipt"
      BY <1>1, <1>6
    <3>2. ~AfterTheFork(answer'.hash)
      BY <1>2, <2>1, <3>1, SameChain DEF AboutTheChain
    <3>3. CASE \E n \in 0..Height :
                 /\ answer'.value = HashAt(n)
                 /\ \E i \in DOMAIN TxsAt(n) : TxsAt(n)[i] = answer'.hash
      <4>1. PICK n \in 0..Height :
              /\ answer'.value = HashAt(n)
              /\ \E i \in DOMAIN TxsAt(n) : TxsAt(n)[i] = answer'.hash
        BY <3>3
      <4>2. n + 1 \in DOMAIN TheChain
        BY <1>4
      <4>3. \E k \in DOMAIN TheChain :
              /\ answer'.value = TheChain[k].hash
              /\ \E i \in DOMAIN TheChain[k].txs : TheChain[k].txs[i] = answer'.hash
        BY <1>4, <4>1, <4>2
      <4>4. QED
        BY <3>1, <4>3 DEF One!Correct
    <3>4. CASE /\ answer'.value = NoBlock
               /\ \A n \in 0..Height : \A i \in DOMAIN TxsAt(n) :
                    TxsAt(n)[i] # answer'.hash
      <4>1. ASSUME NEW k \in DOMAIN TheChain, NEW i \in DOMAIN TheChain[k].txs
            PROVE  TheChain[k].txs[i] # answer'.hash
        <5>1. k - 1 \in 0..Height /\ (k - 1) + 1 = k
          BY <1>4
        <5>2. TheChain[k].txs = TxsAt(k - 1)
          BY <1>4, <5>1
        <5>3. QED
          BY <3>4, <4>1, <5>1, <5>2
      <4>2. QED
        BY <3>1, <3>4, <4>1 DEF One!Correct
    <3>5. QED
      BY <1>1, <1>6, <3>2, <3>3, <3>4
  <2>2. QED
    BY <1>1, <1>2, <1>6, <2>1, TellStep
<1>7. QED
  BY <1>5, <1>6

\* A block that is found is the node's own, or one the other node had before the fork.
LEMMA EndHashIsTell == ASSUME ForkInv, EndGetBlockByHash PROVE [One!Next]_(One!vars)
<1>1. request.op = "hash"
  BY DEF EndGetBlockByHash
<1>2. /\ request # Idle /\ Sound /\ fork_block_number # Unpinned /\ answer = NoAnswer
      /\ request.hash \in Hashes /\ request.hash \in Hash
  BY <1>1, HashRequest
<1>3. UNCHANGED <<upstream, fork_block_number, blocks>>
  BY DEF EndGetBlockByHash, node
<1>4. CASE OwnIndexOfHash(request.hash) \cup UpstreamIndexOfHash(request.hash) = {}
  <2>1. answer' = answer
    BY <1>4 DEF EndGetBlockByHash
  <2>2. QED
    BY <1>3, <2>1, NothingToldStep
<1>5. CASE OwnIndexOfHash(request.hash) \cup UpstreamIndexOfHash(request.hash) # {}
  <2> DEFINE hash == request.hash
  <2>1. answer' = [op |-> "hash", hash |-> hash, value |-> hash]
    BY <1>5 DEF EndGetBlockByHash, Tell
  <2>2. answer' \in Answers
    BY <1>2, <2>1 DEF Answers
  <2>3. /\ Height \in Nat /\ DOMAIN TheChain = 1..Height + 1
        /\ \A n \in 0..Height : TheChain[n + 1].hash = HashAt(n)
    BY <1>2, ChainItems
  <2>4. ASSUME AboutTheChain' PROVE One!Known(hash)
    <3>1. ~AfterTheFork(hash)
      BY <1>3, <2>1, <2>4, SameChain DEF AboutTheChain
    <3>2. \E n \in 0..Height : HashAt(n) = hash
      <4>1. CASE OwnIndexOfHash(hash) # {}
        <5>1. PICK i \in DOMAIN blocks : blocks[i].hash = hash
          BY <4>1 DEF OwnIndexOfHash
        <5>2. QED
          BY <1>2, <5>1, OwnNumber
      <4>2. CASE UpstreamIndexOfHash(hash) # {}
        <5>1. PICK i \in DOMAIN upstream : upstream[i].hash = hash
          BY <4>2 DEF UpstreamIndexOfHash
        <5>2. i \in 1..Len(upstream) /\ Len(upstream) \in Nat /\ hash = UpstreamHash(i - 1)
          <6>1. upstream[i].hash = UpstreamHash(i - 1)
            BY <1>2, <5>1 DEF Sound, UpstreamSound
          <6>2. QED
            BY <1>2, <5>1, <6>1 DEF Sound, TypeOK
        <5>3. fork_block_number \in Nat /\ fork_block_number <= Height
          BY <1>2, Numbers DEF Sound
        <5>4. i - 1 \in 0..UpstreamHeight
          BY <5>2 DEF UpstreamHeight
        <5>5. i - 1 <= fork_block_number
          BY <3>1, <5>2, <5>3, <5>4 DEF AfterTheFork, UpstreamHeight
        <5>6. i - 1 \in 0..Height
          BY <2>3, <5>3, <5>4, <5>5
        <5>7. HashAt(i - 1) = UpstreamHash(i - 1)
          BY <1>2, <5>5, <5>6, FallbackBlock DEF Sound, HashAt
        <5>8. QED
          BY <5>2, <5>6, <5>7
      <4>3. QED
        BY <1>5, <4>1, <4>2
    <3>3. PICK n \in 0..Height : HashAt(n) = hash
      BY <3>2
    <3>4. n + 1 \in DOMAIN TheChain /\ TheChain[n + 1].hash = hash
      BY <2>3, <3>3
    <3>5. QED
      BY <3>4 DEF One!Known
  <2>5. AboutTheChain' => One!Correct(answer')
    BY <2>1, <2>4 DEF One!Correct
  <2>6. QED
    BY <1>3, <2>2, <2>5, TellStep
<1>6. QED
  BY <1>4, <1>5
-----------------------------------------------------------------------------
(* The steps that make or change the chain.                                 *)

LEMMA InitIsInit == Init => One!Init
<1> SUFFICES ASSUME Init PROVE One!Init
  OBVIOUS
<1>1. TheChain = <<>>
  BY DEF Init, TheChain
<1>2. ~AboutTheChain
  BY DEF Init, AboutTheChain
<1>3. QED
  BY <1>1, <1>2 DEF Init, One!Init

\* Whatever the other node mines, the chain is the same; an answer can only stop
\* being one about it.
LEMMA UpstreamMinesIsNothing ==
  ASSUME ForkInv, UpstreamMines PROVE [One!Next]_(One!vars)
<1>1. Sound
  BY DEF ForkInv
<1>2. /\ Len(upstream') = Len(upstream) + 1
      /\ UNCHANGED <<node, request, answer, parted>>
  BY <1>1, UpstreamGrows
<1>3. fork_block_number' = fork_block_number /\ answer' = answer
  BY <1>2 DEF node
<1>4. TheFloor' = TheFloor
  BY <1>3 DEF TheFloor
<1>5. TheChain' = TheChain
  <2>1. CASE fork_block_number = Unpinned
    BY <1>3, <2>1 DEF TheChain
  <2>2. CASE fork_block_number # Unpinned
    BY <1>1, <2>2, ChainStays
  <2>3. QED
    BY <2>1, <2>2
<1>6. Told' = Told \/ Told' = NoAnswer
  <2>1. Len(upstream) \in Nat /\ fork_block_number \in Int
    BY <1>1 DEF Sound, TypeOK, Unpinned
  <2>2. \A hash : AfterTheFork(hash) => AfterTheFork(hash)'
    BY <1>2, <1>3, <2>1 DEF AfterTheFork, UpstreamHeight
  <2>3. AboutTheChain' => AboutTheChain
    BY <1>3, <2>2 DEF AboutTheChain
  <2>4. QED
    BY <1>3, <2>3 DEF Told
<1>7. QED
  BY <1>4, <1>5, <1>6, NothingNew

\* The chain in the next state.
Items ==
  /\ TheChain \in Seq(ChainItem) /\ Len(TheChain) = Height + 1
  /\ DOMAIN TheChain = 1..Height + 1 /\ Height \in Nat
  /\ \A n \in 0..Height :
       TheChain[n + 1] = [hash |-> HashAt(n), txs |-> TxsAt(n), accounts |-> AccountsAt(n)]

LEMMA ChainItemsNext == (Sound /\ fork_block_number # Unpinned)' => Items'
<1>1. Sound /\ fork_block_number # Unpinned => Items
  BY ChainItems DEF Items
<1>2. QED
  BY <1>1, PTL

LEMMA CreateIsOpen == ASSUME ForkInv, CreateGenesisBlock PROVE One!Next
<1>1. /\ ForkInv' /\ fork_block_number' \in 0..UpstreamHeight /\ Len(blocks') = 1
      /\ upstream' = upstream /\ answer' = NoAnswer
  BY CreateKeeps
<1>2. fork_block_number = Unpinned
  BY DEF CreateGenesisBlock
<1>3. TheChain = <<>>
  BY <1>2 DEF TheChain
<1>4. UpstreamHeight \in Int
  BY DEF ForkInv, Sound, TypeOK, UpstreamHeight
<1>5. fork_block_number' \in Nat /\ fork_block_number' # Unpinned
  BY <1>1, <1>4 DEF Unpinned
<1>6. Items'
  BY <1>1, <1>5, ChainItemsNext DEF ForkInv
<1>7. Height' = fork_block_number' + 1
  <2>1. 1 \in DOMAIN blocks'
    <3>1. blocks' \in Seq(OwnBlocks)
      BY <1>1 DEF ForkInv, Sound, TypeOK
    <3>2. QED
      BY <1>1, <3>1
  <2>2. blocks'[1].number = fork_block_number' + 1
    BY <1>1, <1>5, <2>1 DEF ForkInv, Sound, OwnSound
  <2>3. QED
    BY <1>1, <2>2 DEF Height, Last
<1>8. Len(TheChain') = fork_block_number' + 2 /\ TheChain' # <<>>
  BY <1>5, <1>6, <1>7 DEF Items
<1>9. ~AboutTheChain'
  BY <1>1 DEF AboutTheChain
<1>10. One!Open
  BY <1>3, <1>5, <1>8, <1>9 DEF One!Open
<1>11. QED
  BY <1>10 DEF One!Next

\* The block of a transaction is the one new item: its hash is new, and it is executed
\* on the state of the block before it, whichever node that state is kept by.
LEMMA TransactIsMine == ASSUME ForkInv, EndTransact PROVE One!Next
<1> DEFINE m == Len(blocks)
           H == Height
           a == request.account
<1>1. /\ Sound /\ fork_block_number # Unpinned /\ answer = NoAnswer /\ a \in Accounts
      /\ UNCHANGED <<upstream, fork_block_number, answer>> /\ mined' = mined + 1
      /\ Len(blocks') = m + 1 /\ blocks' \in Seq(OwnBlocks)
      /\ \A i \in 1..m : blocks'[i] = blocks[i]
      /\ blocks'[m + 1].hash = OwnHash(mined)
      /\ blocks'[m + 1].txs = <<OwnHash(mined)>>
      /\ blocks'[m + 1].number = H + 1
      /\ blocks'[m + 1].root = RootAfter(request)
      /\ blocks'[m + 1].destroyed = Last.destroyed \cup
           (IF request.effect = "destroys" THEN {a} ELSE {})
  BY BlockMade
<1>2. /\ fork_block_number \in Nat /\ m \in Nat /\ m > 0 /\ H = fork_block_number + m
      /\ Last = blocks[m] /\ mined \in Nat /\ DOMAIN blocks = 1..m
  BY <1>1, Numbers DEF Sound, TypeOK
<1>3. Items
  BY <1>1, ChainItems DEF Items
<1>4. Items'
  <2>1. Sound'
    BY TransactKeeps DEF ForkInv
  <2>2. QED
    BY <1>1, <2>1, ChainItemsNext
<1>5. Height' = H + 1
  BY <1>1 DEF Height, Last
<1>6. \A n \in Int : /\ IsFallbackBlock(n)' <=> IsFallbackBlock(n)
                     /\ UpstreamBlock(n)' = UpstreamBlock(n)
                     /\ RelativeBlockNumber(n)' = RelativeBlockNumber(n)
  BY <1>1 DEF IsFallbackBlock, UpstreamBlock, RelativeBlockNumber
<1>7. ASSUME NEW n \in 0..H
      PROVE  /\ HashAt(n)' = HashAt(n) /\ TxsAt(n)' = TxsAt(n)
             /\ AccountsAt(n)' = AccountsAt(n)
  <2>1. n \in Int
    BY <1>2
  <2>2. CASE n <= fork_block_number
    <3>1. IsFallbackBlock(n)
      BY <2>2 DEF IsFallbackBlock
    <3>2. QED
      BY <1>6, <2>1, <3>1 DEF HashAt, TxsAt, AccountsAt
  <2>3. CASE n > fork_block_number
    <3>1. ~IsFallbackBlock(n) /\ RelativeBlockNumber(n) + 1 \in 1..m
      BY <1>2, <2>1, <2>3 DEF IsFallbackBlock, RelativeBlockNumber
    <3>2. OwnBlock(n)' = OwnBlock(n)
      BY <1>1, <1>6, <2>1, <3>1 DEF OwnBlock
    <3>3. OwnState(RelativeBlockNumber(n) + 1)' = OwnState(RelativeBlockNumber(n) + 1)
      BY <1>1, <1>2, <1>6, <2>1, <3>1 DEF OwnState
    <3>4. QED
      BY <1>6, <2>1, <3>1, <3>2, <3>3 DEF HashAt, TxsAt, AccountsAt
  <2>4. QED
    BY <1>2, <2>1, <2>2, <2>3
<1>8. \A i \in 1..Len(TheChain) : TheChain[i] = TheChain'[i]
  <2>1. SUFFICES ASSUME NEW i \in 1..Len(TheChain) PROVE TheChain[i] = TheChain'[i]
    OBVIOUS
  <2>2. i - 1 \in 0..H /\ i - 1 \in 0..Height' /\ (i - 1) + 1 = i
    BY <1>3, <1>5 DEF Items
  <2>3. /\ TheChain[(i - 1) + 1] = [hash |-> HashAt(i - 1), txs |-> TxsAt(i - 1),
                                    accounts |-> AccountsAt(i - 1)]
        /\ TheChain'[(i - 1) + 1] = [hash |-> HashAt(i - 1)', txs |-> TxsAt(i - 1)',
                                     accounts |-> AccountsAt(i - 1)']
    BY <1>3, <1>4, <2>2 DEF Items
  <2>4. QED
    BY <1>7, <2>2, <2>3
<1>9. SubSeq(TheChain', 1, Len(TheChain)) = TheChain
  <2>1. /\ TheChain \in Seq(ChainItem) /\ TheChain' \in Seq(ChainItem)
        /\ Len(TheChain) <= Len(TheChain')
    BY <1>3, <1>4, <1>5 DEF Items
  <2>2. QED
    BY <1>8, <2>1, PrefixIs
<1>10. /\ Len(TheChain') = Len(TheChain) + 1 /\ Len(TheChain') = H + 2
       /\ Len(TheChain) = H + 1 /\ TheChain # <<>>
  BY <1>3, <1>4, <1>5 DEF Items
<1>11. PICK h \in Nat, k \in Nat : h = H + 1 /\ k = m + 1
  BY <1>2
<1>12. /\ H \in 0..H
       /\ \A n \in 0..H : TheChain[n + 1].hash = HashAt(n)
                         /\ TheChain[n + 1].accounts = AccountsAt(n)
  <2>1. H \in Nat /\ H \in 0..H
    BY <1>2
  <2>2. \A n \in 0..H : TheChain[n + 1].hash = HashAt(n)
                         /\ TheChain[n + 1].accounts = AccountsAt(n)
    BY <1>1, ChainItems
  <2>3. QED
    BY <2>1, <2>2
<1>13. /\ TheChain'[h + 1].hash = OwnHash(mined)
       /\ TheChain'[h + 1].txs = <<OwnHash(mined)>>
       /\ TheChain'[h + 1].accounts = OwnState(k)'
  <2>1. ~IsFallbackBlock(h) /\ RelativeBlockNumber(h) + 1 = k
    BY <1>2, <1>11 DEF IsFallbackBlock, RelativeBlockNumber
  <2>2. ~IsFallbackBlock(h)' /\ OwnBlock(h)' = blocks'[m + 1]
    BY <1>6, <1>11, <2>1 DEF OwnBlock
  <2>3. h \in 0..Height'
    BY <1>5, <1>11
  <2>4. TheChain'[h + 1] = [hash |-> HashAt(h)', txs |-> TxsAt(h)',
                            accounts |-> AccountsAt(h)']
    BY <1>4, <2>3 DEF Items
  <2>5. HashAt(h)' = OwnHash(mined) /\ TxsAt(h)' = <<OwnHash(mined)>>
    BY <1>1, <2>2 DEF HashAt, TxsAt
  <2>6. AccountsAt(h)' = OwnState(k)'
    BY <1>6, <2>1, <2>2 DEF AccountsAt
  <2>7. QED
    BY <2>1, <2>4, <2>5, <2>6
<1> DEFINE state == TheChain[Len(TheChain)].accounts
<1>14. /\ state = AccountsAt(H) /\ AccountsAt(H) = OwnState(m) /\ stateTrie = Last.root
       /\ state \in [Accounts \ Last.destroyed -> Value]
  <2>1. TheChain[H + 1].accounts = AccountsAt(H) /\ Len(TheChain) = H + 1
    BY <1>10, <1>12
  <2>2. QED
    BY <1>1, <2>1, LatestState
<1> HIDE DEF state
<1> DEFINE new == [p \in Parts |-> request.got[p] + 1]
           own == RootAfter(request)
           below == UpstreamBlock(fork_block_number).accounts
<1>15. /\ state = [b \in Accounts \ Last.destroyed |->
                    IF b \in DOMAIN stateTrie THEN stateTrie[b] ELSE below[b]]
       /\ OwnState(k)' =
            [b \in Accounts \ (Last.destroyed \cup
                                (IF request.effect = "destroys" THEN {a} ELSE {})) |->
               IF b \in DOMAIN own THEN own[b] ELSE below[b]]
  <2>1. state = [b \in Accounts \ Last.destroyed |->
                   IF b \in DOMAIN stateTrie THEN stateTrie[b] ELSE below[b]]
    BY <1>2, <1>14 DEF OwnState
  <2>2. blocks'[k].root = own /\ fork_block_number' = fork_block_number
        /\ upstream' = upstream /\ k = m + 1
    BY <1>1, <1>11
  <2> HIDE DEF own
  <2>3. QED
    BY <1>1, <2>1, <2>2 DEF OwnState, UpstreamBlock
<1>16. \/ \E b \in DOMAIN state :
             \/ OwnState(k)' = [state EXCEPT ![b] = [p \in DOMAIN @ |-> @[p] + 1]]
             \/ OwnState(k)' = [c \in DOMAIN state \ {b} |-> state[c]]
       \/ OwnState(k)' = state
  <2>1. DOMAIN state = Accounts \ Last.destroyed
    BY <1>14
  <2>2. CASE request.effect = "destroys"
    <3>1. own = [b \in DOMAIN stateTrie \ {a} |-> stateTrie[b]]
      BY <2>2 DEF RootAfter
    <3> HIDE DEF own, below
    <3>2. OwnState(k)' = [c \in DOMAIN state \ {a} |-> state[c]]
      <4>1. \A b \in DOMAIN state \ {a} :
              (IF b \in DOMAIN own THEN own[b] ELSE below[b]) = state[b]
        BY <1>15, <2>1, <3>1
      <4>2. OwnState(k)' = [b \in DOMAIN state \ {a} |->
                              IF b \in DOMAIN own THEN own[b] ELSE below[b]]
        BY <1>15, <2>1, <2>2
      <4>3. QED
        BY <4>1, <4>2
    <3>3. CASE a \in DOMAIN state
      BY <3>2, <3>3
    <3>4. CASE a \notin DOMAIN state
      <4>1. state = [c \in DOMAIN state |-> state[c]]
        BY <1>14
      <4>2. DOMAIN state \ {a} = DOMAIN state
        BY <3>4
      <4>3. QED
        BY <3>2, <4>1, <4>2
    <3>5. QED
      BY <3>3, <3>4
  <2>3. CASE request.effect # "destroys"
    <3>1. own = [b \in DOMAIN stateTrie \cup {a} |-> IF b = a THEN new ELSE stateTrie[b]]
      BY <2>3 DEF RootAfter
    <3> HIDE DEF own, below, new
    <3>2. \A b \in DOMAIN state : (IF b \in DOMAIN own THEN own[b] ELSE below[b]) =
                                  (IF b = a THEN new ELSE state[b])
      BY <1>15, <2>1, <3>1
    <3>3. OwnState(k)' = [b \in DOMAIN state |-> IF b = a THEN new ELSE state[b]]
      BY <1>15, <2>1, <2>3, <3>2
    <3>4. state = [b \in DOMAIN state |-> state[b]]
      BY <1>14
    <3>5. CASE a \in DOMAIN state
      <4>1. \A p \in Parts : request.got[p] = state[a][p]
        BY <1>14, <2>1, <3>5, TransactGot DEF EndTransact
      <4>2. DOMAIN state[a] = Parts
        BY <1>14, <2>1, <3>5 DEF Value
      <4>3. new = [p \in DOMAIN state[a] |-> state[a][p] + 1]
        BY <4>1, <4>2 DEF new
      <4>4. [state EXCEPT ![a] = [p \in DOMAIN @ |-> @[p] + 1]] =
              [b \in DOMAIN state |-> IF b = a THEN new ELSE state[b]]
        BY <3>4, <3>5, <4>3
      <4>5. QED
        BY <3>3, <3>5, <4>4
    <3>6. CASE a \notin DOMAIN state
      BY <3>3, <3>4, <3>6
    <3>7. QED
      BY <3>5, <3>6
  <2>4. QED
    BY <2>2, <2>3
<1>17. \A i \in DOMAIN TheChain : TheChain[i].hash # OwnHash(mined)
  <2>1. SUFFICES ASSUME NEW i \in DOMAIN TheChain PROVE TheChain[i].hash # OwnHash(mined)
    OBVIOUS
  <2> DEFINE n == i - 1
  <2>2. n \in 0..H /\ n + 1 = i /\ n \in Int
    BY <1>3 DEF Items
  <2>3. TheChain[i].hash = HashAt(n)
    BY <1>12, <2>2
  <2> HIDE DEF n
  <2>4. CASE n <= fork_block_number
    <3>1. HashAt(n) = UpstreamHash(n)
      BY <1>1, <2>2, <2>4, FallbackBlock DEF HashAt, Sound
    <3>2. QED
      BY <2>3, <3>1 DEF UpstreamHash, OwnHash
  <2>5. CASE n > fork_block_number
    <3>1. /\ HashAt(n) = OwnBlock(n).hash /\ n - fork_block_number \in DOMAIN blocks
          /\ OwnBlock(n) = blocks[n - fork_block_number]
      BY <1>1, <2>2, <2>5, OwnBlockAt DEF HashAt, Sound
    <3>2. PICK j \in 0..mined - 1 : HashAt(n) = OwnHash(j)
      <4>1. \A l \in DOMAIN blocks : \E j \in 0..mined - 1 : blocks[l].hash = OwnHash(j)
        BY <1>1 DEF Sound, OwnSound
      <4>2. QED
        BY <3>1, <4>1
    <3>3. QED
      BY <1>2, <2>3, <3>2 DEF OwnHash
  <2>6. QED
    BY <1>2, <2>2, <2>4, <2>5
<1>18. TheFloor' = TheFloor /\ Told = NoAnswer /\ Told' = NoAnswer
  BY <1>1 DEF TheFloor, Told, AboutTheChain
<1>19. One!Mine
  <2> DEFINE block == TheChain'[Len(TheChain')]
  <2>1. block = TheChain'[h + 1]
    BY <1>10, <1>11
  <2> HIDE DEF block
  <2>2. /\ block.hash = OwnHash(mined) /\ block.txs = <<block.hash>>
        /\ block.accounts = OwnState(k)'
    BY <1>13, <2>1
  <2>3. \/ \E b \in DOMAIN state :
              \/ block.accounts = [state EXCEPT ![b] = [p \in DOMAIN @ |-> @[p] + 1]]
              \/ block.accounts = [c \in DOMAIN state \ {b} |-> state[c]]
        \/ block.accounts = state
    BY <1>16, <2>2
  <2>4. \A i \in DOMAIN TheChain : TheChain[i].hash # block.hash
    BY <1>17, <2>2
  <2>5. UNCHANGED <<TheFloor, Told>>
    BY <1>18
  <2>6. /\ TheChain # <<>> /\ Len(TheChain') = Len(TheChain) + 1
        /\ SubSeq(TheChain', 1, Len(TheChain)) = TheChain
        /\ \A i \in DOMAIN TheChain : TheChain[i].hash # block.hash
        /\ block.txs = <<block.hash>>
    BY <1>9, <1>10, <2>2, <2>4
  <2>7. QED
    BY <2>3, <2>5, <2>6 DEF One!Mine, TheFloor, Told, block, state
<1>20. QED
  BY <1>19 DEF One!Next

\* A revert takes back own blocks, never the genesis block.
LEMMA RevertIsRevert == ASSUME ForkInv, MayAsk, Revert PROVE One!Next
<1>1. Sound /\ fork_block_number # Unpinned
  BY DEF ForkInv, MayAsk
<1>2. answer' = NoAnswer /\ UNCHANGED <<upstream, fork_block_number>>
  BY DEF Revert
<1>3. PICK height \in 1..Len(blocks) - 1 : blocks' = SubSeq(blocks, 1, height)
  BY DEF Revert
<1>4. /\ fork_block_number \in Nat /\ Len(blocks) \in Nat
      /\ Height = fork_block_number + Len(blocks)
  BY <1>1, Numbers DEF Sound
<1>5. /\ Len(blocks') = height /\ \A i \in 1..height : blocks'[i] = blocks[i]
      /\ height \in DOMAIN blocks /\ height > 0 /\ height < Len(blocks)
  BY <1>1, <1>3, <1>4 DEF Sound, TypeOK
<1>6. Height' = fork_block_number + height
  <2>1. blocks[height].number = fork_block_number + height
    BY <1>1, <1>5 DEF Sound, OwnSound
  <2>2. blocks'[Len(blocks')] = blocks[height]
    BY <1>5
  <2>3. QED
    BY <2>1, <2>2 DEF Height, Last
<1>7. Items /\ Items'
  <2>1. Items
    BY <1>1, ChainItems DEF Items
  <2>2. Sound'
    BY RevertKeeps DEF ForkInv
  <2>3. QED
    BY <1>1, <1>2, <2>1, <2>2, ChainItemsNext
<1>8. PICK top \in Nat : top = fork_block_number + 1 + height
  BY <1>4, <1>5
<1>9. /\ Len(TheChain') = top /\ top < Len(TheChain) /\ top >= TheFloor
      /\ Len(TheChain) \in Nat /\ TheFloor \in Nat
  BY <1>1, <1>4, <1>5, <1>6, <1>7, <1>8 DEF Items, TheFloor
<1>10. ASSUME NEW n \in 0..top - 1
       PROVE  /\ HashAt(n)' = HashAt(n) /\ TxsAt(n)' = TxsAt(n)
              /\ AccountsAt(n)' = AccountsAt(n)
  <2>1. /\ n \in Int /\ (IsFallbackBlock(n)' <=> IsFallbackBlock(n))
        /\ UpstreamBlock(n)' = UpstreamBlock(n)
        /\ RelativeBlockNumber(n)' = RelativeBlockNumber(n)
    BY <1>2, <1>8 DEF IsFallbackBlock, UpstreamBlock, RelativeBlockNumber
  <2>2. CASE n <= fork_block_number
    <3>1. IsFallbackBlock(n)
      BY <2>2 DEF IsFallbackBlock
    <3>2. QED
      BY <2>1, <3>1 DEF HashAt, TxsAt, AccountsAt
  <2>3. CASE n > fork_block_number
    <3>1. PICK k \in 1..height : k = RelativeBlockNumber(n) + 1
      BY <1>4, <1>8, <2>1, <2>3 DEF RelativeBlockNumber
    <3>2. ~IsFallbackBlock(n)
      BY <1>4, <2>1, <2>3 DEF IsFallbackBlock
    <3>3. OwnBlock(n)' = OwnBlock(n) /\ OwnState(k)' = OwnState(k)
      BY <1>2, <1>5, <2>1, <3>1 DEF OwnBlock, OwnState, UpstreamBlock
    <3>4. QED
      BY <2>1, <3>1, <3>2, <3>3 DEF HashAt, TxsAt, AccountsAt
  <2>4. QED
    BY <1>4, <2>1, <2>2, <2>3
<1>11. \A i \in 1..Len(TheChain') : TheChain'[i] = TheChain[i]
  <2>1. SUFFICES ASSUME NEW i \in 1..Len(TheChain') PROVE TheChain'[i] = TheChain[i]
    OBVIOUS
  <2>2. PICK n \in 0..top - 1 : i = n + 1
    <3>1. i - 1 \in 0..top - 1 /\ i = (i - 1) + 1
      BY <1>9
    <3>2. QED
      BY <3>1
  <2>3. n \in 0..Height /\ n \in 0..Height'
    BY <1>7, <1>9, <2>2 DEF Items
  <2>4. /\ TheChain[n + 1] = [hash |-> HashAt(n), txs |-> TxsAt(n),
                              accounts |-> AccountsAt(n)]
        /\ TheChain'[n + 1] = [hash |-> HashAt(n)', txs |-> TxsAt(n)',
                               accounts |-> AccountsAt(n)']
    BY <1>7, <2>3 DEF Items
  <2>5. QED
    BY <1>10, <2>2, <2>4
<1>12. TheChain' = SubSeq(TheChain, 1, top)
  <2>1. TheChain \in Seq(ChainItem) /\ TheChain' \in Seq(ChainItem)
    BY <1>7 DEF Items
  <2>2. Len(TheChain') <= Len(TheChain)
    BY <1>9
  <2>3. SubSeq(TheChain, 1, Len(TheChain')) = TheChain'
    BY <1>11, <2>1, <2>2, PrefixIs
  <2>4. QED
    BY <1>9, <2>3
<1>13. TheFloor' = TheFloor /\ Told' = NoAnswer
  BY <1>2 DEF TheFloor, Told, AboutTheChain
<1>14. top \in TheFloor..Len(TheChain)
  BY <1>9
<1>15. One!Revert
  BY <1>12, <1>13, <1>14 DEF One!Revert, TheFloor, Told
<1>16. QED
  BY <1>15 DEF One!Next
-----------------------------------------------------------------------------
(* Every step is one of the chain's, or changes nothing of it.              *)

\* What is asked, fetched or dropped leaves the chain alone and tells nothing.
LEMMA QuietStep ==
  ASSUME ForkInv, \/ MayAsk /\ Question /\ ~Revert
                  \/ FetchPart \/ NextLogs \/ EndCall \/ Failure
  PROVE  [One!Next]_(One!vars)
<1>1. /\ UNCHANGED <<upstream, fork_block_number, blocks>>
      /\ answer' = answer \/ answer' = NoAnswer
  <2>1. CASE MayAsk /\ Question /\ ~Revert
    BY <2>1
    DEF Question, GetAccount, GetStorage, Transact, Call, Execute, GetBlock,
        GetEarliestBlock, NameABlockByAWord, GetBlockByHash, GetReceipt, GetLogs, Ask, node
  <2>2. CASE FetchPart \/ NextLogs \/ FetchFails \/ LogsRefused
    BY <2>2 DEF FetchPart, NextLogs, FetchFails, LogsRefused, node
  <2>3. CASE EndCall \/ ExecutionFails
    BY <2>3, TakenBackKeeps
  <2>4. QED
    BY <2>1, <2>2, <2>3 DEF Failure
<1>2. QED
  BY <1>1, NothingToldStep

LEMMA OneStep == ForkInv /\ [Next]_vars => [One!Next]_(One!vars)
<1> SUFFICES ASSUME ForkInv, [Next]_vars PROVE [One!Next]_(One!vars)
  OBVIOUS
<1>1. CASE UpstreamMines
  BY <1>1, UpstreamMinesIsNothing
<1>2. CASE CreateGenesisBlock
  BY <1>2, CreateIsOpen
<1>3. CASE Question
  <2>1. MayAsk
    BY <1>3 DEF Question
  <2>2. CASE Revert
    BY <2>1, <2>2, RevertIsRevert
  <2>3. CASE ~Revert
    BY <1>3, <2>1, <2>3, QuietStep
  <2>4. QED
    BY <2>2, <2>3
<1>4. CASE Serve
  <2>1. CASE FetchPart \/ NextLogs \/ EndCall
    BY <2>1, QuietStep
  <2>2. CASE EndRead
    BY <2>2, EndReadIsTell
  <2>3. CASE EndTransact
    BY <2>3, TransactIsMine
  <2>4. CASE EndGetBlock
    BY <2>4, EndBlockIsTell
  <2>5. CASE EndGetBlockByHash
    BY <2>5, EndHashIsTell
  <2>6. CASE EndGetReceipt
    BY <2>6, EndReceiptIsTell
  <2>7. CASE EndGetLogs
    BY <2>7, EndLogsIsTell
  <2>8. QED
    BY <1>4, <2>1, <2>2, <2>3, <2>4, <2>5, <2>6, <2>7 DEF Serve
<1>5. CASE Failure
  BY <1>5, QuietStep
<1>6. CASE UNCHANGED vars
  <2>1. UNCHANGED <<upstream, fork_block_number, blocks, answer>>
    BY <1>6 DEF vars, node
  <2>2. QED
    BY <2>1, NothingToldStep
<1>7. QED
  BY <1>1, <1>2, <1>3, <1>4, <1>5, <1>6 DEF Next

\* LooksLikeOneChain: whatever the other node does meanwhile, each answer about an
\* account, a block, a receipt or a range of logs is of the one chain made of its
\* blocks up to the fork and the own ones, but for the accounts own blocks have
\* destroyed (forkedblockchain.js, getAccount, getBlock, getTransactionReceipt,
\* getBlockLogs; fetched in parts over several turns).
THEOREM ForkIsOneChain == Spec => LooksLikeOneChain
<1>1. Init => One!Init
  BY InitIsInit
<1>2. ForkInv /\ [Next]_vars => [One!Next]_(One!vars)
  BY OneStep
<1>3. Spec => []ForkInv
  BY ForkInvHolds
<1>4. QED
  BY <1>1, <1>2, <1>3, PTL DEF Spec, LooksLikeOneChain, One!Spec
=============================================================================
