--------------------------- MODULE BlockStore_proofs ---------------------------
(***************************************************************************)
(* Proofs about BlockStore, for any blocks, transactions and bounds: the   *)
(* five parts of the database tell of one chain while the process lives,   *)
(* no pop fails then, and only a process that stops at the length of the   *)
(* blocks leaves a database that cannot be opened.                         *)
(***************************************************************************)
EXTENDS BlockStore, TLAPS, SequenceTheorems

-----------------------------------------------------------------------------
(* The inductive invariant.                                                 *)

\* How popBlock ends, whatever its transactions are.
Ends ==
  <<Of("logs item"), Of("logs length"), Of("hash"), Of("item"), Of("length")>>

TxDeletes(b) == {"tx", "receipt"} \X Range(TxsOf[b])

\* What a pop of b has still to delete: some transactions, then Ends or the end of it.
Shape(todo, b) ==
  \A i \in DOMAIN todo :
    LET k == i - Len(todo) + 5
    IN  IF k < 1 THEN todo[i] \in TxDeletes(b) ELSE todo[i] = Ends[k]

PopShape == job.op = "pop" => Shape(job.todo, job.block)

\* The writes that a put has made, or that a pop has yet to undo.
Made ==
  CASE job.op = "put" -> PutWrites(job.block) \ job.todo
    [] job.op = "pop" -> Range(job.todo)
    [] OTHER -> {}

\* The last item is gone, and its length is not.
LastGone == job = Unopenable \/ (job.op = "pop" /\ Len(job.todo) = 1)

\* In any life of the process there is an item under every index that length counts,
\* but for the last one of a list that has lost it.
CanBeRead ==
  /\ 0..(IF LastGone THEN blocks.length - 2 ELSE blocks.length - 1) \subseteq DOMAIN blocks.item
  /\ job.op = "put" =>
       /\ blocks.length = IF Of("length") \in Made THEN job.index + 1 ELSE job.index
       /\ Of("length") \in Made => Of("item") \in Made
       /\ Of("logs length") \in Made => Of("logs item") \in Made
       /\ Of("item") \in Made => job.index \in DOMAIN blocks.item
  /\ job.op = "pop" =>
       /\ blocks.length > 0 /\ (Of("length") \in Made => blocks.length > 1)
       /\ Len(job.todo) = 4 => blockLogs.length > 0

\* The blocks below the one that is put or popped.
Base == IF Of("length") \in Made THEN blocks.length - 1 ELSE blocks.length
Whole == 0..Base - 1

\* The index of that block, when the write that concerns it is there.
Top(w) == IF w \in Made THEN {Base} ELSE {}

TopBlock == IF job.op \in {"put", "pop"} THEN {job.block} ELSE {}

ListsSound ==
  /\ DOMAIN blocks.item = Whole \cup Top(Of("item"))
  /\ blockLogs.length = IF Of("logs length") \in Made THEN Base + 1 ELSE Base
  /\ DOMAIN blockLogs.item = Whole \cup Top(Of("logs item"))
  /\ \A i \in Whole : blockLogs.item[i] = blocks.item[i]
  /\ Of("item") \in Made => blocks.item[Base] = job.block
  /\ Of("logs item") \in Made => blockLogs.item[Base] = job.block

HashesSound ==
  /\ DOMAIN blockHashes =
       {blocks.item[i] : i \in Whole} \cup (IF Of("hash") \in Made THEN {job.block} ELSE {})
  /\ \A i \in Whole : blockHashes[blocks.item[i]] = i
  /\ Of("hash") \in Made => blockHashes[job.block] = Base

Unlike(b, c) == b # c /\ Range(TxsOf[b]) \cap Range(TxsOf[c]) = {}

Distinct ==
  /\ \A i, j \in Whole : i # j => Unlike(blocks.item[i], blocks.item[j])
  /\ \A b \in TopBlock : \A i \in Whole : Unlike(blocks.item[i], b)

TxsBelow == UNION {Range(TxsOf[blocks.item[i]]) : i \in Whole}
TopTxs(kind) == {tx \in UNION {Range(TxsOf[b]) : b \in TopBlock} : <<kind, tx>> \in Made}

\* Of the transactions of the block that is popped, at most those are left whose turn
\* is to come; of one that is put, those written are there.
TxsSound ==
  /\ TxsBelow \subseteq transactions /\ transactions \subseteq TxsBelow \cup TopTxs("tx")
  /\ TxsBelow \subseteq DOMAIN transactionReceipts
  /\ DOMAIN transactionReceipts \subseteq TxsBelow \cup TopTxs("receipt")
  /\ \A i \in Whole : \A tx \in Range(TxsOf[blocks.item[i]]) :
       transactionReceipts[tx] = blocks.item[i]
  /\ job.op = "put" =>
       /\ TopTxs("tx") \subseteq transactions
       /\ \A tx \in TopTxs("receipt") :
            tx \in DOMAIN transactionReceipts /\ transactionReceipts[tx] = job.block

\* In one life of the process the five parts agree, write by write.
StoreSound ==
  restarts = 0 =>
    torn = {} /\ job # Unopenable /\ ListsSound /\ HashesSound /\ Distinct /\ TxsSound

StoreInv == TypeOK /\ PopShape /\ CanBeRead /\ StoreSound

\* In any life of the process, what it opened with does decode: the length of blocks,
\* every block it counts, and the one it is about to count.
OpenedDecodes ==
  job # Unopenable =>
    /\ Of("length") \notin torn
    /\ \A i \in 0..blocks.length - 1 : <<"blocks", i>> \notin torn
    /\ job.op = "put" /\ Of("item") \in Made => <<"blocks", job.index>> \notin torn
-----------------------------------------------------------------------------
(* Lists and writes.                                                        *)

LEMMA AList ==
  ASSUME NEW l \in Nat, NEW f, DOMAIN f \subseteq Nat, f \in [DOMAIN f -> BlockIds]
  PROVE  IsList([length |-> l, item |-> f])
  BY DEF IsList

LEMMA WithItemIs ==
  ASSUME NEW list, IsList(list), NEW n \in Nat, NEW v \in BlockIds
  PROVE  LET new == WithItem(list, n, v)
         IN  /\ IsList(new) /\ new.length = list.length
             /\ DOMAIN new.item = DOMAIN list.item \cup {n} /\ new.item[n] = v
             /\ \A i \in DOMAIN list.item : i # n => new.item[i] = list.item[i]
<1> DEFINE length == list.length
           item == list.item
           f == [i \in DOMAIN item \cup {n} |-> IF i = n THEN v ELSE item[i]]
<1>1. /\ list = [length |-> length, item |-> item] /\ length \in Nat
      /\ DOMAIN item \subseteq Nat /\ item \in [DOMAIN item -> BlockIds]
  BY DEF IsList
<1> HIDE DEF length, item
<1>2. DOMAIN f \subseteq Nat /\ f \in [DOMAIN f -> BlockIds]
  BY <1>1
<1>3. /\ DOMAIN f = DOMAIN item \cup {n} /\ f[n] = v
      /\ \A i \in DOMAIN item : i # n => f[i] = item[i]
  OBVIOUS
<1>4. WithItem(list, n, v) = [length |-> length, item |-> f]
  BY <1>1 DEF WithItem
<1> HIDE DEF f
<1>5. /\ WithItem(list, n, v).length = length /\ WithItem(list, n, v).item = f
      /\ IsList(WithItem(list, n, v))
  BY <1>1, <1>2, <1>4, AList
<1>6. QED
  BY <1>3, <1>5 DEF length, item

LEMMA WithoutItemIs ==
  ASSUME NEW list, IsList(list), NEW n
  PROVE  LET new == WithoutItem(list, n)
         IN  /\ IsList(new) /\ new.length = list.length
             /\ DOMAIN new.item = DOMAIN list.item \ {n}
             /\ \A i \in DOMAIN list.item : i # n => new.item[i] = list.item[i]
<1> DEFINE length == list.length
           item == list.item
           f == [i \in DOMAIN item \ {n} |-> item[i]]
<1>1. /\ list = [length |-> length, item |-> item] /\ length \in Nat
      /\ DOMAIN item \subseteq Nat /\ item \in [DOMAIN item -> BlockIds]
  BY DEF IsList
<1> HIDE DEF length, item
<1>2. DOMAIN f \subseteq Nat /\ f \in [DOMAIN f -> BlockIds]
  BY <1>1
<1>3. /\ DOMAIN f = DOMAIN item \ {n}
      /\ \A i \in DOMAIN item : i # n => f[i] = item[i]
  OBVIOUS
<1>4. WithoutItem(list, n) = [length |-> length, item |-> f]
  BY <1>1 DEF WithoutItem
<1> HIDE DEF f
<1>5. /\ WithoutItem(list, n).length = length /\ WithoutItem(list, n).item = f
      /\ IsList(WithoutItem(list, n))
  BY <1>1, <1>2, <1>4, AList
<1>6. QED
  BY <1>3, <1>5 DEF length, item

LEMMA WithLengthIs ==
  ASSUME NEW list, IsList(list), NEW n \in Nat
  PROVE  LET new == WithLength(list, n)
         IN  IsList(new) /\ new.length = n /\ new.item = list.item
<1> DEFINE length == list.length
           item == list.item
<1>1. /\ list = [length |-> length, item |-> item] /\ length \in Nat
      /\ DOMAIN item \subseteq Nat /\ item \in [DOMAIN item -> BlockIds]
  BY DEF IsList
<1> HIDE DEF length, item
<1>2. WithLength(list, n) = [length |-> n, item |-> item]
  BY <1>1 DEF WithLength
<1>3. QED
  BY <1>1, <1>2, AList DEF item

\* What putBlock writes is what popBlock deletes.
LEMMA Writes ==
  ASSUME NEW b \in BlockIds
  PROVE  /\ \A i \in 1..5 : Ends[i] \in PutWrites(b)
         /\ TxDeletes(b) \subseteq PutWrites(b)
         /\ \A w \in PutWrites(b) : w \in TxDeletes(b) \/ \E i \in 1..5 : w = Ends[i]
         /\ Range(TxsOf[b]) \subseteq Txs
<1>1. Range(TxsOf[b]) \subseteq Txs
  BY TxsOfAssumption DEF Range
<1>2. /\ Ends[1] = Of("logs item") /\ Ends[2] = Of("logs length") /\ Ends[3] = Of("hash")
      /\ Ends[4] = Of("item") /\ Ends[5] = Of("length")
  BY DEF Ends
<1>3. PutWrites(b) = {Of("item"), Of("length"), Of("logs item"), Of("logs length"),
                      Of("hash")} \cup TxDeletes(b)
  BY DEF PutWrites, TxDeletes
<1>4. \A i \in 1..5 : i = 1 \/ i = 2 \/ i = 3 \/ i = 4 \/ i = 5
  OBVIOUS
<1>5. 1 \in 1..5 /\ 2 \in 1..5 /\ 3 \in 1..5 /\ 4 \in 1..5 /\ 5 \in 1..5
  OBVIOUS
<1> HIDE DEF Ends
<1>6. \A i \in 1..5 : Ends[i] \in PutWrites(b)
  BY <1>2, <1>3, <1>4
<1>7. \A w \in PutWrites(b) : w \in TxDeletes(b) \/ \E i \in 1..5 : w = Ends[i]
  BY <1>2, <1>3, <1>5
<1>8. QED
  BY <1>1, <1>3, <1>6, <1>7

LEMMA TxWritesAre ==
  ASSUME NEW b \in BlockIds
  PROVE  /\ TxWrites(b) \in Seq(TxDeletes(b))
         /\ TxDeletes(b) \subseteq Range(TxWrites(b))
<1> DEFINE n == Len(TxsOf[b])
<1>1. n \in Nat /\ DOMAIN TxsOf[b] = 1..n
  BY TxsOfAssumption
<1>2. ASSUME NEW k \in 1..2 * n PROVE (k + 1) \div 2 \in 1..n
  BY <1>1
<1>3. TxWrites(b) \in [1..2 * n -> TxDeletes(b)]
  <2>1. \A k \in 1..2 * n : TxsOf[b][(k + 1) \div 2] \in Range(TxsOf[b])
    BY <1>1, <1>2 DEF Range
  <2>2. QED
    BY <2>1 DEF TxWrites, TxDeletes
<1>4. TxWrites(b) \in Seq(TxDeletes(b)) /\ DOMAIN TxWrites(b) = 1..2 * n
  <2>1. 2 * n \in Nat
    BY <1>1
  <2>2. QED
    BY <1>3, <2>1
<1>5. ASSUME NEW i \in 1..n
      PROVE  /\ 2 * i - 1 \in 1..2 * n /\ 2 * i \in 1..2 * n
             /\ TxWrites(b)[2 * i - 1] = <<"tx", TxsOf[b][i]>>
             /\ TxWrites(b)[2 * i] = <<"receipt", TxsOf[b][i]>>
  <2>1. /\ 2 * i - 1 \in 1..2 * n /\ 2 * i \in 1..2 * n
        /\ (2 * i - 1) % 2 = 1 /\ ((2 * i - 1) + 1) \div 2 = i
        /\ (2 * i) % 2 = 0 /\ (2 * i + 1) \div 2 = i
    BY <1>1
  <2>2. QED
    BY <2>1 DEF TxWrites
<1>6. ASSUME NEW w \in TxDeletes(b) PROVE w \in Range(TxWrites(b))
  <2>1. PICK i \in 1..n : w = <<"tx", TxsOf[b][i]>> \/ w = <<"receipt", TxsOf[b][i]>>
    BY <1>1 DEF TxDeletes, Range
  <2>2. QED
    BY <1>4, <1>5, <2>1 DEF Range
<1>7. QED
  BY <1>4, <1>6

LEMMA PopWritesAre ==
  ASSUME NEW b \in BlockIds
  PROVE  /\ PopWrites(b) \in Seq(PutWrites(b)) /\ Range(PopWrites(b)) = PutWrites(b)
         /\ Len(PopWrites(b)) >= 5
         /\ Shape(PopWrites(b), b)
<1> DEFINE s == TxWrites(b)
           t == PopWrites(b)
           m == Len(s)
<1>1. s \in Seq(TxDeletes(b)) /\ m \in Nat /\ DOMAIN s = 1..m
      /\ TxDeletes(b) \subseteq Range(s)
  BY TxWritesAre
<1>2. Ends \in Seq(PutWrites(b)) /\ Len(Ends) = 5
  <2>1. Len(Ends) = 5 /\ Ends \in [1..5 -> {Ends[i] : i \in 1..5}]
    BY DEF Ends
  <2> HIDE DEF Ends
  <2>2. Ends \in [1..5 -> PutWrites(b)]
    BY <2>1, Writes
  <2>3. QED
    BY <2>1, <2>2
<1>3. s \in Seq(PutWrites(b))
  BY <1>1, Writes
<1>4. t = s \o Ends
  BY DEF PopWrites, Ends
<1> HIDE DEF s, t, m, Ends
<1>5. /\ t \in Seq(PutWrites(b)) /\ Len(t) = m + 5 /\ DOMAIN t = 1..m + 5
      /\ \A i \in 1..m : t[i] = s[i]
      /\ \A i \in m + 1..m + 5 : t[i] = Ends[i - m]
  <2>1. /\ s \o Ends \in Seq(PutWrites(b)) /\ Len(s \o Ends) = Len(s) + Len(Ends)
        /\ \A i \in 1..Len(s) + Len(Ends) :
             (s \o Ends)[i] = IF i <= Len(s) THEN s[i] ELSE Ends[i - Len(s)]
    BY <1>2, <1>3, ConcatProperties
  <2>2. t \in Seq(PutWrites(b)) /\ Len(t) = m + 5
    BY <1>2, <1>4, <2>1 DEF m
  <2>3. DOMAIN t = 1..m + 5
    BY <2>2
  <2>4. \A i \in 1..m + 5 : t[i] = IF i <= m THEN s[i] ELSE Ends[i - m]
    BY <1>2, <1>4, <2>1 DEF m
  <2>5. QED
    BY <1>1, <2>2, <2>3, <2>4
<1>6. Range(t) = PutWrites(b)
  <2>1. Range(t) \subseteq PutWrites(b)
    BY <1>5 DEF Range
  <2>2. ASSUME NEW w \in TxDeletes(b) PROVE w \in Range(t)
    <3>1. PICK i \in 1..m : w = s[i]
      BY <1>1 DEF Range
    <3>2. i \in 1..m + 5
      BY <1>1
    <3>3. QED
      BY <1>5, <3>1, <3>2 DEF Range
  <2>3. ASSUME NEW i \in 1..5 PROVE Ends[i] \in Range(t)
    <3>1. m + i \in m + 1..m + 5 /\ m + i \in 1..m + 5 /\ (m + i) - m = i
      BY <1>1
    <3>2. t[m + i] = Ends[i]
      BY <1>5, <3>1
    <3>3. QED
      BY <1>5, <3>1, <3>2 DEF Range
  <2>4. QED
    BY <2>1, <2>2, <2>3, Writes
<1>7. ASSUME NEW i \in 1..m + 5
      PROVE  IF i - (m + 5) + 5 < 1 THEN t[i] \in TxDeletes(b)
             ELSE t[i] = Ends[i - (m + 5) + 5]
  <2>1. i - (m + 5) + 5 = i - m
    BY <1>1
  <2>2. CASE i \in 1..m
    BY <1>1, <1>5, <2>1, <2>2
  <2>3. CASE i \in m + 1..m + 5
    BY <1>1, <1>5, <2>1, <2>3
  <2>4. QED
    BY <1>1, <2>2, <2>3
<1>8. QED
  BY <1>1, <1>5, <1>6, <1>7 DEF t, Shape
-----------------------------------------------------------------------------
(* The jobs.                                                                *)

LEMMA EndsAre ==
  /\ Ends[1] = Of("logs item") /\ Ends[2] = Of("logs length") /\ Ends[3] = Of("hash")
  /\ Ends[4] = Of("item") /\ Ends[5] = Of("length")
  /\ \A i, j \in 1..5 : Ends[i] = Ends[j] => i = j
  /\ \A i \in 1..5 : \A b : Ends[i] \notin TxDeletes(b)
<1>1. /\ Ends[1] = Of("logs item") /\ Ends[2] = Of("logs length") /\ Ends[3] = Of("hash")
      /\ Ends[4] = Of("item") /\ Ends[5] = Of("length")
  BY DEF Ends
<1>2. \A i \in 1..5 : i = 1 \/ i = 2 \/ i = 3 \/ i = 4 \/ i = 5
  OBVIOUS
<1>3. \A name : Of(name)[1] = name
  BY DEF Of
<1> HIDE DEF Ends
<1>4. \A i, j \in 1..5 : Ends[i] = Ends[j] => i = j
  <2> DEFINE kind(i) == Ends[i][1]
  <2>1. /\ kind(1) = "logs item" /\ kind(2) = "logs length" /\ kind(3) = "hash"
        /\ kind(4) = "item" /\ kind(5) = "length"
    BY <1>1, <1>3
  <2>2. \A i, j \in 1..5 : Ends[i] = Ends[j] => kind(i) = kind(j)
    OBVIOUS
  <2> HIDE DEF kind
  <2>3. \A i, j \in 1..5 : kind(i) = kind(j) => i = j
    <3>1. SUFFICES ASSUME NEW i \in 1..5, NEW j \in 1..5, kind(i) = kind(j) PROVE i = j
      OBVIOUS
    <3>2. CASE i = 1
      BY <1>2, <2>1, <3>1, <3>2
    <3>3. CASE i = 2
      BY <1>2, <2>1, <3>1, <3>3
    <3>4. CASE i = 3
      BY <1>2, <2>1, <3>1, <3>4
    <3>5. CASE i = 4
      BY <1>2, <2>1, <3>1, <3>5
    <3>6. CASE i = 5
      BY <1>2, <2>1, <3>1, <3>6
    <3>7. QED
      BY <1>2, <3>2, <3>3, <3>4, <3>5, <3>6
  <2>4. QED
    BY <2>2, <2>3
<1>5. \A i \in 1..5 : \A b : Ends[i] \notin TxDeletes(b)
  <2>1. \A b : \A w \in TxDeletes(b) : w[1] \in {"tx", "receipt"}
    BY DEF TxDeletes
  <2>2. \A i \in 1..5 : Ends[i][1] \notin {"tx", "receipt"}
    <3>1. /\ Ends[1][1] = "logs item" /\ Ends[2][1] = "logs length" /\ Ends[3][1] = "hash"
          /\ Ends[4][1] = "item" /\ Ends[5][1] = "length"
      BY <1>1, <1>3
    <3>2. SUFFICES ASSUME NEW i \in 1..5 PROVE Ends[i][1] \notin {"tx", "receipt"}
      OBVIOUS
    <3>3. QED
      BY <1>2, <3>1
  <2>3. QED
    BY <2>1, <2>2
<1>6. QED
  BY <1>1, <1>4, <1>5

LEMMA JobTypes ==
  ASSUME TypeOK
  PROVE  /\ job.op \in {"put", "pop"} => job.block \in BlockIds
         /\ job.op = "put" => /\ job.index \in Nat /\ job.todo \subseteq PutWrites(job.block)
                              /\ job = [op |-> "put", block |-> job.block,
                                        index |-> job.index, todo |-> job.todo]
         /\ job.op = "pop" => /\ job.todo \in Seq(PutWrites(job.block))
                              /\ Len(job.todo) \in Nat
                              /\ DOMAIN job.todo = 1..Len(job.todo)
                              /\ job = [op |-> "pop", block |-> job.block,
                                        todo |-> job.todo]
         /\ job.op \in {"none", "put", "pop", "failed"}
         /\ job.op = "none" <=> job = Quiet
         /\ job.op = "failed" <=> job = Unopenable
<1>1. CASE job \in {Quiet, Unopenable}
  BY <1>1 DEF Quiet, Unopenable
<1>2. CASE \E b \in BlockIds :
             job \in [op : {"put"}, block : {b}, index : Nat, todo : SUBSET PutWrites(b)]
  <2>1. PICK b \in BlockIds :
          job \in [op : {"put"}, block : {b}, index : Nat, todo : SUBSET PutWrites(b)]
    BY <1>2
  <2>2. /\ job.op = "put" /\ job.block = b /\ job.index \in Nat
        /\ job.todo \subseteq PutWrites(b)
        /\ job = [op |-> "put", block |-> job.block, index |-> job.index,
                  todo |-> job.todo]
    BY <2>1
  <2>3. job # Quiet /\ job # Unopenable
    BY <2>2 DEF Quiet, Unopenable
  <2>4. QED
    BY <2>2, <2>3
<1>3. CASE \E b \in BlockIds : job \in [op : {"pop"}, block : {b}, todo : Seq(PutWrites(b))]
  <2>1. PICK b \in BlockIds :
          job \in [op : {"pop"}, block : {b}, todo : Seq(PutWrites(b))]
    BY <1>3
  <2>2. /\ job.op = "pop" /\ job.block = b /\ job.todo \in Seq(PutWrites(b))
        /\ job = [op |-> "pop", block |-> job.block, todo |-> job.todo]
    BY <2>1
  <2>3. job # Quiet /\ job # Unopenable
    BY <2>2 DEF Quiet, Unopenable
  <2>4. QED
    BY <2>2, <2>3
<1>4. QED
  BY <1>1, <1>2, <1>3 DEF TypeOK

\* What is still there of the block that is popped.
LEMMA Left ==
  ASSUME NEW b, NEW todo \in Seq(PutWrites(b)), Shape(todo, b)
  PROVE  /\ Of("length") \in Range(todo) <=> Len(todo) >= 1
         /\ Of("item") \in Range(todo) <=> Len(todo) >= 2
         /\ Of("hash") \in Range(todo) <=> Len(todo) >= 3
         /\ Of("logs length") \in Range(todo) <=> Len(todo) >= 4
         /\ Of("logs item") \in Range(todo) <=> Len(todo) >= 5
<1> DEFINE m == Len(todo)
<1>1. m \in Nat /\ DOMAIN todo = 1..m
  OBVIOUS
<1>2. ASSUME NEW k \in 1..5
      PROVE  Ends[k] \in Range(todo) <=> m >= 6 - k
  <2>1. ASSUME m >= 6 - k PROVE Ends[k] \in Range(todo)
    <3>1. m - 5 + k \in 1..m /\ (m - 5 + k) - m + 5 = k /\ ~(k < 1)
      BY <1>1, <2>1
    <3>2. todo[m - 5 + k] = Ends[k]
      BY <1>1, <3>1 DEF Shape
    <3>3. QED
      BY <1>1, <3>1, <3>2 DEF Range
  <2>2. ASSUME Ends[k] \in Range(todo) PROVE m >= 6 - k
    <3>1. PICK i \in 1..m : todo[i] = Ends[k]
      BY <1>1, <2>2 DEF Range
    <3>2. PICK j \in Int : j = i - m + 5
      <4>1. i - m + 5 \in Int
        BY <1>1
      <4>2. QED
        BY <4>1
    <3>3. IF j < 1 THEN todo[i] \in TxDeletes(b) ELSE todo[i] = Ends[j]
      BY <1>1, <3>2 DEF Shape
    <3>4. j >= 1 /\ j \in 1..5
      <4>1. i \in Int /\ m \in Int /\ i <= m
        BY <1>1
      <4>2. ~(j < 1)
        BY <3>1, <3>3, EndsAre
      <4>3. j <= 5
        BY <3>2, <4>1
      <4>4. QED
        BY <4>2, <4>3
    <3>5. j = k
      BY <3>1, <3>3, <3>4, EndsAre
    <3>6. QED
      BY <1>1, <3>2, <3>5
  <2>3. QED
    BY <2>1, <2>2
<1> HIDE DEF m
<1>3. /\ Ends[1] \in Range(todo) <=> m >= 5
      /\ Ends[2] \in Range(todo) <=> m >= 4
      /\ Ends[3] \in Range(todo) <=> m >= 3
      /\ Ends[4] \in Range(todo) <=> m >= 2
      /\ Ends[5] \in Range(todo) <=> m >= 1
  BY <1>2
<1>4. QED
  BY <1>3, EndsAre DEF m

\* The next deletion, and what is left then.
LEMMA PopHead ==
  ASSUME TypeOK, PopShape, job.op = "pop", job.todo # <<>>
  PROVE  LET w == Head(job.todo)
             m == Len(job.todo)
             rest == Tail(job.todo)
         IN  /\ m \in Nat /\ m >= 1
             /\ m > 5 => w \in TxDeletes(job.block)
             /\ m = 5 => w = Of("logs item")
             /\ m = 4 => w = Of("logs length")
             /\ m = 3 => w = Of("hash")
             /\ m = 2 => w = Of("item")
             /\ m = 1 => w = Of("length")
             /\ rest \in Seq(PutWrites(job.block)) /\ Len(rest) = m - 1
             /\ Shape(rest, job.block)
             /\ Range(job.todo) = Range(rest) \cup {w}
<1> DEFINE w == Head(job.todo)
           m == Len(job.todo)
           rest == Tail(job.todo)
<1>1. job.todo \in Seq(PutWrites(job.block)) /\ m \in Nat /\ DOMAIN job.todo = 1..m
  BY JobTypes
<1>2. m >= 1 /\ w = job.todo[1] /\ 1 \in 1..m
  BY <1>1
<1>3. /\ rest \in Seq(PutWrites(job.block)) /\ Len(rest) = m - 1
      /\ \A i \in 1..m - 1 : rest[i] = job.todo[i + 1]
  BY <1>1, HeadTailProperties
<1>4. DOMAIN rest = 1..m - 1
  BY <1>3
<1>5. PICK k \in Int : k = 6 - m /\ k = 1 - m + 5
  <2>1. 6 - m \in Int /\ 6 - m = 1 - m + 5
    BY <1>1
  <2>2. QED
    BY <2>1
<1>6. IF k < 1 THEN w \in TxDeletes(job.block) ELSE w = Ends[k]
  BY <1>1, <1>2, <1>5 DEF PopShape, Shape
<1> HIDE DEF w, m, rest
<1>7. /\ m > 5 => w \in TxDeletes(job.block)
      /\ m = 5 => w = Of("logs item")
      /\ m = 4 => w = Of("logs length")
      /\ m = 3 => w = Of("hash")
      /\ m = 2 => w = Of("item")
      /\ m = 1 => w = Of("length")
  <2>1. m > 5 <=> k < 1
    BY <1>1, <1>5
  <2>2. /\ m = 5 => k = 1
        /\ m = 4 => k = 2
        /\ m = 3 => k = 3
        /\ m = 2 => k = 4
        /\ m = 1 => k = 5
    BY <1>1, <1>5
  <2>3. m > 5 => w \in TxDeletes(job.block)
    BY <1>6, <2>1
  <2>4. ASSUME m \in 1..5 PROVE w = Ends[k]
    <3>1. ~(k < 1)
      BY <1>5, <2>4
    <3>2. QED
      BY <1>6, <3>1
  <2>5. \A n \in 1..5 : m = n => m \in 1..5
    OBVIOUS
  <2>6. 1 \in 1..5 /\ 2 \in 1..5 /\ 3 \in 1..5 /\ 4 \in 1..5 /\ 5 \in 1..5
    OBVIOUS
  <2>7. QED
    BY <2>2, <2>3, <2>4, <2>5, <2>6, EndsAre
<1>8. Range(job.todo) = Range(rest) \cup {w}
  <2>1. ASSUME NEW i \in 1..m PROVE job.todo[i] \in Range(rest) \cup {w}
    <3>1. CASE i = 1
      BY <1>2, <3>1
    <3>2. CASE i > 1
      <4>1. i - 1 \in 1..m - 1 /\ (i - 1) + 1 = i
        BY <1>1, <3>2
      <4>2. rest[i - 1] = job.todo[i]
        BY <1>3, <4>1
      <4>3. QED
        BY <1>4, <4>1, <4>2 DEF Range
    <3>3. QED
      BY <1>1, <3>1, <3>2
  <2>2. ASSUME NEW i \in 1..m - 1 PROVE rest[i] \in Range(job.todo)
    <3>1. i + 1 \in 1..m
      BY <1>1
    <3>2. QED
      BY <1>1, <1>3, <3>1 DEF Range
  <2>3. w \in Range(job.todo)
    BY <1>1, <1>2 DEF Range
  <2>4. QED
    BY <1>1, <1>4, <2>1, <2>2, <2>3 DEF Range
<1>9. Shape(rest, job.block)
  <2>1. ASSUME NEW i \in 1..m - 1
        PROVE  IF i - (m - 1) + 5 < 1 THEN rest[i] \in TxDeletes(job.block)
               ELSE rest[i] = Ends[i - (m - 1) + 5]
    <3>1. i + 1 \in 1..m /\ (i + 1) - m + 5 = i - (m - 1) + 5
      BY <1>1
    <3>2. IF (i + 1) - m + 5 < 1 THEN job.todo[i + 1] \in TxDeletes(job.block)
          ELSE job.todo[i + 1] = Ends[(i + 1) - m + 5]
      BY <1>1, <3>1 DEF PopShape, Shape, m
    <3>3. QED
      BY <1>3, <3>1, <3>2
  <2>2. QED
    BY <1>3, <1>4, <2>1 DEF Shape
<1>10. QED
  BY <1>1, <1>2, <1>3, <1>7, <1>8, <1>9 DEF w, m, rest

LEMMA Kinds ==
  /\ \A name : Of(name)[1] = name
  /\ Of("item") # Of("length") /\ Of("item") # Of("logs item")
  /\ Of("item") # Of("logs length") /\ Of("item") # Of("hash")
  /\ Of("length") # Of("logs item") /\ Of("length") # Of("logs length")
  /\ Of("length") # Of("hash") /\ Of("logs item") # Of("logs length")
  /\ Of("logs item") # Of("hash") /\ Of("logs length") # Of("hash")
  /\ \A b : \A w \in TxDeletes(b) :
       /\ w[1] \in {"tx", "receipt"} /\ w[2] \in Range(TxsOf[b]) /\ w = <<w[1], w[2]>>
<1>1. \A name : Of(name)[1] = name
  BY DEF Of
<1>2. \A b : \A w \in TxDeletes(b) :
        w[1] \in {"tx", "receipt"} /\ w[2] \in Range(TxsOf[b]) /\ w = <<w[1], w[2]>>
  BY DEF TxDeletes
<1>3. \A m, n : m # n => Of(m) # Of(n)
  BY DEF Of
<1>4. QED
  BY <1>1, <1>2, <1>3

\* Records are told apart by what they are of, then by their key.
LEMMA Pairs ==
  /\ \A a, x, c, y : <<a, x>> = <<c, y>> => a = c /\ x = y
  /\ \A a, x : <<a, x>>[1] = a
  /\ \A a, x, name : <<a, x>> = Of(name) => a = name
  /\ \A a, x, A, B : a \in A /\ x \in B => <<a, x>> \in A \X B
<1>1. \A a, x, c, y : <<a, x>> = <<c, y>> => a = c /\ x = y
  OBVIOUS
<1>2. \A a, x, name : <<a, x>> = Of(name) => a = name
  BY DEF Of
<1>3. \A a, x, A, B : a \in A /\ x \in B => <<a, x>> \in A \X B
  OBVIOUS
<1>4. \A a, x : <<a, x>>[1] = a
  OBVIOUS
<1>5. QED
  BY <1>1, <1>2, <1>3, <1>4

LEMMA InRecords ==
  /\ Of("length") \in Records /\ Of("logs length") \in Records
  /\ \A n \in Nat : <<"blocks", n>> \in Records /\ <<"blockLogs", n>> \in Records
  /\ \A b \in BlockIds : <<"hash", b>> \in Records
  /\ \A kind \in {"tx", "receipt"}, tx \in Txs : <<kind, tx>> \in Records
<1>1. \A n \in Nat : /\ <<"blocks", n>> \in {"blocks", "blockLogs"} \X Nat
                    /\ <<"blockLogs", n>> \in {"blocks", "blockLogs"} \X Nat
  OBVIOUS
<1>2. \A b \in BlockIds : <<"hash", b>> \in {"hash"} \X BlockIds
  OBVIOUS
<1>3. \A kind \in {"tx", "receipt"}, tx \in Txs : <<kind, tx>> \in {"tx", "receipt"} \X Txs
  OBVIOUS
<1>4. QED
  BY <1>1, <1>2, <1>3, Zenon DEF Records

LEMMA RecordIs ==
  ASSUME NEW w
  PROVE  /\ w = Of("item") => Record(w) = <<"blocks", blocks.length>>
         /\ w = Of("logs item") => Record(w) = <<"blockLogs", blockLogs.length>>
         /\ w = Of("hash") => Record(w) = <<"hash", job.block>>
         /\ w \notin {Of("item"), Of("logs item"), Of("hash")} => Record(w) = w
  BY Kinds DEF Record

LEMMA JobNames == Unopenable.op = "failed" /\ Quiet.op = "none"
  BY DEF Unopenable, Quiet

LEMMA AWrite ==
  ASSUME NEW b \in BlockIds, NEW w \in PutWrites(b)
  PROVE  \/ w = Of("item") \/ w = Of("length") \/ w = Of("logs item")
         \/ w = Of("logs length") \/ w = Of("hash")
         \/ w \in TxDeletes(b)
  BY DEF PutWrites, TxDeletes
-----------------------------------------------------------------------------
(* A write of putBlock.                                                     *)

\* What changes with it.
LEMMA PutWriteIs ==
  ASSUME TypeOK, NEW w, PutWrite(w)
  PROVE  LET b == job.block
         IN  /\ job.op = "put" /\ b \in BlockIds /\ w \in PutWrites(b) /\ w \in job.todo
             /\ job.index \in Nat /\ job.todo \subseteq PutWrites(b)
             /\ job' = [op |-> "put", block |-> b, index |-> job.index,
                        todo |-> job.todo \ {w}]
             /\ Made = PutWrites(b) \ job.todo
             /\ Made' = (PutWrites(b) \ job.todo) \cup {w}
             /\ TopBlock = {b} /\ TopBlock' = {b}
             /\ UNCHANGED <<root, restarts>> /\ torn' = torn \ {Record(w)}
             /\ blocks' = IF w = Of("item") THEN WithItem(blocks, blocks.length, b)
                          ELSE IF w = Of("length") THEN WithLength(blocks, blocks.length + 1)
                          ELSE blocks
             /\ blockLogs' = IF w = Of("logs item")
                               THEN WithItem(blockLogs, blockLogs.length, b)
                             ELSE IF w = Of("logs length")
                               THEN WithLength(blockLogs, blockLogs.length + 1)
                             ELSE blockLogs
             /\ blockHashes' = IF w = Of("hash") THEN Put(blockHashes, b, job.index)
                               ELSE blockHashes
             /\ transactions' = IF w[1] = "tx" THEN transactions \cup {w[2]}
                                ELSE transactions
             /\ transactionReceipts' =
                  IF w[1] = "receipt" THEN Put(transactionReceipts, w[2], b)
                  ELSE transactionReceipts
<1>1. job.op = "put" /\ w \in job.todo
  BY DEF PutWrite
<1>2. /\ job.block \in BlockIds /\ job.index \in Nat
      /\ job.todo \subseteq PutWrites(job.block) /\ w \in PutWrites(job.block)
      /\ job = [op |-> "put", block |-> job.block, index |-> job.index,
                todo |-> job.todo]
  BY <1>1, JobTypes
<1>3. job' = [op |-> "put", block |-> job.block, index |-> job.index,
              todo |-> job.todo \ {w}]
  <2>1. job' = [job EXCEPT !.todo = @ \ {w}]
    BY DEF PutWrite
  <2>2. QED
    BY <1>2, <2>1
<1>4. job'.op = "put" /\ job'.block = job.block /\ job'.todo = job.todo \ {w}
  BY <1>3
<1>5. Made = PutWrites(job.block) \ job.todo
  BY <1>1 DEF Made
<1>6. Made' = (PutWrites(job.block) \ job.todo) \cup {w}
  BY <1>2, <1>4 DEF Made, PutWrites
<1>7. TopBlock = {job.block} /\ TopBlock' = {job.block}
  BY <1>1, <1>4 DEF TopBlock
<1>8. /\ blocks' = IF w = Of("item") THEN WithItem(blocks, blocks.length, job.block)
                   ELSE IF w = Of("length") THEN WithLength(blocks, blocks.length + 1)
                   ELSE blocks
      /\ blockLogs' = IF w = Of("logs item")
                        THEN WithItem(blockLogs, blockLogs.length, job.block)
                      ELSE IF w = Of("logs length")
                        THEN WithLength(blockLogs, blockLogs.length + 1)
                      ELSE blockLogs
  BY Kinds DEF PutWrite
<1>9. /\ blockHashes' = IF w = Of("hash") THEN Put(blockHashes, job.block, job.index)
                        ELSE blockHashes
      /\ transactions' = IF w[1] = "tx" THEN transactions \cup {w[2]} ELSE transactions
      /\ transactionReceipts' =
           IF w[1] = "receipt" THEN Put(transactionReceipts, w[2], job.block)
           ELSE transactionReceipts
      /\ UNCHANGED <<root, restarts>> /\ torn' = torn \ {Record(w)}
  BY DEF PutWrite
<1>10. QED
  BY <1>1, <1>2, <1>3, <1>5, <1>6, <1>7, <1>8, <1>9

\* The blocks below the one at work stay as they are.
LEMMA BelowStays ==
  ASSUME Base' = Base, TopBlock' = TopBlock,
         \A i \in Whole : blocks'.item[i] = blocks.item[i]
  PROVE  /\ Whole' = Whole /\ TxsBelow' = TxsBelow /\ (Distinct => Distinct')
         /\ {blocks.item[i] : i \in Whole}' = {blocks.item[i] : i \in Whole}
<1>1. Whole' = Whole
  BY DEF Whole
<1> DEFINE f(i) == Range(TxsOf[blocks.item[i]])
           g(i) == Range(TxsOf[blocks'.item[i]])
<1>2. \A i \in Whole : f(i) = g(i)
  OBVIOUS
<1>3. TxsBelow' = UNION {g(i) : i \in Whole} /\ TxsBelow = UNION {f(i) : i \in Whole}
  BY <1>1 DEF TxsBelow
<1> HIDE DEF f, g
<1>4. TxsBelow' = TxsBelow
  BY <1>2, <1>3
<1>5. {blocks'.item[i] : i \in Whole} = {blocks.item[i] : i \in Whole}
  OBVIOUS
<1>6. Distinct => Distinct'
  BY <1>1 DEF Distinct
<1>7. QED
  BY <1>1, <1>4, <1>5, <1>6

LEMMA PutWriteKeeps == ASSUME StoreInv, NEW w, PutWrite(w) PROVE StoreInv'
<1> DEFINE b == job.block
           n == job.index
<1>1. /\ TypeOK /\ CanBeRead /\ job.op = "put" /\ b \in BlockIds /\ w \in PutWrites(b)
      /\ w \in job.todo /\ n \in Nat /\ job.todo \subseteq PutWrites(b)
      /\ job' = [op |-> "put", block |-> b, index |-> n, todo |-> job.todo \ {w}]
      /\ Made = PutWrites(b) \ job.todo
      /\ Made' = (PutWrites(b) \ job.todo) \cup {w}
      /\ TopBlock = {b} /\ TopBlock' = {b}
      /\ UNCHANGED <<root, restarts>> /\ torn' \subseteq torn
  BY PutWriteIs DEF StoreInv
<1>2. /\ blocks' = IF w = Of("item") THEN WithItem(blocks, blocks.length, b)
                   ELSE IF w = Of("length") THEN WithLength(blocks, blocks.length + 1)
                   ELSE blocks
      /\ blockLogs' = IF w = Of("logs item") THEN WithItem(blockLogs, blockLogs.length, b)
                      ELSE IF w = Of("logs length")
                        THEN WithLength(blockLogs, blockLogs.length + 1)
                      ELSE blockLogs
      /\ blockHashes' = IF w = Of("hash") THEN Put(blockHashes, b, n) ELSE blockHashes
      /\ transactions' = IF w[1] = "tx" THEN transactions \cup {w[2]} ELSE transactions
      /\ transactionReceipts' =
           IF w[1] = "receipt" THEN Put(transactionReceipts, w[2], b)
           ELSE transactionReceipts
  BY PutWriteIs DEF StoreInv
<1>3. /\ w \notin Made /\ w \in Made'
      /\ Made' = Made \cup {w}
      /\ \A i \in 1..5 : Ends[i] \in PutWrites(b)
  BY <1>1, Writes
<1>4. /\ job'.op = "put" /\ job'.block = b /\ job'.index = n /\ job'.todo = job.todo \ {w}
  BY <1>1
<1>types. n \in Nat /\ b \in BlockIds
  BY <1>1
<1>5. /\ Of("length") \in Made => blocks.length = n + 1
      /\ Of("length") \notin Made => blocks.length = n
      /\ Of("length") \in Made => Of("item") \in Made
      /\ Of("logs length") \in Made => Of("logs item") \in Made
      /\ Of("item") \in Made => n \in DOMAIN blocks.item
      /\ 0..blocks.length - 1 \subseteq DOMAIN blocks.item
  <2>1. ~LastGone
    BY <1>1 DEF LastGone, Unopenable
  <2>2. QED
    BY <1>1, <2>1 DEF CanBeRead
<1>6. /\ w = Of("item") => Of("length") \notin Made
      /\ w = Of("length") => Of("item") \in Made
      /\ w = Of("logs item") => Of("logs length") \notin Made
      /\ w = Of("logs length") => Of("logs item") \in Made
  <2>1. /\ w = Of("length") => Of("item") \notin job.todo
        /\ w = Of("logs length") => Of("logs item") \notin job.todo
    BY DEF PutWrite, MayWrite
  <2>2. Of("item") \in PutWrites(b) /\ Of("logs item") \in PutWrites(b)
    BY DEF PutWrites
  <2>3. QED
    BY <1>1, <1>3, <1>5, <2>1, <2>2
<1>7. IsList(blocks) /\ IsList(blockLogs) /\ blocks.length \in Nat /\ blockLogs.length \in Nat
  BY <1>1 DEF TypeOK, IsList
<1>8. /\ IsList(blocks')
      /\ Of("length") \in Made' => blocks'.length = n + 1
      /\ Of("length") \notin Made' => blocks'.length = n
      /\ DOMAIN blocks'.item = DOMAIN blocks.item \cup (IF w = Of("item") THEN {n} ELSE {})
      /\ \A i \in DOMAIN blocks.item : i # n => blocks'.item[i] = blocks.item[i]
      /\ blocks'.item[n] = IF w = Of("item") THEN b ELSE blocks.item[n]
  <2>1. CASE w = Of("item")
    <3>1. blocks.length = n /\ Of("length") \notin Made'
      BY <1>types, <1>3, <1>5, <1>6, <2>1, Kinds
    <3>2. blocks' = WithItem(blocks, n, b)
      BY <1>2, <2>1, <3>1
    <3>3. /\ IsList(blocks') /\ blocks'.length = n
          /\ DOMAIN blocks'.item = DOMAIN blocks.item \cup {n} /\ blocks'.item[n] = b
          /\ \A i \in DOMAIN blocks.item : i # n => blocks'.item[i] = blocks.item[i]
      BY <1>types, <1>7, <3>1, <3>2, WithItemIs
    <3>4. QED
      BY <2>1, <3>1, <3>3
  <2>2. CASE w = Of("length")
    <3>1. blocks.length = n /\ Of("length") \in Made' /\ w # Of("item")
      BY <1>types, <1>3, <1>5, <2>2, Kinds
    <3>2. blocks' = WithLength(blocks, n + 1)
      BY <1>2, <2>2, <3>1
    <3>3. n + 1 \in Nat
      BY <1>types
    <3>4. IsList(blocks') /\ blocks'.length = n + 1 /\ blocks'.item = blocks.item
      BY <1>7, <3>2, <3>3, WithLengthIs
    <3>5. QED
      BY <3>1, <3>4
  <2>3. CASE w # Of("item") /\ w # Of("length")
    <3>1. blocks' = blocks /\ (Of("length") \in Made' <=> Of("length") \in Made)
      BY <1>2, <1>3, <2>3
    <3>2. QED
      BY <1>5, <1>7, <2>3, <3>1
  <2>4. QED
    BY <2>1, <2>2, <2>3
<1>9. IsList(blockLogs')
  <2>1. IsList(WithItem(blockLogs, blockLogs.length, b))
    BY <1>types, <1>7, WithItemIs
  <2>2. IsList(WithLength(blockLogs, blockLogs.length + 1))
    <3>1. blockLogs.length + 1 \in Nat
      BY <1>7
    <3>2. QED
      BY <1>7, <3>1, WithLengthIs
  <2>3. QED
    BY <1>2, <1>7, <2>1, <2>2
<1>10. TypeOK'
  <2>1. w[1] \in {"tx", "receipt"} => w[2] \in Txs
    <3>1. w[1] \in {"tx", "receipt"} => w \in TxDeletes(b)
      BY <1>1, AWrite, Kinds
    <3>2. QED
      BY <1>1, <3>1, Kinds, Writes
  <2>2. DOMAIN blockHashes' \subseteq BlockIds /\ blockHashes' \in [DOMAIN blockHashes' -> Nat]
    <3>1. DOMAIN blockHashes \subseteq BlockIds /\ blockHashes \in [DOMAIN blockHashes -> Nat]
      BY <1>1 DEF TypeOK
    <3>2. QED
      BY <1>1, <1>2, <3>1 DEF Put
  <2>3. /\ DOMAIN transactionReceipts' \subseteq Txs
        /\ transactionReceipts' \in [DOMAIN transactionReceipts' -> BlockIds]
    <3>1. /\ DOMAIN transactionReceipts \subseteq Txs
          /\ transactionReceipts \in [DOMAIN transactionReceipts -> BlockIds]
      BY <1>1 DEF TypeOK
    <3>2. QED
      BY <1>1, <1>2, <2>1, <3>1 DEF Put
  <2>4. transactions' \subseteq Txs
    BY <1>1, <1>2, <2>1 DEF TypeOK
  <2>5. job' \in [op : {"put"}, block : {b}, index : Nat, todo : SUBSET PutWrites(b)]
    BY <1>1
  <2>6. root' \in BlockIds \cup {NoBlock} /\ restarts' \in 0..MaxRestarts
    BY <1>1 DEF TypeOK
  <2>7. QED
    BY <1>1, <1>8, <1>9, <2>2, <2>3, <2>4, <2>5, <2>6 DEF TypeOK
<1>11. PopShape'
  BY <1>4 DEF PopShape
<1>12. CanBeRead'
  <2>1. ~LastGone'
    BY <1>4 DEF LastGone, Unopenable
  <2>2. 0..blocks'.length - 1 \subseteq DOMAIN blocks'.item
    <3>1. CASE Of("length") \in Made'
      <4>1. n \in DOMAIN blocks'.item
        BY <1>3, <1>5, <1>6, <1>8, <3>1
      <4>2. 0..n - 1 \subseteq DOMAIN blocks.item
        <5>1. blocks.length = n \/ blocks.length = n + 1
          BY <1>5
        <5>2. 0..n - 1 \subseteq 0..blocks.length - 1
          BY <1>types, <5>1
        <5>3. QED
          BY <1>5, <5>2
      <4>3. \A i \in 0..n : i = n \/ i \in 0..n - 1
        BY <1>types
      <4>4. (n + 1) - 1 = n /\ blocks'.length = n + 1
        BY <1>types, <1>8, <3>1
      <4>5. QED
        BY <1>8, <4>1, <4>2, <4>3, <4>4
    <3>2. CASE Of("length") \notin Made'
      BY <1>3, <1>5, <1>8, <3>2
    <3>3. QED
      BY <3>1, <3>2
  <2>3. Of("length") \in Made' => Of("item") \in Made'
    BY <1>3, <1>5, <1>6
  <2>4. Of("logs length") \in Made' => Of("logs item") \in Made'
    BY <1>3, <1>5, <1>6
  <2>5. Of("item") \in Made' => n \in DOMAIN blocks'.item
    BY <1>3, <1>5, <1>8
  <2>6. QED
    BY <1>4, <1>8, <2>1, <2>2, <2>3, <2>4, <2>5 DEF CanBeRead
<1>13. ASSUME restarts = 0 PROVE (ListsSound /\ HashesSound /\ Distinct /\ TxsSound)'
  <2>1. Base = n /\ Base' = n
    <3>1. (n + 1) - 1 = n
      BY <1>types
    <3>2. Base = n
      BY <1>5, <3>1 DEF Base
    <3>3. Base' = n
      BY <1>8, <3>1 DEF Base
    <3>4. QED
      BY <3>2, <3>3
  <2>2. ListsSound /\ HashesSound /\ Distinct /\ TxsSound
    BY <1>13 DEF StoreInv, StoreSound
  <2>3. Whole = 0..n - 1 /\ Whole' = Whole /\ n \notin Whole
    BY <1>1, <2>1 DEF Whole
  <2>4. \A i \in Whole : blocks'.item[i] = blocks.item[i]
    BY <1>8, <2>2, <2>3 DEF ListsSound
  <2>5. /\ TxsBelow' = TxsBelow /\ Distinct'
        /\ {blocks.item[i] : i \in Whole}' = {blocks.item[i] : i \in Whole}
    BY <1>1, <2>1, <2>2, <2>4, BelowStays
  <2>6. \A i \in Whole : blocks.item[i] # b /\ Range(TxsOf[blocks.item[i]]) \cap Range(TxsOf[b]) = {}
    BY <1>1, <2>2 DEF Distinct, Unlike
  <2>7. ListsSound'
    <3>1. DOMAIN blocks'.item = Whole \cup (IF Of("item") \in Made' THEN {n} ELSE {})
      BY <1>3, <1>8, <2>1, <2>2 DEF ListsSound, Top
    <3>2. Of("item") \in Made' => blocks'.item[n] = b
      BY <1>3, <1>8, <2>1, <2>2 DEF ListsSound
    <3>3. /\ Of("logs length") \in Made => blockLogs.length = n + 1
          /\ Of("logs length") \notin Made => blockLogs.length = n
          /\ DOMAIN blockLogs.item = Whole \cup (IF Of("logs item") \in Made THEN {n} ELSE {})
          /\ \A i \in Whole : blockLogs.item[i] = blocks.item[i]
          /\ Of("logs item") \in Made => blockLogs.item[n] = b
      BY <2>1, <2>2 DEF ListsSound, Top
    <3>4. /\ Of("logs length") \in Made' => blockLogs'.length = n + 1
          /\ Of("logs length") \notin Made' => blockLogs'.length = n
          /\ DOMAIN blockLogs'.item = Whole \cup (IF Of("logs item") \in Made' THEN {n} ELSE {})
          /\ \A i \in Whole : blockLogs'.item[i] = blocks.item[i]
          /\ Of("logs item") \in Made' => blockLogs'.item[n] = b
      <4>1. CASE w = Of("logs item")
        <5>1. blockLogs.length = n /\ Of("logs length") \notin Made' /\ Of("logs item") \in Made'
          BY <1>1, <1>3, <1>6, <3>3, <4>1, Kinds
        <5>2. blockLogs' = WithItem(blockLogs, n, b)
          BY <1>2, <4>1, <5>1
        <5>3. /\ blockLogs'.length = n
              /\ DOMAIN blockLogs'.item = DOMAIN blockLogs.item \cup {n}
              /\ blockLogs'.item[n] = b
              /\ \A i \in DOMAIN blockLogs.item :
                   i # n => blockLogs'.item[i] = blockLogs.item[i]
          <6>1. blockLogs.length = n
            BY <5>1
          <6>2. QED
            BY <1>7, <1>types, <5>2, <6>1, WithItemIs
        <5>4. DOMAIN blockLogs.item = Whole
          BY <1>3, <3>3, <4>1
        <5>5. QED
          BY <1>1, <2>3, <3>3, <5>1, <5>3, <5>4
      <4>2. CASE w = Of("logs length")
        <5>1. /\ blockLogs.length = n /\ Of("logs length") \in Made'
              /\ Of("logs item") \in Made /\ Of("logs item") \in Made'
          BY <1>1, <1>3, <1>6, <3>3, <4>2
        <5>2. blockLogs' = WithLength(blockLogs, n + 1)
          BY <1>2, <4>2, <5>1, Kinds
        <5>3. n + 1 \in Nat
          BY <1>types
        <5>4. blockLogs'.length = n + 1 /\ blockLogs'.item = blockLogs.item
          BY <1>7, <5>2, <5>3, WithLengthIs
        <5>5. QED
          BY <3>3, <5>1, <5>4
      <4>3. CASE w # Of("logs item") /\ w # Of("logs length")
        <5>1. /\ blockLogs' = blockLogs
              /\ Of("logs item") \in Made' <=> Of("logs item") \in Made
              /\ Of("logs length") \in Made' <=> Of("logs length") \in Made
          BY <1>2, <1>3, <4>3
        <5>2. QED
          BY <3>3, <5>1
      <4>4. QED
        BY <4>1, <4>2, <4>3
    <3>5. QED
      BY <1>4, <1>8, <2>1, <2>3, <2>4, <3>1, <3>2, <3>4 DEF ListsSound, Top
  <2>8. HashesSound'
    <3> DEFINE below == {blocks.item[i] : i \in Whole}
    <3>1. /\ DOMAIN blockHashes = below \cup (IF Of("hash") \in Made THEN {b} ELSE {})
          /\ \A i \in Whole : blockHashes[blocks.item[i]] = i
          /\ Of("hash") \in Made => blockHashes[b] = n
      BY <2>1, <2>2 DEF HashesSound
    <3>2. /\ DOMAIN blockHashes' = below \cup (IF Of("hash") \in Made' THEN {b} ELSE {})
          /\ \A i \in Whole : blockHashes'[blocks.item[i]] = i
          /\ Of("hash") \in Made' => blockHashes'[b] = n
      <4>1. CASE w = Of("hash")
        <5>1. blockHashes' = Put(blockHashes, b, n) /\ Of("hash") \in Made' /\ Of("hash") \notin Made
          BY <1>2, <1>3, <4>1
        <5>2. \A i \in Whole : blocks.item[i] \in DOMAIN blockHashes /\ blocks.item[i] # b
          BY <2>6, <3>1
        <5>3. /\ DOMAIN blockHashes' = DOMAIN blockHashes \cup {b} /\ blockHashes'[b] = n
              /\ \A k \in DOMAIN blockHashes : k # b => blockHashes'[k] = blockHashes[k]
          BY <5>1 DEF Put
        <5>4. QED
          BY <3>1, <5>1, <5>2, <5>3
      <4>2. CASE w # Of("hash")
        BY <1>2, <1>3, <3>1, <4>2
      <4>3. QED
        BY <4>1, <4>2
    <3>3. below' = below
      BY <2>5
    <3> HIDE DEF below
    <3>4. \A i \in Whole : blockHashes'[blocks'.item[i]] = i
      BY <2>4, <3>2
    <3>5. QED
      BY <1>4, <2>1, <2>3, <3>2, <3>3, <3>4 DEF HashesSound, below
  <2>9. TxsSound'
    <3>1. \A tx, kind : tx \in TopTxs(kind) <=> tx \in Range(TxsOf[b]) /\ <<kind, tx>> \in Made
      BY <1>1 DEF TopTxs
    <3>2. \A tx, kind : tx \in TopTxs(kind)' <=>
                          tx \in Range(TxsOf[b]) /\ <<kind, tx>> \in Made'
      BY <1>1 DEF TopTxs
    <3>3. /\ TxsBelow \subseteq transactions /\ transactions \subseteq TxsBelow \cup TopTxs("tx")
          /\ TxsBelow \subseteq DOMAIN transactionReceipts
          /\ DOMAIN transactionReceipts \subseteq TxsBelow \cup TopTxs("receipt")
          /\ \A i \in Whole : \A tx \in Range(TxsOf[blocks.item[i]]) :
               transactionReceipts[tx] = blocks.item[i]
          /\ TopTxs("tx") \subseteq transactions
          /\ \A tx \in TopTxs("receipt") :
               tx \in DOMAIN transactionReceipts /\ transactionReceipts[tx] = b
      BY <1>1, <2>2 DEF TxsSound
    <3>4. /\ w[1] \in {"tx", "receipt"} => w[2] \in Range(TxsOf[b]) /\ w = <<w[1], w[2]>>
          /\ \A kind, tx : <<kind, tx>> = w => kind = w[1] /\ tx = w[2]
      <4>1. w[1] \in {"tx", "receipt"} => w \in TxDeletes(b)
        BY <1>1, AWrite, Kinds
      <4>2. w[1] \in {"tx", "receipt"} => w[2] \in Range(TxsOf[b]) /\ w = <<w[1], w[2]>>
        BY <4>1, Kinds
      <4>3. \A kind, tx : <<kind, tx>>[1] = kind /\ <<kind, tx>>[2] = tx
        OBVIOUS
      <4>4. \A kind, tx : <<kind, tx>> = w => kind = w[1] /\ tx = w[2]
        BY <4>3
      <4>5. QED
        BY <4>2, <4>4
    <3>5. /\ \A tx : tx \in TopTxs("tx")' <=>
                       tx \in TopTxs("tx") \/ (w[1] = "tx" /\ tx = w[2])
          /\ \A tx : tx \in TopTxs("receipt")' <=>
                       tx \in TopTxs("receipt") \/ (w[1] = "receipt" /\ tx = w[2])
      BY <1>3, <3>1, <3>2, <3>4
    <3>6. /\ TxsBelow \subseteq transactions'
          /\ transactions' \subseteq TxsBelow \cup TopTxs("tx")'
          /\ TopTxs("tx")' \subseteq transactions'
      BY <1>2, <3>3, <3>5
    <3>7. ASSUME NEW i \in Whole, NEW tx \in Range(TxsOf[blocks.item[i]])
          PROVE  /\ tx \in TxsBelow /\ tx \notin Range(TxsOf[b])
                 /\ transactionReceipts'[tx] = blocks.item[i]
      <4>1. tx \in TxsBelow
        BY DEF TxsBelow
      <4>2. tx \notin Range(TxsOf[b])
        BY <2>6
      <4>3. w[1] = "receipt" => tx # w[2]
        BY <3>4, <4>2
      <4>4. tx \in DOMAIN transactionReceipts /\ transactionReceipts[tx] = blocks.item[i]
        BY <3>3, <4>1
      <4>5. transactionReceipts'[tx] = transactionReceipts[tx]
        <5>1. CASE w[1] = "receipt"
          <6>1. transactionReceipts' = Put(transactionReceipts, w[2], b)
            BY <1>2, <5>1
          <6>2. QED
            BY <4>3, <4>4, <5>1, <6>1 DEF Put
        <5>2. CASE w[1] # "receipt"
          BY <1>2, <5>2
        <5>3. QED
          BY <5>1, <5>2
      <4>6. QED
        BY <4>1, <4>2, <4>4, <4>5
    <3>8. /\ TxsBelow \subseteq DOMAIN transactionReceipts'
          /\ DOMAIN transactionReceipts' \subseteq TxsBelow \cup TopTxs("receipt")'
          /\ \A tx \in TopTxs("receipt")' :
               tx \in DOMAIN transactionReceipts' /\ transactionReceipts'[tx] = b
      <4>1. CASE w[1] = "receipt"
        <5>1. transactionReceipts' = Put(transactionReceipts, w[2], b)
          BY <1>2, <4>1
        <5>2. /\ DOMAIN transactionReceipts' = DOMAIN transactionReceipts \cup {w[2]}
              /\ transactionReceipts'[w[2]] = b
              /\ \A k \in DOMAIN transactionReceipts :
                   k # w[2] => transactionReceipts'[k] = transactionReceipts[k]
          BY <5>1 DEF Put
        <5>3. QED
          BY <3>3, <3>5, <4>1, <5>2
      <4>2. CASE w[1] # "receipt"
        BY <1>2, <3>3, <3>5, <4>2
      <4>3. QED
        BY <4>1, <4>2
    <3>9. \A i \in Whole : \A tx \in Range(TxsOf[blocks'.item[i]]) :
            transactionReceipts'[tx] = blocks'.item[i]
      BY <2>4, <3>7
    <3>10. QED
      BY <1>4, <2>3, <2>5, <3>6, <3>8, <3>9 DEF TxsSound
  <2>10. QED
    BY <2>5, <2>7, <2>8, <2>9
<1>14. StoreSound'
  <2>1. restarts = 0 => torn' = {}
    BY <1>1 DEF StoreInv, StoreSound
  <2>2. job' # Unopenable
    BY <1>4 DEF Unopenable
  <2>3. QED
    BY <1>1, <1>13, <2>1, <2>2 DEF StoreSound
<1>15. QED
  BY <1>10, <1>11, <1>12, <1>14 DEF StoreInv
-----------------------------------------------------------------------------
(* The first state, and the beginning and the end of a put.                 *)

LEMMA Idle ==
  ASSUME job = Quiet
  PROVE  Made = {} /\ TopBlock = {} /\ ~LastGone /\ Base = blocks.length
<1>1. job.op = "none" /\ job # Unopenable
  BY DEF Quiet, Unopenable
<1>2. Made = {} /\ TopBlock = {} /\ ~LastGone
  BY <1>1 DEF Made, TopBlock, LastGone
<1>3. QED
  BY <1>2 DEF Base

LEMMA InitKeeps == ASSUME Init PROVE StoreInv
<1>1. /\ blocks = [length |-> 0, item |-> <<>>] /\ blockLogs = [length |-> 0, item |-> <<>>]
      /\ blockHashes = <<>> /\ transactions = {} /\ transactionReceipts = <<>>
      /\ root = NoBlock /\ torn = {} /\ job = Quiet /\ restarts = 0
  BY DEF Init, Empty
<1>2. DOMAIN <<>> = {}
  OBVIOUS
<1>3. /\ blocks.length = 0 /\ DOMAIN blocks.item = {}
      /\ blockLogs.length = 0 /\ DOMAIN blockLogs.item = {}
      /\ DOMAIN blockHashes = {} /\ DOMAIN transactionReceipts = {}
  BY <1>1, <1>2
<1>4. IsList(blocks) /\ IsList(blockLogs)
  BY <1>1, <1>2 DEF IsList
<1>5. job.op = "none" /\ job # Unopenable
  BY <1>1 DEF Quiet, Unopenable
<1>6. TypeOK
  <2>1. /\ blockHashes \in [DOMAIN blockHashes -> Nat]
        /\ transactionReceipts \in [DOMAIN transactionReceipts -> BlockIds]
    BY <1>1, <1>2
  <2>2. restarts \in 0..MaxRestarts
    BY <1>1, OptionsAssumption
  <2>3. QED
    BY <1>1, <1>3, <1>4, <2>1, <2>2 DEF TypeOK
<1>7. PopShape
  BY <1>5 DEF PopShape
<1>8. Made = {} /\ TopBlock = {} /\ ~LastGone /\ Base = 0 /\ Whole = {}
  <2>1. Made = {} /\ TopBlock = {} /\ ~LastGone /\ Base = 0
    BY <1>1, <1>3, Idle
  <2>2. QED
    BY <2>1 DEF Whole
<1>9. CanBeRead
  BY <1>3, <1>5, <1>8 DEF CanBeRead
<1>10. ListsSound
  BY <1>3, <1>8 DEF ListsSound, Top
<1>11. HashesSound /\ Distinct
  BY <1>3, <1>8 DEF HashesSound, Distinct
<1>12. TxsSound
  BY <1>1, <1>3, <1>5, <1>8 DEF TxsSound, TxsBelow, TopTxs
<1>13. QED
  BY <1>1, <1>5, <1>6, <1>7, <1>9, <1>10, <1>11, <1>12 DEF StoreInv, StoreSound

LEMMA StartPutKeeps ==
  ASSUME StoreInv, NEW b \in BlockIds, StartPut(b)
  PROVE  StoreInv'
<1>1. /\ TypeOK /\ PopShape /\ CanBeRead /\ job = Quiet
      /\ job' = [op |-> "put", block |-> b, index |-> blocks.length, todo |-> PutWrites(b)]
      /\ UNCHANGED <<blocks, blockLogs, blockHashes, transactions, transactionReceipts>>
      /\ root' = b /\ torn' = torn /\ restarts' = restarts /\ blocks.length \in Nat
  BY DEF StoreInv, StartPut, TypeOK, IsList, store
<1>2. /\ job'.op = "put" /\ job'.block = b /\ job'.index = blocks.length
      /\ job'.todo = PutWrites(b) /\ job' # Unopenable
  BY <1>1 DEF Unopenable
<1>3. Made = {} /\ TopBlock = {} /\ ~LastGone /\ Base = blocks.length
  BY <1>1, Idle
<1>4. Made' = {} /\ TopBlock' = {b} /\ ~LastGone' /\ Base' = blocks.length
  <2>1. Made' = {}
    BY <1>2 DEF Made
  <2>2. QED
    BY <1>1, <1>2, <2>1 DEF TopBlock, LastGone, Base
<1>5. TypeOK'
  <2>1. job' \in [op : {"put"}, block : {b}, index : Nat, todo : SUBSET PutWrites(b)]
    BY <1>1
  <2>2. QED
    BY <1>1, <2>1 DEF TypeOK
<1>6. PopShape'
  BY <1>2 DEF PopShape
<1>7. CanBeRead'
  BY <1>1, <1>2, <1>3, <1>4 DEF CanBeRead
<1>8. ASSUME restarts = 0 PROVE (ListsSound /\ HashesSound /\ Distinct /\ TxsSound)'
  <2>1. ListsSound /\ HashesSound /\ Distinct /\ TxsSound
    BY <1>8 DEF StoreInv, StoreSound
  <2>2. Base' = Base /\ Whole' = Whole /\ TxsBelow' = TxsBelow
    BY <1>1, <1>3, <1>4 DEF Whole, TxsBelow
  <2>3. ListsSound'
    BY <1>1, <1>3, <1>4, <2>1, <2>2 DEF ListsSound, Top
  <2>4. HashesSound'
    BY <1>1, <1>3, <1>4, <2>1, <2>2 DEF HashesSound
  <2>5. \A i \in Whole : Unlike(blocks.item[i], b)
    <3>1. Whole = Indices /\ Whole \subseteq DOMAIN blocks.item
      BY <1>3, <2>1 DEF ListsSound, Whole, Indices
    <3>2. QED
      BY <3>1 DEF StartPut, Holds, Unlike
  <2>6. Distinct'
    BY <1>1, <1>4, <2>1, <2>2, <2>5 DEF Distinct
  <2>7. TxsSound'
    <3>1. TopTxs("tx") = {} /\ TopTxs("receipt") = {}
      BY <1>3 DEF TopTxs
    <3>2. TopTxs("tx")' = {} /\ TopTxs("receipt")' = {}
      BY <1>4 DEF TopTxs
    <3>3. QED
      BY <1>1, <2>1, <2>2, <3>1, <3>2 DEF TxsSound
  <2>8. QED
    BY <2>3, <2>4, <2>6, <2>7
<1>9. QED
  BY <1>1, <1>2, <1>5, <1>6, <1>7, <1>8 DEF StoreInv, StoreSound

\* Every write of a job on b is there.
LEMMA AllThere ==
  ASSUME NEW b \in BlockIds, Made = PutWrites(b), TopBlock = {b}
  PROVE  /\ Of("item") \in Made /\ Of("length") \in Made /\ Of("logs item") \in Made
         /\ Of("logs length") \in Made /\ Of("hash") \in Made
         /\ TopTxs("tx") = Range(TxsOf[b]) /\ TopTxs("receipt") = Range(TxsOf[b])
<1>1. \A tx \in Range(TxsOf[b]) : <<"tx", tx>> \in Made /\ <<"receipt", tx>> \in Made
  BY DEF PutWrites
<1>2. /\ Of("item") \in Made /\ Of("length") \in Made /\ Of("logs item") \in Made
      /\ Of("logs length") \in Made /\ Of("hash") \in Made
  BY DEF PutWrites
<1>3. QED
  BY <1>1, <1>2 DEF TopTxs

LEMMA FinishPutKeeps == ASSUME StoreInv, FinishPut PROVE StoreInv'
<1> DEFINE b == job.block
<1>1. /\ TypeOK /\ PopShape /\ CanBeRead /\ job.op = "put" /\ job.todo = {} /\ job' = Quiet
      /\ UNCHANGED <<blocks, blockLogs, blockHashes, transactions, transactionReceipts>>
      /\ root' = root /\ torn' = torn /\ restarts' = restarts /\ blocks.length \in Nat
  BY DEF StoreInv, FinishPut, TypeOK, IsList, store
<1>2. b \in BlockIds /\ job.index \in Nat
  BY <1>1, JobTypes
<1>3. Made = PutWrites(b) /\ TopBlock = {b} /\ ~LastGone
  BY <1>1 DEF Made, TopBlock, LastGone, Unopenable
<1>4. /\ Of("item") \in Made /\ Of("length") \in Made /\ Of("logs item") \in Made
      /\ Of("logs length") \in Made /\ Of("hash") \in Made
      /\ TopTxs("tx") = Range(TxsOf[b]) /\ TopTxs("receipt") = Range(TxsOf[b])
  BY <1>2, <1>3, AllThere
<1>5. job'.op = "none" /\ job' # Unopenable
  BY <1>1 DEF Quiet, Unopenable
<1>6. Made' = {} /\ TopBlock' = {} /\ ~LastGone' /\ Base' = blocks.length
  <2>1. Made' = {}
    BY <1>5 DEF Made
  <2>2. QED
    BY <1>1, <1>5, <2>1 DEF TopBlock, LastGone, Base
<1>7. TypeOK'
  BY <1>1 DEF TypeOK
<1>8. PopShape'
  BY <1>5 DEF PopShape
<1>9. CanBeRead'
  BY <1>1, <1>3, <1>5, <1>6 DEF CanBeRead
<1>10. ASSUME restarts = 0 PROVE (ListsSound /\ HashesSound /\ Distinct /\ TxsSound)'
  <2> DEFINE n == job.index
  <2>1. ListsSound /\ HashesSound /\ Distinct /\ TxsSound
    BY <1>10 DEF StoreInv, StoreSound
  <2>2. blocks.length = n + 1 /\ Base = n
    <3>1. blocks.length = n + 1
      BY <1>1, <1>4 DEF CanBeRead
    <3>2. (n + 1) - 1 = n
      BY <1>2
    <3>3. QED
      BY <1>4, <3>1, <3>2 DEF Base
  <2>3. Whole = 0..n - 1 /\ Whole' = Whole \cup {n} /\ n \notin Whole /\ Base' = n + 1
    <3>1. Whole = 0..n - 1 /\ Base' = n + 1 /\ Whole' = 0..(n + 1) - 1
      BY <1>1, <1>6, <2>2 DEF Whole
    <3>2. 0..(n + 1) - 1 = 0..n - 1 \cup {n} /\ n \notin 0..n - 1
      BY <1>2
    <3>3. QED
      BY <3>1, <3>2
  <2>4. /\ DOMAIN blocks.item = Whole \cup {n} /\ blockLogs.length = n + 1
        /\ DOMAIN blockLogs.item = Whole \cup {n}
        /\ \A i \in Whole : blockLogs.item[i] = blocks.item[i]
        /\ blocks.item[n] = b /\ blockLogs.item[n] = b
    BY <1>4, <2>1, <2>2 DEF ListsSound, Top
  <2>5. ListsSound'
    BY <1>1, <1>5, <1>6, <2>2, <2>3, <2>4 DEF ListsSound, Top
  <2>6. HashesSound'
    <3>1. /\ DOMAIN blockHashes = {blocks.item[i] : i \in Whole} \cup {b}
          /\ \A i \in Whole : blockHashes[blocks.item[i]] = i
          /\ blockHashes[b] = n
      BY <1>4, <2>1, <2>2 DEF HashesSound
    <3>2. DOMAIN blockHashes = {blocks.item[i] : i \in Whole \cup {n}}
      BY <2>4, <3>1
    <3>3. \A i \in Whole \cup {n} : blockHashes[blocks.item[i]] = i
      BY <2>4, <3>1
    <3>4. QED
      BY <1>1, <1>6, <2>3, <3>2, <3>3 DEF HashesSound
  <2>7. Distinct'
    <3>1. \A i \in Whole : Unlike(blocks.item[i], blocks.item[n])
      BY <1>3, <2>1, <2>4 DEF Distinct
    <3>2. \A i \in Whole : Unlike(blocks.item[n], blocks.item[i])
      BY <3>1 DEF Unlike
    <3>3. \A i, j \in Whole \cup {n} : i # j => Unlike(blocks.item[i], blocks.item[j])
      BY <2>1, <3>1, <3>2 DEF Distinct
    <3>4. QED
      BY <1>1, <1>6, <2>3, <3>3 DEF Distinct
  <2>8. TxsSound'
    <3>1. TopTxs("tx")' = {} /\ TopTxs("receipt")' = {}
      BY <1>6 DEF TopTxs
    <3>2. TxsBelow' = TxsBelow \cup Range(TxsOf[b])
      BY <1>1, <2>3, <2>4 DEF TxsBelow
    <3>3. /\ transactions = TxsBelow'
          /\ DOMAIN transactionReceipts = TxsBelow'
      BY <1>1, <1>4, <2>1, <3>2 DEF TxsSound
    <3>4. \A i \in Whole : \A tx \in Range(TxsOf[blocks.item[i]]) :
            transactionReceipts[tx] = blocks.item[i]
      BY <2>1 DEF TxsSound
    <3>5. \A tx \in Range(TxsOf[blocks.item[n]]) : transactionReceipts[tx] = blocks.item[n]
      <4>1. \A tx \in TopTxs("receipt") : transactionReceipts[tx] = b
        BY <1>1, <2>1 DEF TxsSound
      <4>2. QED
        BY <1>4, <2>4, <4>1
    <3>6. \A i \in Whole' : \A tx \in Range(TxsOf[blocks.item[i]]) :
            transactionReceipts[tx] = blocks.item[i]
      BY <2>3, <3>4, <3>5
    <3>7. QED
      BY <1>1, <1>5, <3>1, <3>3, <3>6 DEF TxsSound
  <2>9. QED
    BY <2>5, <2>6, <2>7, <2>8
<1>11. QED
  BY <1>1, <1>5, <1>7, <1>8, <1>9, <1>10 DEF StoreInv, StoreSound
-----------------------------------------------------------------------------
(* The beginning of a pop.                                                  *)

LEMMA StartPopKeeps == ASSUME StoreInv, StartPop PROVE StoreInv'
<1> DEFINE n == blocks.length - 1
           b == blocks.item[n]
<1>1. /\ TypeOK /\ PopShape /\ CanBeRead /\ job = Quiet /\ blocks.length > 1
      /\ job' = [op |-> "pop", block |-> LastBlock, todo |-> PopWrites(LastBlock)]
      /\ UNCHANGED <<blocks, blockLogs, blockHashes, transactions, transactionReceipts>>
      /\ root' = root /\ torn' = torn /\ restarts' = restarts /\ blocks.length \in Nat
  BY DEF StoreInv, StartPop, TypeOK, IsList, store
<1>2. n \in Nat /\ n > 0 /\ blocks.length = n + 1
  BY <1>1
<1>3. Made = {} /\ TopBlock = {} /\ ~LastGone /\ Base = blocks.length
  BY <1>1, Idle
<1>4. b \in BlockIds /\ LastBlock = b /\ n \in DOMAIN blocks.item
  <2>1. 0..n \subseteq DOMAIN blocks.item
    BY <1>1, <1>3 DEF CanBeRead
  <2>2. n \in DOMAIN blocks.item
    BY <1>2, <2>1
  <2>3. b \in BlockIds
    BY <1>1, <2>2 DEF TypeOK, IsList
  <2>4. QED
    BY <1>1, <2>2, <2>3 DEF LastBlock
<1> HIDE DEF n, b
<1>5. /\ PopWrites(b) \in Seq(PutWrites(b)) /\ Range(PopWrites(b)) = PutWrites(b)
      /\ Len(PopWrites(b)) >= 5 /\ Len(PopWrites(b)) \in Nat
      /\ Shape(PopWrites(b), b)
      /\ Len(PopWrites(b)) # 4 /\ Len(PopWrites(b)) # 1
  <2>1. \A l \in Nat : l >= 5 => l # 4 /\ l # 1
    OBVIOUS
  <2>2. /\ PopWrites(b) \in Seq(PutWrites(b)) /\ Range(PopWrites(b)) = PutWrites(b)
        /\ Len(PopWrites(b)) >= 5 /\ Shape(PopWrites(b), b)
    BY <1>4, PopWritesAre
  <2>3. Len(PopWrites(b)) \in Nat
    BY <2>2
  <2>4. QED
    BY <2>1, <2>2, <2>3
<1>6. /\ job' = [op |-> "pop", block |-> b, todo |-> PopWrites(b)]
      /\ job'.op = "pop" /\ job'.block = b /\ job'.todo = PopWrites(b)
      /\ job' # Unopenable
  BY <1>1, <1>4 DEF Unopenable
<1>7. Made' = PutWrites(b) /\ TopBlock' = {b} /\ ~LastGone'
  <2>1. Made' = PutWrites(b)
    BY <1>5, <1>6 DEF Made
  <2>2. QED
    BY <1>5, <1>6, <2>1 DEF TopBlock, LastGone
<1>8. /\ Of("item") \in Made' /\ Of("length") \in Made' /\ Of("logs item") \in Made'
      /\ Of("logs length") \in Made' /\ Of("hash") \in Made'
      /\ TopTxs("tx")' = Range(TxsOf[b]) /\ TopTxs("receipt")' = Range(TxsOf[b])
  <2>1. \A tx \in Range(TxsOf[b]) : <<"tx", tx>> \in Made' /\ <<"receipt", tx>> \in Made'
    BY <1>7 DEF PutWrites
  <2>2. /\ Of("item") \in Made' /\ Of("length") \in Made' /\ Of("logs item") \in Made'
        /\ Of("logs length") \in Made' /\ Of("hash") \in Made'
    BY <1>7 DEF PutWrites
  <2>3. QED
    BY <1>7, <2>1, <2>2 DEF TopTxs
<1>9. TypeOK'
  <2>1. job' \in [op : {"pop"}, block : {b}, todo : Seq(PutWrites(b))]
    BY <1>5, <1>6
  <2>2. QED
    BY <1>1, <1>4, <2>1 DEF TypeOK
<1>10. PopShape'
  BY <1>5, <1>6 DEF PopShape
<1>11. CanBeRead'
  <2>1. 0..blocks.length - 1 \subseteq DOMAIN blocks.item
    BY <1>1, <1>3 DEF CanBeRead
  <2>2. Len(job'.todo) # 4
    BY <1>5, <1>6
  <2>3. /\ 0..(IF LastGone' THEN blocks'.length - 2 ELSE blocks'.length - 1)
             \subseteq DOMAIN blocks'.item
        /\ blocks'.length > 0 /\ blocks'.length > 1
    BY <1>1, <1>7, <2>1
  <2>4. QED
    BY <1>6, <2>2, <2>3 DEF CanBeRead
<1>12. ASSUME restarts = 0 PROVE (ListsSound /\ HashesSound /\ Distinct /\ TxsSound)'
  <2>1. ListsSound /\ HashesSound /\ Distinct /\ TxsSound
    BY <1>12 DEF StoreInv, StoreSound
  <2>2. Base = n + 1 /\ Base' = n
    <3>1. Base' = blocks.length - 1
      BY <1>1, <1>8 DEF Base
    <3>2. QED
      BY <1>2, <1>3, <3>1
  <2>3. Whole' = 0..n - 1 /\ Whole = Whole' \cup {n} /\ n \notin Whole'
    <3>1. Whole = 0..(n + 1) - 1 /\ Whole' = 0..n - 1
      BY <2>2 DEF Whole
    <3>2. 0..(n + 1) - 1 = 0..n - 1 \cup {n} /\ n \notin 0..n - 1
      BY <1>2
    <3>3. QED
      BY <3>1, <3>2
  <2>4. blocks.item[n] = b
    BY DEF b
  <2>5. ListsSound'
    <3>1. /\ DOMAIN blocks.item = Whole /\ blockLogs.length = n + 1
          /\ DOMAIN blockLogs.item = Whole
          /\ \A i \in Whole : blockLogs.item[i] = blocks.item[i]
      BY <1>3, <2>1, <2>2 DEF ListsSound, Top
    <3>2. QED
      BY <1>1, <1>6, <1>8, <2>2, <2>3, <2>4, <3>1 DEF ListsSound, Top
  <2>6. HashesSound'
    <3>1. /\ DOMAIN blockHashes = {blocks.item[i] : i \in Whole}
          /\ \A i \in Whole : blockHashes[blocks.item[i]] = i
      BY <1>3, <2>1 DEF HashesSound
    <3>2. /\ DOMAIN blockHashes = {blocks.item[i] : i \in Whole'} \cup {b}
          /\ blockHashes[b] = n
      <4> DEFINE below == Whole'
      <4>1. Whole = below \cup {n}
        BY <2>3
      <4> HIDE DEF below
      <4>2. {blocks.item[i] : i \in Whole} = {blocks.item[i] : i \in below} \cup {b}
        BY <2>4, <4>1
      <4>3. blockHashes[b] = n
        BY <2>4, <3>1, <4>1
      <4>4. QED
        BY <3>1, <4>2, <4>3 DEF below
    <3>3. \A i \in Whole' : blockHashes[blocks.item[i]] = i
      BY <2>3, <3>1
    <3>4. QED
      BY <1>1, <1>6, <1>8, <2>2, <3>2, <3>3 DEF HashesSound
  <2>7. Distinct'
    <3>1. \A i \in Whole' : Unlike(blocks.item[i], b)
      BY <2>1, <2>3, <2>4 DEF Distinct
    <3>2. QED
      BY <1>1, <1>7, <2>1, <2>3, <3>1 DEF Distinct
  <2>8. TxsSound'
    <3>1. TopTxs("tx") = {} /\ TopTxs("receipt") = {}
      BY <1>3 DEF TopTxs
    <3>2. TxsBelow = TxsBelow' \cup Range(TxsOf[b])
      BY <1>1, <2>3, <2>4 DEF TxsBelow
    <3>3. transactions = TxsBelow /\ DOMAIN transactionReceipts = TxsBelow
      BY <2>1, <3>1 DEF TxsSound
    <3>4. \A i \in Whole' : \A tx \in Range(TxsOf[blocks.item[i]]) :
            transactionReceipts[tx] = blocks.item[i]
      BY <2>1, <2>3 DEF TxsSound
    <3>5. QED
      BY <1>1, <1>6, <1>8, <3>2, <3>3, <3>4 DEF TxsSound
  <2>9. QED
    BY <2>5, <2>6, <2>7, <2>8
<1>13. QED
  BY <1>1, <1>6, <1>9, <1>10, <1>11, <1>12 DEF StoreInv, StoreSound
-----------------------------------------------------------------------------
(* A deletion of popBlock.                                                  *)

\* What changes with it.
LEMMA PopWriteIs ==
  ASSUME TypeOK, PopShape, PopWrite
  PROVE  LET b == job.block
             w == Head(job.todo)
             m == Len(job.todo)
         IN  /\ job.op = "pop" /\ job.todo # <<>> /\ b \in BlockIds /\ w \in PutWrites(b)
             /\ m \in Nat /\ m >= 1
             /\ job' = [op |-> "pop", block |-> b, todo |-> Tail(job.todo)]
             /\ Tail(job.todo) \in Seq(PutWrites(b)) /\ Shape(Tail(job.todo), b)
             /\ Len(Tail(job.todo)) = m - 1
             /\ Made = Range(job.todo) /\ Made' = Range(Tail(job.todo))
             /\ Made = Made' \cup {w}
             /\ TopBlock = {b} /\ TopBlock' = {b}
             /\ UNCHANGED <<root, restarts>> /\ torn' \subseteq torn
<1>1. job.op = "pop" /\ job.todo # <<>>
  BY DEF PopWrite
<1>2. /\ job.block \in BlockIds /\ job.todo \in Seq(PutWrites(job.block))
      /\ job = [op |-> "pop", block |-> job.block, todo |-> job.todo]
  BY <1>1, JobTypes
<1>3. Head(job.todo) \in PutWrites(job.block)
  BY <1>1, <1>2, HeadTailProperties
<1>4. job' = [op |-> "pop", block |-> job.block, todo |-> Tail(job.todo)]
  <2> DEFINE rest == Tail(job.todo)
  <2>1. job' = [job EXCEPT !.todo = rest]
    BY DEF PopWrite
  <2> HIDE DEF rest
  <2>2. job' = [op |-> "pop", block |-> job.block, todo |-> rest]
    BY <1>2, <2>1
  <2>3. QED
    BY <2>2 DEF rest
<1>5. job'.op = "pop" /\ job'.block = job.block /\ job'.todo = Tail(job.todo)
  BY <1>4
<1>6. Made = Range(job.todo) /\ Made' = Range(Tail(job.todo))
  BY <1>1, <1>5 DEF Made
<1>7. TopBlock = {job.block} /\ TopBlock' = {job.block}
  BY <1>1, <1>5 DEF TopBlock
<1>8. UNCHANGED <<root, restarts>> /\ torn' \subseteq torn
  BY DEF PopWrite
<1>9. QED
  BY <1>1, <1>2, <1>3, <1>4, <1>6, <1>7, <1>8, PopHead

LEMMA PopWriteStore ==
  ASSUME PopWrite
  PROVE  LET b == job.block
             w == Head(job.todo)
         IN  /\ blocks' = IF w = Of("item") THEN WithoutItem(blocks, blocks.length - 1)
                          ELSE IF w = Of("length") THEN WithLength(blocks, blocks.length - 1)
                          ELSE blocks
             /\ blockLogs' = IF w = Of("logs item")
                               THEN WithoutItem(blockLogs, blockLogs.length - 1)
                             ELSE IF w = Of("logs length")
                               THEN WithLength(blockLogs, blockLogs.length - 1)
                             ELSE blockLogs
             /\ blockHashes' = IF w = Of("hash") THEN Del(blockHashes, b) ELSE blockHashes
             /\ transactions' = IF w[1] = "tx" THEN transactions \ {w[2]}
                                ELSE transactions
             /\ transactionReceipts' =
                  IF w[1] = "receipt" THEN Del(transactionReceipts, w[2])
                  ELSE transactionReceipts
             /\ ~ReadFails(w)
<1> DEFINE w == Head(job.todo)
<1>1. /\ ~ReadFails(w)
      /\ blocks' = CASE w = Of("item")   -> WithoutItem(blocks, blocks.length - 1)
                     [] w = Of("length") -> WithLength(blocks, blocks.length - 1)
                     [] OTHER            -> blocks
      /\ blockLogs' =
           CASE w = Of("logs item") -> WithoutItem(blockLogs, blockLogs.length - 1)
             [] w = Of("logs length") -> WithLength(blockLogs, blockLogs.length - 1)
             [] OTHER -> blockLogs
      /\ blockHashes' = IF w = Of("hash") THEN Del(blockHashes, job.block) ELSE blockHashes
      /\ transactions' = transactions \ (IF w[1] = "tx" THEN {w[2]} ELSE {})
      /\ transactionReceipts' = ReceiptsWithout(transactionReceipts, w)
  BY DEF PopWrite
<1> HIDE DEF w
<1>2. transactionReceipts' = IF w[1] = "receipt" THEN Del(transactionReceipts, w[2])
                             ELSE transactionReceipts
  BY <1>1 DEF ReceiptsWithout
<1>3. transactions' = IF w[1] = "tx" THEN transactions \ {w[2]} ELSE transactions
  BY <1>1
<1>4. /\ blocks' = IF w = Of("item") THEN WithoutItem(blocks, blocks.length - 1)
                   ELSE IF w = Of("length") THEN WithLength(blocks, blocks.length - 1)
                   ELSE blocks
      /\ blockLogs' = IF w = Of("logs item") THEN WithoutItem(blockLogs, blockLogs.length - 1)
                      ELSE IF w = Of("logs length")
                        THEN WithLength(blockLogs, blockLogs.length - 1)
                      ELSE blockLogs
  BY <1>1, Kinds
<1>5. QED
  BY <1>1, <1>2, <1>3, <1>4 DEF w

\* Which writes are left, by how many.
LEMMA PopCounts ==
  ASSUME TypeOK, PopShape, PopWrite
  PROVE  LET m == Len(job.todo)
             w == Head(job.todo)
         IN  /\ Of("length") \in Made
             /\ (m # 1) <=> Of("length") \in Made'
             /\ (m = 1) <=> w = Of("length")
             /\ Of("item") \in Made <=> m >= 2
             /\ Of("item") \in Made' <=> m >= 3
             /\ (m = 2) <=> w = Of("item")
             /\ Of("hash") \in Made <=> m >= 3
             /\ Of("hash") \in Made' <=> m >= 4
             /\ (m = 3) <=> w = Of("hash")
             /\ Of("logs length") \in Made <=> m >= 4
             /\ Of("logs length") \in Made' <=> m >= 5
             /\ (m = 4) <=> w = Of("logs length")
             /\ Of("logs item") \in Made <=> m >= 5
             /\ Of("logs item") \in Made' <=> m >= 6
             /\ (m = 5) <=> w = Of("logs item")
             /\ m >= 6 <=> w \in TxDeletes(job.block)
<1> DEFINE m == Len(job.todo)
           w == Head(job.todo)
           rest == Tail(job.todo)
           b == job.block
<1>1. /\ job.op = "pop" /\ job.todo # <<>> /\ b \in BlockIds /\ w \in PutWrites(b)
      /\ m \in Nat /\ m >= 1
      /\ rest \in Seq(PutWrites(b)) /\ Shape(rest, b) /\ Len(rest) = m - 1
      /\ Made = Range(job.todo) /\ Made' = Range(rest)
  BY PopWriteIs
<1>2. job.todo \in Seq(PutWrites(b)) /\ Shape(job.todo, b)
  BY <1>1, JobTypes DEF PopShape
<1>3. /\ m > 5 => w \in TxDeletes(b)
      /\ m = 5 => w = Of("logs item")
      /\ m = 4 => w = Of("logs length")
      /\ m = 3 => w = Of("hash")
      /\ m = 2 => w = Of("item")
      /\ m = 1 => w = Of("length")
  BY <1>1, PopHead
<1>4. /\ Of("length") \in Made <=> m >= 1
      /\ Of("item") \in Made <=> m >= 2
      /\ Of("hash") \in Made <=> m >= 3
      /\ Of("logs length") \in Made <=> m >= 4
      /\ Of("logs item") \in Made <=> m >= 5
  BY <1>1, <1>2, Left
<1>5. /\ Of("length") \in Made' <=> m - 1 >= 1
      /\ Of("item") \in Made' <=> m - 1 >= 2
      /\ Of("hash") \in Made' <=> m - 1 >= 3
      /\ Of("logs length") \in Made' <=> m - 1 >= 4
      /\ Of("logs item") \in Made' <=> m - 1 >= 5
  BY <1>1, Left
<1>6. \A i \in 1..5 : Ends[i] \notin TxDeletes(b)
  BY EndsAre
<1>7. /\ Of("length") \notin TxDeletes(b) /\ Of("item") \notin TxDeletes(b)
      /\ Of("hash") \notin TxDeletes(b) /\ Of("logs length") \notin TxDeletes(b)
      /\ Of("logs item") \notin TxDeletes(b)
  <2>1. 1 \in 1..5 /\ 2 \in 1..5 /\ 3 \in 1..5 /\ 4 \in 1..5 /\ 5 \in 1..5
    OBVIOUS
  <2>2. QED
    BY <1>6, <2>1, EndsAre
<1> HIDE DEF m, w, rest, b
<1>8. m = 1 \/ m = 2 \/ m = 3 \/ m = 4 \/ m = 5 \/ m > 5
  BY <1>1
<1>9. /\ (m = 1) <=> w = Of("length")
      /\ (m = 2) <=> w = Of("item")
      /\ (m = 3) <=> w = Of("hash")
      /\ (m = 4) <=> w = Of("logs length")
      /\ (m = 5) <=> w = Of("logs item")
      /\ m > 5 <=> w \in TxDeletes(b)
  <2>1. CASE m = 1
    BY <1>3, <1>7, <2>1, Kinds
  <2>2. CASE m = 2
    BY <1>3, <1>7, <2>2, Kinds
  <2>3. CASE m = 3
    BY <1>3, <1>7, <2>3, Kinds
  <2>4. CASE m = 4
    BY <1>3, <1>7, <2>4, Kinds
  <2>5. CASE m = 5
    BY <1>3, <1>7, <2>5, Kinds
  <2>6. CASE m > 5
    BY <1>1, <1>3, <1>7, <2>6
  <2>7. QED
    BY <1>8, <2>1, <2>2, <2>3, <2>4, <2>5, <2>6
<1>10. /\ m >= 1
       /\ m - 1 >= 1 <=> m # 1
       /\ m - 1 >= 2 <=> m >= 3
       /\ m - 1 >= 3 <=> m >= 4
       /\ m - 1 >= 4 <=> m >= 5
       /\ m - 1 >= 5 <=> m >= 6
       /\ m > 5 <=> m >= 6
  BY <1>1
<1>11. QED
  BY <1>4, <1>5, <1>9, <1>10 DEF m, w, b

LEMMA PopWriteKeeps == ASSUME StoreInv, PopWrite PROVE StoreInv'
<1> DEFINE b == job.block
           w == Head(job.todo)
           m == Len(job.todo)
           n == blocks.length - 1
<1>1. /\ TypeOK /\ PopShape /\ CanBeRead /\ job.op = "pop" /\ b \in BlockIds
      /\ w \in PutWrites(b) /\ m \in Nat /\ m >= 1
      /\ job' = [op |-> "pop", block |-> b, todo |-> Tail(job.todo)]
      /\ Tail(job.todo) \in Seq(PutWrites(b)) /\ Shape(Tail(job.todo), b)
      /\ Len(Tail(job.todo)) = m - 1
      /\ Made = Made' \cup {w} /\ TopBlock = {b} /\ TopBlock' = {b}
      /\ root' = root /\ restarts' = restarts /\ torn' \subseteq torn
  BY PopWriteIs DEF StoreInv
<1>2. /\ Of("length") \in Made
      /\ (m # 1) <=> Of("length") \in Made'
      /\ (m = 1) <=> w = Of("length")
      /\ Of("item") \in Made <=> m >= 2
      /\ Of("item") \in Made' <=> m >= 3
      /\ (m = 2) <=> w = Of("item")
      /\ Of("hash") \in Made <=> m >= 3
      /\ Of("hash") \in Made' <=> m >= 4
      /\ (m = 3) <=> w = Of("hash")
      /\ Of("logs length") \in Made <=> m >= 4
      /\ Of("logs length") \in Made' <=> m >= 5
      /\ (m = 4) <=> w = Of("logs length")
      /\ Of("logs item") \in Made <=> m >= 5
      /\ Of("logs item") \in Made' <=> m >= 6
      /\ (m = 5) <=> w = Of("logs item")
      /\ m >= 6 <=> w \in TxDeletes(b)
  BY <1>1, PopCounts
<1>3. /\ blocks' = IF w = Of("item") THEN WithoutItem(blocks, n)
                   ELSE IF w = Of("length") THEN WithLength(blocks, n) ELSE blocks
      /\ blockLogs' = IF w = Of("logs item") THEN WithoutItem(blockLogs, blockLogs.length - 1)
                      ELSE IF w = Of("logs length")
                        THEN WithLength(blockLogs, blockLogs.length - 1)
                      ELSE blockLogs
      /\ blockHashes' = IF w = Of("hash") THEN Del(blockHashes, b) ELSE blockHashes
      /\ transactions' = IF w[1] = "tx" THEN transactions \ {w[2]} ELSE transactions
      /\ transactionReceipts' =
           IF w[1] = "receipt" THEN Del(transactionReceipts, w[2])
           ELSE transactionReceipts
      /\ ~ReadFails(w)
  BY PopWriteStore
<1>4. /\ job'.op = "pop" /\ job'.block = b /\ job'.todo = Tail(job.todo)
      /\ Len(job'.todo) = m - 1 /\ job' # Unopenable /\ job # Unopenable
  BY <1>1 DEF Unopenable
<1>5. /\ IsList(blocks) /\ IsList(blockLogs) /\ blockLogs.length \in Nat
      /\ blocks.length \in Nat /\ blocks.length > 1
      /\ m = 4 => blockLogs.length > 0
  BY <1>1, <1>2 DEF TypeOK, IsList, CanBeRead
<1>6. n \in Nat /\ n > 0 /\ blocks.length = n + 1
  BY <1>5
<1>7. Base = n
  BY <1>2 DEF Base
<1>left. m \in Nat /\ m >= 1 /\ Len(job'.todo) = m - 1
  BY <1>1, <1>4
<1> HIDE DEF n, m, w
<1>8. /\ IsList(blocks')
      /\ m = 1 => blocks'.length = n
      /\ m # 1 => blocks'.length = n + 1
      /\ m = 2 => DOMAIN blocks'.item = DOMAIN blocks.item \ {n}
      /\ m # 2 => blocks'.item = blocks.item
      /\ \A i \in DOMAIN blocks.item : i # n => blocks'.item[i] = blocks.item[i]
  <2>1. CASE m = 1
    <3>1. blocks' = WithLength(blocks, n)
      BY <1>2, <1>3, <2>1, Kinds
    <3>2. IsList(blocks') /\ blocks'.length = n /\ blocks'.item = blocks.item
      BY <1>5, <1>6, <3>1, WithLengthIs
    <3>3. QED
      BY <2>1, <3>2
  <2>2. CASE m = 2
    <3>1. blocks' = WithoutItem(blocks, n)
      BY <1>2, <1>3, <2>2
    <3>2. /\ IsList(blocks') /\ blocks'.length = blocks.length
          /\ DOMAIN blocks'.item = DOMAIN blocks.item \ {n}
          /\ \A i \in DOMAIN blocks.item : i # n => blocks'.item[i] = blocks.item[i]
      BY <1>5, <3>1, WithoutItemIs
    <3>3. QED
      BY <1>6, <2>2, <3>2
  <2>3. CASE m # 1 /\ m # 2
    <3>1. blocks' = blocks
      BY <1>2, <1>3, <2>3
    <3>2. QED
      BY <1>5, <1>6, <2>3, <3>1
  <2>4. QED
    BY <2>1, <2>2, <2>3
<1>9. blockLogs.length - 1 \in Nat \/ ~(m = 4 \/ m = 5)
  <2>1. CASE m = 4
    BY <1>5, <2>1
  <2>2. CASE m = 5
    <3>1. LogsReadable(blockLogs.length - 1)
      BY <1>2, <1>3, <2>2 DEF ReadFails
    <3>2. blockLogs.length - 1 \in DOMAIN blockLogs.item
      BY <3>1 DEF LogsReadable, Holds
    <3>3. QED
      BY <1>5, <3>2 DEF IsList
  <2>3. QED
    BY <2>1, <2>2
<1>10. /\ IsList(blockLogs')
       /\ m = 4 => blockLogs'.length = blockLogs.length - 1
       /\ m # 4 => blockLogs'.length = blockLogs.length
       /\ m = 5 => DOMAIN blockLogs'.item = DOMAIN blockLogs.item \ {blockLogs.length - 1}
       /\ m # 5 => blockLogs'.item = blockLogs.item
       /\ \A i \in DOMAIN blockLogs.item :
            i # blockLogs.length - 1 => blockLogs'.item[i] = blockLogs.item[i]
  <2> DEFINE l == blockLogs.length - 1
  <2>1. CASE m = 4
    <3>1. blockLogs' = WithLength(blockLogs, l) /\ l \in Nat
      BY <1>2, <1>3, <1>9, <2>1, Kinds
    <3> HIDE DEF l
    <3>2. IsList(blockLogs') /\ blockLogs'.length = l /\ blockLogs'.item = blockLogs.item
      BY <1>5, <3>1, WithLengthIs
    <3>3. QED
      BY <2>1, <3>2 DEF l
  <2>2. CASE m = 5
    <3>1. blockLogs' = WithoutItem(blockLogs, l)
      BY <1>2, <1>3, <2>2
    <3> HIDE DEF l
    <3>2. /\ IsList(blockLogs') /\ blockLogs'.length = blockLogs.length
          /\ DOMAIN blockLogs'.item = DOMAIN blockLogs.item \ {l}
          /\ \A i \in DOMAIN blockLogs.item :
               i # l => blockLogs'.item[i] = blockLogs.item[i]
      BY <1>5, <3>1, WithoutItemIs
    <3>3. QED
      BY <2>2, <3>2 DEF l
  <2>3. CASE m # 4 /\ m # 5
    <3>1. blockLogs' = blockLogs
      BY <1>2, <1>3, <2>3
    <3>2. QED
      BY <1>5, <2>3, <3>1
  <2>4. QED
    BY <2>1, <2>2, <2>3
<1>11. TypeOK'
  <2>1. DOMAIN blockHashes' \subseteq BlockIds /\ blockHashes' \in [DOMAIN blockHashes' -> Nat]
    <3>1. DOMAIN blockHashes \subseteq BlockIds /\ blockHashes \in [DOMAIN blockHashes -> Nat]
      BY <1>1 DEF TypeOK
    <3>2. QED
      BY <1>3, <3>1 DEF Del
  <2>2. /\ DOMAIN transactionReceipts' \subseteq Txs
        /\ transactionReceipts' \in [DOMAIN transactionReceipts' -> BlockIds]
    <3>1. /\ DOMAIN transactionReceipts \subseteq Txs
          /\ transactionReceipts \in [DOMAIN transactionReceipts -> BlockIds]
      BY <1>1 DEF TypeOK
    <3>2. QED
      BY <1>3, <3>1 DEF Del
  <2>3. transactions' \subseteq Txs
    BY <1>1, <1>3 DEF TypeOK
  <2>4. job' \in [op : {"pop"}, block : {b}, todo : Seq(PutWrites(b))]
    BY <1>1
  <2>5. root' \in BlockIds \cup {NoBlock} /\ restarts' \in 0..MaxRestarts
    BY <1>1 DEF TypeOK
  <2>6. QED
    BY <1>1, <1>8, <1>10, <2>1, <2>2, <2>3, <2>4, <2>5 DEF TypeOK
<1>12. PopShape'
  BY <1>1, <1>4 DEF PopShape
<1>13. LastGone <=> m = 1
  BY <1>1, <1>4 DEF LastGone, m
<1>14. LastGone' <=> m = 2
  <2>1. m - 1 = 1 <=> m = 2
    BY <1>left
  <2>2. LastGone' <=> Len(job'.todo) = 1
    BY <1>4 DEF LastGone
  <2>3. QED
    BY <1>left, <2>1, <2>2
<1>15. CanBeRead'
  <2>1. 0..n - 1 \subseteq DOMAIN blocks.item /\ (m # 1 => 0..n \subseteq DOMAIN blocks.item)
    <3>1. CASE m = 1
      <4>1. 0..blocks.length - 2 \subseteq DOMAIN blocks.item
        BY <1>1, <1>13, <3>1 DEF CanBeRead
      <4>2. blocks.length - 2 = n - 1
        BY <1>6
      <4>3. QED
        BY <3>1, <4>1, <4>2
    <3>2. CASE m # 1
      <4>1. 0..blocks.length - 1 \subseteq DOMAIN blocks.item
        BY <1>1, <1>13, <3>2 DEF CanBeRead
      <4>2. blocks.length - 1 = n /\ 0..n - 1 \subseteq 0..n
        BY <1>6
      <4>3. QED
        BY <4>1, <4>2
    <3>3. QED
      BY <3>1, <3>2
  <2>2. 0..n - 1 \subseteq DOMAIN blocks'.item
    <3>1. n \notin 0..n - 1
      BY <1>6
    <3>2. QED
      BY <1>8, <2>1, <3>1
  <2>3. /\ LastGone' => 0..blocks'.length - 2 \subseteq DOMAIN blocks'.item
        /\ ~LastGone' => 0..blocks'.length - 1 \subseteq DOMAIN blocks'.item
    <3>1. (n + 1) - 2 = n - 1 /\ (n + 1) - 1 = n
      BY <1>6
    <3>2. CASE m = 1
      BY <1>8, <1>14, <2>2, <3>2
    <3>3. CASE m = 2
      BY <1>8, <1>14, <2>2, <3>1, <3>3
    <3>4. CASE m # 1 /\ m # 2
      BY <1>8, <1>14, <2>1, <3>1, <3>4
    <3>5. QED
      BY <3>2, <3>3, <3>4
  <2>4. blocks'.length > 0 /\ (Of("length") \in Made' => blocks'.length > 1)
    <3>1. n + 1 > 1 /\ n + 1 > 0
      BY <1>6
    <3>2. CASE m = 1
      BY <1>2, <1>6, <1>8, <3>2
    <3>3. CASE m # 1
      BY <1>8, <3>1, <3>3
    <3>4. QED
      BY <3>2, <3>3
  <2>5. Len(job'.todo) = 4 => blockLogs'.length > 0
    <3>1. ASSUME m = 5 PROVE blockLogs'.length > 0
      BY <1>5, <1>9, <1>10, <3>1
    <3>2. m - 1 = 4 => m = 5
      BY <1>left
    <3>3. QED
      BY <1>left, <3>1, <3>2
  <2>6. QED
    BY <1>4, <2>3, <2>4, <2>5 DEF CanBeRead
<1>16. ASSUME restarts = 0 PROVE (ListsSound /\ HashesSound /\ Distinct /\ TxsSound)'
  <2>1. ListsSound /\ HashesSound /\ Distinct /\ TxsSound
    BY <1>16 DEF StoreInv, StoreSound
  <2>2. Base' = n
    <3>1. (n + 1) - 1 = n
      BY <1>6
    <3>2. QED
      BY <1>2, <1>8, <3>1 DEF Base
  <2>3. Whole = 0..n - 1 /\ n \notin Whole
    BY <1>6, <1>7 DEF Whole
  <2>4. /\ m >= 2 => DOMAIN blocks.item = Whole \cup {n}
        /\ ~(m >= 2) => DOMAIN blocks.item = Whole
        /\ m >= 4 => blockLogs.length = n + 1
        /\ ~(m >= 4) => blockLogs.length = n
        /\ m >= 5 => DOMAIN blockLogs.item = Whole \cup {n}
        /\ ~(m >= 5) => DOMAIN blockLogs.item = Whole
        /\ \A i \in Whole : blockLogs.item[i] = blocks.item[i]
        /\ m >= 2 => blocks.item[n] = b
        /\ m >= 5 => blockLogs.item[n] = b
    BY <1>2, <1>7, <2>1 DEF ListsSound, Top
  <2>5. \A i \in Whole : i \in DOMAIN blocks.item /\ i \in DOMAIN blockLogs.item
    BY <2>4
  <2>6. \A i \in Whole : blocks'.item[i] = blocks.item[i]
    BY <1>8, <2>3, <2>5
  <2>7. /\ Whole' = Whole /\ TxsBelow' = TxsBelow /\ Distinct'
        /\ {blocks.item[i] : i \in Whole}' = {blocks.item[i] : i \in Whole}
    BY <1>1, <1>7, <2>1, <2>2, <2>6, BelowStays
  <2>8. \A i \in Whole :
          blocks.item[i] # b /\ Range(TxsOf[blocks.item[i]]) \cap Range(TxsOf[b]) = {}
    BY <1>1, <2>1 DEF Distinct, Unlike
  <2>9. ListsSound'
    <3>1. /\ m >= 3 => DOMAIN blocks'.item = Whole \cup {n} /\ blocks'.item[n] = b
          /\ ~(m >= 3) => DOMAIN blocks'.item = Whole
      <4>1. CASE m = 1
        BY <1>8, <2>4, <4>1
      <4>2. CASE m = 2
        <5>1. m >= 2 /\ ~(m >= 3)
          BY <4>2
        <5>2. /\ DOMAIN blocks.item = Whole \cup {n}
              /\ DOMAIN blocks'.item = DOMAIN blocks.item \ {n}
          BY <1>8, <2>4, <4>2, <5>1
        <5>3. QED
          BY <2>3, <5>1, <5>2
      <4>3. CASE m >= 3
        <5>1. m >= 2 /\ m # 2
          BY <1>left, <4>3
        <5>2. QED
          BY <1>8, <2>4, <4>3, <5>1
      <4>4. m = 1 \/ m = 2 \/ m >= 3
        BY <1>left
      <4>5. QED
        BY <4>1, <4>2, <4>3, <4>4
    <3>2. /\ m >= 5 => blockLogs'.length = n + 1
          /\ ~(m >= 5) => blockLogs'.length = n
      <4>1. CASE m = 4
        BY <1>6, <1>10, <2>4, <4>1
      <4>2. CASE m >= 5
        BY <1>left, <1>10, <2>4, <4>2
      <4>3. CASE ~(m >= 4)
        BY <1>left, <1>10, <2>4, <4>3
      <4>4. m = 4 \/ m >= 5 \/ ~(m >= 4)
        BY <1>left
      <4>5. QED
        BY <4>1, <4>2, <4>3, <4>4
    <3>3. /\ m >= 6 => DOMAIN blockLogs'.item = Whole \cup {n} /\ blockLogs'.item[n] = b
          /\ ~(m >= 6) => DOMAIN blockLogs'.item = Whole
          /\ \A i \in Whole : blockLogs'.item[i] = blocks.item[i]
      <4>1. CASE m = 5
        <5>1. blockLogs.length - 1 = n
          BY <1>6, <2>4, <4>1
        <5>2. /\ DOMAIN blockLogs.item = Whole \cup {n}
              /\ DOMAIN blockLogs'.item = DOMAIN blockLogs.item \ {n}
              /\ \A i \in DOMAIN blockLogs.item :
                   i # n => blockLogs'.item[i] = blockLogs.item[i]
          BY <1>10, <2>4, <4>1, <5>1
        <5>3. ~(m >= 6)
          BY <4>1
        <5>4. QED
          BY <2>3, <2>4, <5>2, <5>3
      <4>2. CASE m >= 6
        <5>1. m >= 5 /\ m # 5
          BY <1>left, <4>2
        <5>2. QED
          BY <1>10, <2>4, <4>2, <5>1
      <4>3. CASE ~(m >= 5)
        BY <1>left, <1>10, <2>4, <4>3
      <4>4. m = 5 \/ m >= 6 \/ ~(m >= 5)
        BY <1>left
      <4>5. QED
        BY <4>1, <4>2, <4>3, <4>4
    <3>4. QED
      BY <1>2, <1>4, <2>2, <2>6, <2>7, <3>1, <3>2, <3>3 DEF ListsSound, Top
  <2>10. HashesSound'
    <3> DEFINE below == {blocks.item[i] : i \in Whole}
    <3>1. /\ DOMAIN blockHashes = below \cup (IF Of("hash") \in Made THEN {b} ELSE {})
          /\ \A i \in Whole : blockHashes[blocks.item[i]] = i
          /\ Of("hash") \in Made => blockHashes[b] = n
      BY <1>7, <2>1 DEF HashesSound
    <3>2. b \notin below
      BY <2>8
    <3>3. \A i \in Whole : blocks.item[i] \in below
      OBVIOUS
    <3>4. below' = below
      BY <2>7
    <3> HIDE DEF below
    <3>5. /\ DOMAIN blockHashes' = below \cup (IF Of("hash") \in Made' THEN {b} ELSE {})
          /\ \A i \in Whole : blockHashes'[blocks.item[i]] = i
          /\ Of("hash") \in Made' => blockHashes'[b] = n
      <4>1. CASE m = 3
        <5>1. /\ blockHashes' = Del(blockHashes, b)
              /\ Of("hash") \in Made /\ Of("hash") \notin Made'
          <6>1. m >= 3 /\ ~(m >= 4)
            BY <4>1
          <6>2. w = Of("hash")
            BY <1>2, <4>1
          <6>3. QED
            BY <1>2, <1>3, <6>1, <6>2
        <5>2. /\ DOMAIN blockHashes' = DOMAIN blockHashes \ {b}
              /\ \A c \in DOMAIN blockHashes : c # b => blockHashes'[c] = blockHashes[c]
          BY <5>1 DEF Del
        <5>3. QED
          BY <3>1, <3>2, <3>3, <5>1, <5>2
      <4>2. CASE m # 3
        <5>1. m >= 3 <=> m >= 4
          BY <1>left, <4>2
        <5>2. blockHashes' = blockHashes /\ (Of("hash") \in Made <=> Of("hash") \in Made')
          BY <1>2, <1>3, <4>2, <5>1
        <5>3. QED
          BY <3>1, <5>2
      <4>3. QED
        BY <4>1, <4>2
    <3>6. \A i \in Whole : blockHashes'[blocks'.item[i]] = i
      BY <2>6, <3>5
    <3>7. QED
      BY <1>4, <2>2, <2>7, <3>4, <3>5, <3>6 DEF HashesSound, below
  <2>11. TxsSound'
    <3>1. \A tx, kind : tx \in TopTxs(kind) <=> tx \in Range(TxsOf[b]) /\ <<kind, tx>> \in Made
      BY <1>1 DEF TopTxs
    <3>2. \A tx, kind : tx \in TopTxs(kind)' <=>
                          tx \in Range(TxsOf[b]) /\ <<kind, tx>> \in Made'
      BY <1>1 DEF TopTxs
    <3>3. /\ TxsBelow \subseteq transactions /\ transactions \subseteq TxsBelow \cup TopTxs("tx")
          /\ TxsBelow \subseteq DOMAIN transactionReceipts
          /\ DOMAIN transactionReceipts \subseteq TxsBelow \cup TopTxs("receipt")
          /\ \A i \in Whole : \A tx \in Range(TxsOf[blocks.item[i]]) :
               transactionReceipts[tx] = blocks.item[i]
      BY <2>1 DEF TxsSound
    <3>4. /\ w[1] \in {"tx", "receipt"} => w[2] \in Range(TxsOf[b]) /\ w[2] \notin TxsBelow
          /\ \A kind, tx : <<kind, tx>> = w => kind = w[1] /\ tx = w[2]
      <4>1. w[1] \in {"tx", "receipt"} => w \in TxDeletes(b)
        BY <1>1, AWrite, Kinds
      <4>2. w[1] \in {"tx", "receipt"} => w[2] \in Range(TxsOf[b])
        BY <4>1, Kinds
      <4>3. \A tx \in TxsBelow : tx \notin Range(TxsOf[b])
        BY <2>8 DEF TxsBelow
      <4>4. \A kind, tx : <<kind, tx>>[1] = kind /\ <<kind, tx>>[2] = tx
        OBVIOUS
      <4>5. \A kind, tx : <<kind, tx>> = w => kind = w[1] /\ tx = w[2]
        BY <4>4
      <4>6. QED
        BY <4>2, <4>3, <4>5
    <3>5. /\ \A tx \in TopTxs("tx") : tx \in TopTxs("tx")' \/ (w[1] = "tx" /\ tx = w[2])
          /\ \A tx \in TopTxs("receipt") :
               tx \in TopTxs("receipt")' \/ (w[1] = "receipt" /\ tx = w[2])
      BY <1>1, <3>1, <3>2, <3>4
    <3>6. /\ TxsBelow \subseteq transactions'
          /\ transactions' \subseteq TxsBelow \cup TopTxs("tx")'
      BY <1>3, <3>3, <3>4, <3>5
    <3>7. /\ TxsBelow \subseteq DOMAIN transactionReceipts'
          /\ DOMAIN transactionReceipts' \subseteq TxsBelow \cup TopTxs("receipt")'
          /\ \A tx \in TxsBelow : transactionReceipts'[tx] = transactionReceipts[tx]
      <4>1. CASE w[1] = "receipt"
        <5>1. transactionReceipts' = Del(transactionReceipts, w[2])
          BY <1>3, <4>1
        <5>2. /\ DOMAIN transactionReceipts' = DOMAIN transactionReceipts \ {w[2]}
              /\ \A tx \in DOMAIN transactionReceipts :
                   tx # w[2] => transactionReceipts'[tx] = transactionReceipts[tx]
          BY <5>1 DEF Del
        <5>3. QED
          BY <3>3, <3>4, <3>5, <4>1, <5>2
      <4>2. CASE w[1] # "receipt"
        BY <1>3, <3>3, <3>5, <4>2
      <4>3. QED
        BY <4>1, <4>2
    <3>8. \A i \in Whole : \A tx \in Range(TxsOf[blocks.item[i]]) : tx \in TxsBelow
      BY DEF TxsBelow
    <3>9. \A i \in Whole : \A tx \in Range(TxsOf[blocks'.item[i]]) :
            transactionReceipts'[tx] = blocks'.item[i]
      BY <2>6, <3>3, <3>7, <3>8
    <3>10. QED
      BY <1>4, <2>7, <3>6, <3>7, <3>9 DEF TxsSound
  <2>12. QED
    BY <2>7, <2>9, <2>10, <2>11
<1>17. QED
  BY <1>1, <1>4, <1>11, <1>12, <1>15, <1>16 DEF StoreInv, StoreSound
-----------------------------------------------------------------------------
(* The end of a pop, and the end of the process.                            *)

\* In one life of the process, what is about to go can be read.
LEMMA CanRead ==
  ASSUME StoreInv, restarts = 0, job.op = "pop", job.todo # <<>>
  PROVE  ~ReadFails(Head(job.todo))
<1> DEFINE b == job.block
           w == Head(job.todo)
           m == Len(job.todo)
           n == blocks.length - 1
<1>1. /\ TypeOK /\ PopShape /\ CanBeRead /\ ListsSound /\ HashesSound /\ torn = {}
      /\ b \in BlockIds /\ job.todo \in Seq(PutWrites(b)) /\ Shape(job.todo, b)
  BY JobTypes DEF StoreInv, StoreSound, PopShape
<1>2. SUFFICES ASSUME w = Of("logs item") PROVE LogsReadable(blockLogs.length - 1)
  BY <1>1 DEF ReadFails
<1>3. Made = Range(job.todo)
  BY DEF Made
<1>4. w \in Range(job.todo)
  BY <1>1, PopHead
<1>5. /\ Of("length") \in Made /\ Of("item") \in Made /\ Of("hash") \in Made
      /\ Of("logs length") \in Made /\ Of("logs item") \in Made
  <2>1. Len(job.todo) \in Nat /\ Len(job.todo) >= 5
    <3>1. Of("logs item") \in Range(job.todo)
      BY <1>2, <1>4
    <3>2. Of("logs item") \in Range(job.todo) <=> Len(job.todo) >= 5
      BY <1>1, Left
    <3>3. Len(job.todo) \in Nat
      BY <1>1
    <3>4. QED
      BY <3>1, <3>2, <3>3
  <2>2. /\ Len(job.todo) >= 1 /\ Len(job.todo) >= 2 /\ Len(job.todo) >= 3
        /\ Len(job.todo) >= 4
    BY <2>1
  <2>3. QED
    BY <1>1, <1>3, <2>1, <2>2, Left
<1>6. blocks.length \in Nat /\ blocks.length > 1
  BY <1>1, <1>5 DEF CanBeRead, TypeOK, IsList
<1>7. n \in Nat /\ n < blocks.length /\ (n + 1) - 1 = n
  BY <1>6
<1>8. Base = n
  BY <1>5 DEF Base
<1> HIDE DEF n
<1>9. /\ blockLogs.length = n + 1 /\ n \in DOMAIN blockLogs.item /\ blockLogs.item[n] = b
      /\ n \in DOMAIN blocks.item /\ b \in DOMAIN blockHashes /\ blockHashes[b] = n
  BY <1>1, <1>5, <1>8 DEF ListsSound, HashesSound, Top
<1>10. LogsReadable(n)
  BY <1>1, <1>7, <1>9 DEF LogsReadable, Holds
<1>11. QED
  BY <1>7, <1>9, <1>10

\* Only a later life of the process gets here, so what it leaves has only to be readable.
LEMMA PopFailsKeeps == ASSUME StoreInv, PopFails PROVE StoreInv'
<1>1. /\ TypeOK /\ PopShape /\ CanBeRead /\ job.op = "pop" /\ job.todo # <<>>
      /\ ReadFails(Head(job.todo)) /\ job' = Quiet
      /\ UNCHANGED <<blocks, blockLogs, blockHashes, transactions, transactionReceipts>>
      /\ root' = root /\ restarts' = restarts /\ torn' = torn
  BY DEF StoreInv, PopFails, store
<1>2. restarts # 0
  BY <1>1, CanRead
<1>3. job'.op = "none" /\ job' # Unopenable /\ ~LastGone'
  BY <1>1 DEF Quiet, Unopenable, LastGone
<1>4. ~LastGone
  <2>1. Head(job.todo) = Of("logs item")
    BY <1>1 DEF ReadFails
  <2>2. Len(job.todo) # 1
    BY <1>1, <2>1, PopHead, Kinds
  <2>3. QED
    BY <1>1, <2>2 DEF LastGone, Unopenable
<1>5. TypeOK'
  BY <1>1 DEF TypeOK
<1>6. PopShape' /\ StoreSound'
  BY <1>1, <1>2, <1>3 DEF PopShape, StoreSound
<1>7. CanBeRead'
  BY <1>1, <1>3, <1>4 DEF CanBeRead
<1>8. QED
  BY <1>5, <1>6, <1>7 DEF StoreInv

\* Only a later life gets here as well; the other writes of the block go on.
LEMMA PutFailsKeeps == ASSUME StoreInv, PutFails PROVE StoreInv'
<1> DEFINE b == job.block
           gone == {Of("logs item"), Of("logs length")}
<1>1. /\ TypeOK /\ PopShape /\ CanBeRead /\ job.op = "put" /\ Of("logs length") \in torn
      /\ UNCHANGED <<blocks, blockLogs, blockHashes, transactions, transactionReceipts>>
      /\ root' = root /\ restarts' = restarts /\ torn' = torn
      /\ job' = [job EXCEPT !.todo = @ \ gone]
  BY DEF StoreInv, PutFails, store
<1>2. restarts # 0
  BY <1>1 DEF StoreInv, StoreSound
<1>3. /\ b \in BlockIds /\ job.index \in Nat /\ job.todo \subseteq PutWrites(b)
      /\ job = [op |-> "put", block |-> b, index |-> job.index, todo |-> job.todo]
  BY <1>1, JobTypes
<1>4. job' = [op |-> "put", block |-> b, index |-> job.index, todo |-> job.todo \ gone]
  BY <1>1, <1>3
<1>5. /\ job'.op = "put" /\ job'.block = b /\ job'.index = job.index
      /\ job'.todo = job.todo \ gone
  BY <1>4
<1>6. /\ Of("length") \in Made' <=> Of("length") \in Made
      /\ Of("item") \in Made' <=> Of("item") \in Made
      /\ Of("logs item") \in Made'
  <2>1. Made = PutWrites(b) \ job.todo /\ Made' = PutWrites(b) \ (job.todo \ gone)
    BY <1>1, <1>5 DEF Made
  <2>2. /\ Of("length") \notin gone /\ Of("item") \notin gone /\ Of("logs item") \in gone
        /\ Of("logs item") \in PutWrites(b)
    BY Kinds DEF PutWrites
  <2>3. QED
    BY <2>1, <2>2
<1>7. ~LastGone /\ ~LastGone'
  <2>1. job # Unopenable /\ job' # Unopenable
    BY <1>1, <1>5, JobNames
  <2>2. job.op # "pop" /\ job'.op # "pop"
    BY <1>1, <1>5
  <2>3. QED
    BY <2>1, <2>2 DEF LastGone
<1>8. TypeOK'
  <2>1. job' \in [op : {"put"}, block : {b}, index : Nat, todo : SUBSET PutWrites(b)]
    BY <1>3, <1>4
  <2>2. QED
    BY <1>1, <1>3, <2>1 DEF TypeOK
<1>9. PopShape' /\ StoreSound'
  BY <1>1, <1>2, <1>5 DEF PopShape, StoreSound
<1>10. CanBeRead'
  BY <1>1, <1>5, <1>6, <1>7 DEF CanBeRead
<1>11. QED
  BY <1>8, <1>9, <1>10 DEF StoreInv

LEMMA FinishPopKeeps == ASSUME StoreInv, FinishPop PROVE StoreInv'
<1>1. /\ TypeOK /\ PopShape /\ CanBeRead /\ job.op = "pop" /\ job.todo = <<>>
      /\ job' = Quiet /\ root' = LastBlock /\ restarts' = restarts /\ torn' = torn
      /\ UNCHANGED <<blocks, blockLogs, blockHashes, transactions, transactionReceipts>>
      /\ blocks.length \in Nat
  BY DEF StoreInv, FinishPop, store, TypeOK, IsList
<1>2. job'.op = "none" /\ job' # Unopenable /\ job # Unopenable
  BY <1>1 DEF Quiet, Unopenable
<1>3. Made = {} /\ ~LastGone /\ Base = blocks.length
  <2>1. Made = {} /\ ~LastGone
    BY <1>1, <1>2 DEF Made, LastGone, Range
  <2>2. QED
    BY <2>1 DEF Base
<1>4. Made' = {} /\ TopBlock' = {} /\ ~LastGone' /\ Base' = Base
  <2>1. Made' = {} /\ TopBlock' = {} /\ ~LastGone'
    BY <1>2 DEF Made, TopBlock, LastGone
  <2>2. QED
    BY <1>1, <1>3, <2>1 DEF Base
<1>5. 0..blocks.length - 1 \subseteq DOMAIN blocks.item /\ blocks.length > 0
  BY <1>1, <1>3 DEF CanBeRead
<1>6. LastBlock \in BlockIds
  <2>1. blocks.length - 1 \in DOMAIN blocks.item /\ blocks.length # 0
    BY <1>1, <1>5
  <2>2. QED
    BY <1>1, <2>1 DEF LastBlock, TypeOK, IsList
<1>7. TypeOK'
  BY <1>1, <1>6 DEF TypeOK
<1>8. PopShape'
  BY <1>2 DEF PopShape
<1>9. CanBeRead'
  BY <1>1, <1>2, <1>4, <1>5 DEF CanBeRead
<1>10. ASSUME restarts = 0 PROVE (ListsSound /\ HashesSound /\ Distinct /\ TxsSound)'
  <2>1. ListsSound /\ HashesSound /\ Distinct /\ TxsSound
    BY <1>10 DEF StoreInv, StoreSound
  <2>2. Whole' = Whole /\ TxsBelow' = TxsBelow
    BY <1>1, <1>4 DEF Whole, TxsBelow
  <2>3. ListsSound'
    BY <1>1, <1>3, <1>4, <2>1, <2>2 DEF ListsSound, Top
  <2>4. HashesSound'
    BY <1>1, <1>3, <1>4, <2>1, <2>2 DEF HashesSound
  <2>5. Distinct'
    BY <1>1, <1>4, <2>1, <2>2 DEF Distinct
  <2>6. TxsSound'
    <3>1. TopTxs("tx") = {} /\ TopTxs("receipt") = {}
      BY <1>3 DEF TopTxs
    <3>2. TopTxs("tx")' = {} /\ TopTxs("receipt")' = {}
      BY <1>4 DEF TopTxs
    <3>3. QED
      BY <1>1, <1>2, <2>1, <2>2, <3>1, <3>2 DEF TxsSound
  <2>7. QED
    BY <2>3, <2>4, <2>5, <2>6
<1>11. QED
  BY <1>1, <1>2, <1>7, <1>8, <1>9, <1>10 DEF StoreInv, StoreSound

\* What a stop may leave torn is a record, none of a block that was counted.
LEMMA CutOff ==
  ASSUME TypeOK, PopShape, NEW w \in InFlight
  PROVE  /\ Record(w) \in Records
         /\ Record(w) = Of("length") => w = Of("length")
         /\ \A i \in 0..blocks.length - 1 : Record(w) # <<"blocks", i>>
<1>1. blocks.length \in Nat /\ blockLogs.length \in Nat
  BY DEF TypeOK, IsList
<1>2. CASE job.op = "put"
  <2>1. job.block \in BlockIds /\ job.todo \subseteq PutWrites(job.block)
    BY <1>2, JobTypes
  <2>2. w \in PutWrites(job.block)
    BY <1>2, <2>1 DEF InFlight
  <2>3. CASE w = Of("item")
    <3>1. Record(w) = <<"blocks", blocks.length>>
      BY <2>3, RecordIs
    <3>2. Record(w) \in Records
      BY <1>1, <3>1, InRecords
    <3>4. Record(w) # Of("length")
      BY <3>1, Pairs
    <3>3. \A i \in 0..blocks.length - 1 : i # blocks.length
      BY <1>1
    <3>5. QED
      BY <3>1, <3>2, <3>3, <3>4, Pairs
  <2>4. CASE w = Of("logs item")
    <3>1. Record(w) = <<"blockLogs", blockLogs.length>>
      BY <2>4, RecordIs
    <3>2. Record(w) \in Records
      BY <1>1, <3>1, InRecords
    <3>3. QED
      BY <3>1, <3>2, Pairs
  <2>5. CASE w = Of("hash")
    <3>1. Record(w) = <<"hash", job.block>>
      BY <2>5, RecordIs
    <3>2. Record(w) \in Records
      BY <2>1, <3>1, InRecords
    <3>3. QED
      BY <3>1, <3>2, Pairs
  <2>6. CASE w \in {Of("length"), Of("logs length")}
    <3>1. Record(w) = w /\ w \in Records
      BY <2>6, RecordIs, Kinds DEF Records
    <3>2. \A i : w # <<"blocks", i>>
      BY <2>6, Pairs
    <3>3. QED
      BY <3>1, <3>2
  <2>7. CASE w \in TxDeletes(job.block)
    <3>1. PICK kind \in {"tx", "receipt"}, tx \in Txs : w = <<kind, tx>>
      BY <2>1, <2>7, Writes DEF TxDeletes
    <3>2. w[1] = kind /\ w \in Records
      BY <3>1 DEF Records
    <3>3. w # Of("item") /\ w # Of("logs item") /\ w # Of("hash")
      BY <3>2, Kinds
    <3>4. Record(w) = w
      BY <3>3, RecordIs
    <3>5. w # Of("length") /\ \A i : w # <<"blocks", i>>
      BY <3>1, Pairs
    <3>6. QED
      BY <3>2, <3>4, <3>5
  <2>8. QED
    BY <2>1, <2>2, <2>3, <2>4, <2>5, <2>6, <2>7, AWrite
<1>3. CASE job.op = "pop"
  <2>1. w \in {Of("length"), Of("logs length")}
    BY <1>3 DEF InFlight
  <2>2. Record(w) = w /\ w \in Records
    BY <2>1, RecordIs, Kinds DEF Records
  <2>3. \A i : w # <<"blocks", i>>
    BY <2>1, Pairs
  <2>4. QED
    BY <2>2, <2>3
<1>4. QED
  BY <1>2, <1>3 DEF InFlight

LEMMA RestartKeeps == ASSUME StoreInv, Restart PROVE StoreInv'
<1> DEFINE n == blocks.length
<1>1. /\ TypeOK /\ PopShape /\ CanBeRead /\ restarts < MaxRestarts
      /\ restarts' = restarts + 1
      /\ UNCHANGED <<blocks, blockLogs, blockHashes, transactions, transactionReceipts>>
      /\ n \in Nat /\ restarts \in Nat
      /\ job' \in {Quiet, Unopenable}
      /\ job' = Quiet =>
           root' = LastBlock /\ (n > 0 => n - 1 \in DOMAIN blocks.item)
      /\ job' = Unopenable => root' = NoBlock
  BY DEF StoreInv, Restart, CanOpen, TypeOK, IsList, Holds, Quiet, Unopenable
<1>2. restarts' \in 0..MaxRestarts /\ restarts' # 0
  BY <1>1, OptionsAssumption
<1>3. job'.op \in {"none", "failed"} /\ (LastGone' <=> job' = Unopenable)
  BY <1>1 DEF Quiet, Unopenable, LastGone
<1>4. root' \in BlockIds \cup {NoBlock} /\ job' \in {Quiet, Unopenable}
  BY <1>1 DEF LastBlock, TypeOK, IsList
<1>5. TypeOK'
  <2>1. torn' \subseteq Records
    <3>1. PICK cut \in SUBSET InFlight : torn' = torn \cup {Record(w) : w \in cut}
      BY DEF Restart
    <3>2. \A w \in cut : Record(w) \in Records
      BY <1>1, CutOff
    <3>3. QED
      BY <1>1, <3>1, <3>2 DEF TypeOK
  <2>2. QED
    BY <1>1, <1>2, <1>4, <2>1 DEF TypeOK
<1>6. PopShape' /\ StoreSound'
  BY <1>2, <1>3 DEF PopShape, StoreSound
<1>7. 0..n - 2 \subseteq DOMAIN blocks.item
  <2>1. CASE LastGone
    BY <1>1, <2>1 DEF CanBeRead
  <2>2. CASE ~LastGone
    <3>1. 0..n - 1 \subseteq DOMAIN blocks.item
      BY <1>1, <2>2 DEF CanBeRead
    <3>2. 0..n - 2 \subseteq 0..n - 1
      BY <1>1
    <3>3. QED
      BY <3>1, <3>2
  <2>3. QED
    BY <2>1, <2>2
<1>8. ~LastGone' => 0..n - 1 \subseteq DOMAIN blocks.item
  <2>1. CASE n = 0
    BY <2>1
  <2>2. CASE n # 0 /\ n - 1 \in DOMAIN blocks.item
    <3>1. \A i \in 0..n - 1 : i \in 0..n - 2 \/ i = n - 1
      BY <1>1
    <3>2. QED
      BY <1>7, <2>2, <3>1
  <2>3. CASE n # 0 /\ n - 1 \notin DOMAIN blocks.item
    BY <1>1, <1>3, <2>3
  <2>4. QED
    BY <2>1, <2>2, <2>3
<1>9. CanBeRead'
  BY <1>1, <1>3, <1>7, <1>8 DEF CanBeRead
<1>10. QED
  BY <1>5, <1>6, <1>9 DEF StoreInv
-----------------------------------------------------------------------------
(* The theorems.                                                            *)

LEMMA StepKeeps == ASSUME StoreInv, [Next]_vars PROVE StoreInv'
<1>1. CASE UNCHANGED vars
  <2>1. /\ UNCHANGED <<blocks, blockLogs, blockHashes, transactions, transactionReceipts>>
        /\ root' = root /\ torn' = torn /\ job' = job /\ restarts' = restarts
    BY <1>1 DEF vars, store
  <2>2. /\ Made' = Made /\ (LastGone' <=> LastGone) /\ TopBlock' = TopBlock /\ Base' = Base
    BY <2>1 DEF Made, LastGone, TopBlock, Base
  <2>3. TypeOK' /\ PopShape'
    BY <2>1 DEF StoreInv, TypeOK, PopShape
  <2>4. CanBeRead'
    BY <2>1, <2>2 DEF StoreInv, CanBeRead
  <2>5. Whole' = Whole /\ TxsBelow' = TxsBelow
    BY <2>1, <2>2 DEF Whole, TxsBelow
  <2>6. TopTxs("tx")' = TopTxs("tx") /\ TopTxs("receipt")' = TopTxs("receipt")
    BY <2>2 DEF TopTxs
  <2>7. ListsSound => ListsSound'
    BY <2>1, <2>2, <2>5 DEF ListsSound, Top
  <2>8. HashesSound => HashesSound'
    BY <2>1, <2>2, <2>5 DEF HashesSound
  <2>9. Distinct => Distinct'
    BY <2>1, <2>2, <2>5 DEF Distinct
  <2>10. TxsSound => TxsSound'
    BY <2>1, <2>5, <2>6 DEF TxsSound
  <2>11. QED
    BY <2>1, <2>3, <2>4, <2>7, <2>8, <2>9, <2>10 DEF StoreInv, StoreSound
<1>2. ASSUME NEW b \in BlockIds, StartPut(b) PROVE StoreInv'
  BY <1>2, StartPutKeeps
<1>3. ASSUME NEW w, PutWrite(w) PROVE StoreInv'
  BY <1>3, PutWriteKeeps
<1>4. CASE FinishPut
  BY <1>4, FinishPutKeeps
<1>5. CASE StartPop
  BY <1>5, StartPopKeeps
<1>6. CASE PopWrite
  BY <1>6, PopWriteKeeps
<1>7. CASE PopFails
  BY <1>7, PopFailsKeeps
<1>8. CASE FinishPop
  BY <1>8, FinishPopKeeps
<1>9. CASE Restart
  BY <1>9, RestartKeeps
<1>10. CASE PutFails
  BY <1>10, PutFailsKeeps
<1>11. QED
  BY <1>1, <1>2, <1>3, <1>4, <1>5, <1>6, <1>7, <1>8, <1>9, <1>10 DEF Next

\* What has been read at the start, or written since, goes on decoding.
LEMMA DecodesKeeps ==
  ASSUME StoreInv, OpenedDecodes, [Next]_vars PROVE OpenedDecodes'
<1>1. TypeOK /\ PopShape /\ CanBeRead /\ blocks.length \in Nat
  BY DEF StoreInv, TypeOK, IsList
<1>2. CASE UNCHANGED vars
  <2>1. job' = job /\ torn' = torn /\ blocks' = blocks
    BY <1>2 DEF vars, store
  <2>2. Made' = Made
    BY <2>1 DEF Made
  <2>3. QED
    BY <2>1, <2>2 DEF OpenedDecodes
<1>3. ASSUME NEW b \in BlockIds, StartPut(b) PROVE OpenedDecodes'
  <2>1. /\ job = Quiet /\ torn' = torn /\ blocks' = blocks
        /\ job'.op = "put" /\ job'.block = b /\ job'.todo = PutWrites(b)
    BY <1>3 DEF StartPut, store
  <2>2. Made' = {}
    BY <2>1 DEF Made
  <2>3. job # Unopenable
    BY <2>1 DEF Quiet, Unopenable
  <2>4. QED
    BY <2>1, <2>2, <2>3 DEF OpenedDecodes
<1>4. ASSUME NEW w, PutWrite(w) PROVE OpenedDecodes'
  <2>0. job' = [op |-> "put", block |-> job.block, index |-> job.index,
                todo |-> job.todo \ {w}]
    BY <1>1, <1>4, PutWriteIs
  <2>9. job'.op = "put" /\ job'.index = job.index
    BY <2>0
  <2>1. /\ job.op = "put" /\ job.block \in BlockIds /\ w \in PutWrites(job.block)
        /\ w \in job.todo /\ job.index \in Nat
        /\ Made = PutWrites(job.block) \ job.todo
        /\ Made' = (PutWrites(job.block) \ job.todo) \cup {w}
        /\ torn' = torn \ {Record(w)}
        /\ blocks' = IF w = Of("item") THEN WithItem(blocks, blocks.length, job.block)
                     ELSE IF w = Of("length") THEN WithLength(blocks, blocks.length + 1)
                     ELSE blocks
    BY <1>1, <1>4, PutWriteIs
  <2>2. job # Unopenable
    BY <2>1 DEF Unopenable
  <2>3. /\ Of("length") \notin torn' /\ \A i \in 0..blocks.length - 1 : <<"blocks", i>> \notin torn'
        /\ Of("item") \in Made => <<"blocks", job.index>> \notin torn'
    BY <2>1, <2>2 DEF OpenedDecodes
  <2>4. CASE w = Of("item")
    <3>1. blocks'.length = blocks.length
      BY <1>1, <2>1, <2>4, WithItemIs DEF TypeOK
    <3>2. blocks.length = job.index
      BY <1>1, <2>1, <2>4 DEF CanBeRead
    <3>3. Record(w) = <<"blocks", job.index>>
      BY <2>4, <3>2, RecordIs
    <3>4. QED
      BY <2>9, <2>1, <2>3, <3>1, <3>3 DEF OpenedDecodes
  <2>5. CASE w = Of("length")
    <3>1. blocks'.length = blocks.length + 1
      <4>1. blocks' = WithLength(blocks, blocks.length + 1) /\ blocks.length + 1 \in Nat
        <5>1. w # Of("item")
          BY <2>5, Kinds
        <5>2. QED
          BY <1>1, <2>1, <2>5, <5>1
      <4>2. QED
        BY <1>1, <4>1, WithLengthIs DEF TypeOK
    <3>2. blocks.length = job.index
      BY <1>1, <2>1, <2>5 DEF CanBeRead
    <3>3. Of("item") \in Made
      BY <1>4, <2>1, <2>5 DEF PutWrite, MayWrite, PutWrites
    <3>4. \A i \in 0..blocks'.length - 1 : i \in 0..blocks.length - 1 \/ i = job.index
      BY <1>1, <3>1, <3>2
    <3>5. QED
      BY <2>9, <2>1, <2>3, <3>3, <3>4 DEF OpenedDecodes
  <2>6. CASE w # Of("item") /\ w # Of("length")
    BY <2>9, <2>1, <2>3, <2>6 DEF OpenedDecodes
  <2>7. QED
    BY <2>4, <2>5, <2>6
<1>5. CASE PutFails
  <2>1. /\ job.op = "put" /\ torn' = torn /\ blocks' = blocks
        /\ job' = [job EXCEPT !.todo = @ \ {Of("logs item"), Of("logs length")}]
    BY <1>5 DEF PutFails, store
  <2>2. job = [op |-> "put", block |-> job.block, index |-> job.index, todo |-> job.todo]
    BY <1>1, <2>1, JobTypes
  <2>3. /\ job'.op = "put" /\ job'.block = job.block /\ job'.index = job.index
        /\ job'.todo = job.todo \ {Of("logs item"), Of("logs length")}
    BY <2>1, <2>2
  <2>4. Of("item") \in Made' => Of("item") \in Made
    BY <2>1, <2>3, Kinds DEF Made
  <2>5. job # Unopenable
    BY <2>1, JobNames
  <2>6. blocks'.length = blocks.length
    BY <2>1
  <2>7. QED
    <3>1. torn' = torn /\ job.op = "put"
      BY <2>1
    <3>2. /\ Of("length") \notin torn /\ \A i \in 0..blocks.length - 1 : <<"blocks", i>> \notin torn
          /\ Of("item") \in Made => <<"blocks", job.index>> \notin torn
      BY <2>5, <3>1 DEF OpenedDecodes
    <3>3. Of("item") \in Made' => <<"blocks", job'.index>> \notin torn
      BY <2>3, <2>4, <3>2
    <3>4. QED
      BY <2>6, <3>1, <3>2, <3>3 DEF OpenedDecodes
<1>6. CASE FinishPut \/ StartPop \/ PopFails \/ FinishPop
  <2>1. job # Unopenable /\ job'.op # "put" /\ torn' = torn /\ blocks' = blocks
    BY <1>6 DEF FinishPut, StartPop, PopFails, FinishPop, store, Quiet, Unopenable
  <2>2. QED
    BY <2>1 DEF OpenedDecodes
<1>7. CASE PopWrite
  <2>1. torn' \subseteq torn /\ job.op = "pop" /\ job'.op = "pop"
    BY <1>1, <1>7, PopWriteIs DEF PopWrite
  <2>2. job # Unopenable
    BY <2>1 DEF Unopenable
  <2>3. blocks'.length = blocks.length \/ blocks'.length = blocks.length - 1
    <3>1. \/ blocks' = WithoutItem(blocks, blocks.length - 1)
          \/ blocks' = WithLength(blocks, blocks.length - 1)
          \/ blocks' = blocks
      BY <1>1, <1>7, PopWriteStore
    <3>2. QED
      BY <1>1, <3>1 DEF WithoutItem, WithLength, TypeOK, IsList
  <2>4. QED
    BY <1>1, <2>1, <2>2, <2>3 DEF OpenedDecodes
<1>8. CASE Restart
  <2>1. PICK cut \in SUBSET InFlight : torn' = torn \cup {Record(w) : w \in cut}
    BY <1>8 DEF Restart
  <2>2. job # Unopenable /\ blocks' = blocks
    BY <1>8 DEF Restart
  <2>3. SUFFICES ASSUME job' # Unopenable PROVE OpenedDecodes'
    BY DEF OpenedDecodes
  <2>4. job'.op # "put" /\ CanOpen'
    BY <1>8, <2>3 DEF Restart, Quiet
  <2>5. ASSUME NEW i \in 0..blocks.length - 1 PROVE <<"blocks", i>> \notin torn'
    <3>1. <<"blocks", i>> \notin torn
      BY <2>2 DEF OpenedDecodes
    <3>2. \A w \in cut : Record(w) # <<"blocks", i>>
      BY <1>1, CutOff
    <3>3. QED
      BY <2>1, <3>1, <3>2
  <2>6. QED
    BY <2>2, <2>4, <2>5 DEF OpenedDecodes, CanOpen
<1>9. QED
  BY <1>2, <1>3, <1>4, <1>5, <1>6, <1>7, <1>8 DEF Next

LEMMA StoreInvHolds == Spec => []StoreInv
<1>1. Init => StoreInv
  BY InitKeeps
<1>2. StoreInv /\ [Next]_vars => StoreInv'
  BY StepKeeps
<1>3. QED
  BY <1>1, <1>2, PTL DEF Spec

LEMMA DecodesHolds == Spec => []OpenedDecodes
<1>1. Init => OpenedDecodes
  BY DEF Init, OpenedDecodes, Quiet, Empty
<1>2. StoreInv /\ OpenedDecodes /\ [Next]_vars => OpenedDecodes'
  BY DecodesKeeps
<1>3. QED
  BY <1>1, <1>2, StoreInvHolds, PTL DEF Spec

\* The variables have their types, whatever is put and popped, and wherever the process
\* stops (lib/database: the lists and maps of the five sublevels).
THEOREM TypeCorrect == Spec => []TypeOK
<1>1. StoreInv => TypeOK
  BY DEF StoreInv
<1>2. QED
  BY <1>1, StoreInvHolds, PTL

\* In one life of the process the five parts of the database tell of one chain whenever
\* no putBlock or popBlock is under way.
THEOREM OneChainIsTold == Spec => []StoreTellsOneChain
<1>1. ASSUME StoreInv, job = Quiet, restarts = 0 PROVE StoreTellsOneChain
  <2>1. ListsSound /\ HashesSound /\ Distinct /\ TxsSound /\ TypeOK
    BY <1>1 DEF StoreInv, StoreSound
  <2>2. Made = {} /\ TopBlock = {} /\ Base = blocks.length
    BY <1>1, Idle
  <2>3. Whole = Indices
    BY <2>2 DEF Whole, Indices
  <2>4. /\ DOMAIN blocks.item = Indices /\ blockLogs.length = blocks.length
        /\ DOMAIN blockLogs.item = Indices
        /\ \A i \in Indices : blockLogs.item[i] = blocks.item[i]
    BY <2>1, <2>2, <2>3 DEF ListsSound, Top
  <2>5. blockLogs = blocks
    <3>1. IsList(blocks) /\ IsList(blockLogs)
      BY <2>1 DEF TypeOK
    <3>2. /\ blocks = [length |-> blocks.length, item |-> blocks.item]
          /\ blockLogs = [length |-> blockLogs.length, item |-> blockLogs.item]
          /\ blocks.item \in [DOMAIN blocks.item -> BlockIds]
          /\ blockLogs.item \in [DOMAIN blockLogs.item -> BlockIds]
      BY <3>1 DEF IsList
    <3>3. blockLogs.item = blocks.item
      BY <2>4, <3>2
    <3>4. QED
      BY <2>4, <3>2, <3>3
  <2>6. Range(blocks.item) = {blocks.item[i] : i \in Indices}
    BY <2>4 DEF Range
  <2>7. blockHashes = [b \in Range(blocks.item) |->
                         CHOOSE i \in Indices : blocks.item[i] = b]
    <3>1. /\ DOMAIN blockHashes = Range(blocks.item)
          /\ \A i \in Indices : blockHashes[blocks.item[i]] = i
      BY <2>1, <2>2, <2>3, <2>6 DEF HashesSound
    <3>2. ASSUME NEW b \in Range(blocks.item)
          PROVE  blockHashes[b] = CHOOSE i \in Indices : blocks.item[i] = b
      <4>1. PICK i \in Indices : blocks.item[i] = b
        BY <2>6
      <4>2. \A j \in Indices : blocks.item[j] = b => j = i
        BY <3>1, <4>1
      <4>3. (CHOOSE j \in Indices : blocks.item[j] = b) = i
        BY <4>1, <4>2
      <4>4. QED
        BY <3>1, <4>1, <4>3
    <3>3. blockHashes \in [DOMAIN blockHashes -> Nat]
      BY <2>1 DEF TypeOK
    <3>4. QED
      BY <3>1, <3>2, <3>3
  <2>8. TxsBelow = UNION {Range(TxsOf[b]) : b \in Range(blocks.item)}
    BY <2>3, <2>6 DEF TxsBelow
  <2>9. transactions = TxsBelow /\ DOMAIN transactionReceipts = TxsBelow
    <3>1. TopTxs("tx") = {} /\ TopTxs("receipt") = {}
      BY <2>2 DEF TopTxs
    <3>2. QED
      BY <2>1, <3>1 DEF TxsSound
  <2>10. ASSUME NEW tx \in transactions
         PROVE  /\ transactionReceipts[tx] \in Range(blocks.item)
                /\ tx \in Range(TxsOf[transactionReceipts[tx]])
    <3>1. PICK i \in Indices : tx \in Range(TxsOf[blocks.item[i]])
      BY <2>3, <2>9 DEF TxsBelow
    <3>2. transactionReceipts[tx] = blocks.item[i]
      BY <2>1, <2>3, <3>1 DEF TxsSound
    <3>3. QED
      BY <2>6, <3>1, <3>2
  <2>11. QED
    BY <2>4, <2>5, <2>7, <2>8, <2>9, <2>10 DEF StoreTellsOneChain
<1>2. StoreInv => StoreTellsOneChain
  BY <1>1 DEF StoreTellsOneChain
<1>3. QED
  BY <1>2, StoreInvHolds, PTL

\* In one life of the process no popBlock meets a record that its own earlier deletions
\* have made unreadable.
THEOREM PopsReadWhatTheyDelete == Spec => []PopNeverFails
<1>1. StoreInv => PopNeverFails
  BY CanRead DEF PopNeverFails
<1>2. QED
  BY <1>1, StoreInvHolds, PTL

\* A process that stops leaves a database that cannot be opened only inside the last
\* write of a push to blocks or between and inside the last two deletions of popBlock,
\* in any life, whatever is cut off, and however many blocks and transactions there are.
THEOREM OpensAgain == Spec => ReopenFailsOnlyAtTheLength
<1> DEFINE AtTheLength ==
      \/ job.op = "put" /\ Of("length") \in job.todo /\ Of("item") \notin job.todo
      \/ job.op = "pop" /\ job.todo = <<Of("length")>>
<1>1. ASSUME StoreInv, OpenedDecodes, [Next]_vars, ~UNCHANGED vars, job' = Unopenable
      PROVE  AtTheLength
  <2>1. TypeOK /\ PopShape /\ CanBeRead
    BY <1>1 DEF StoreInv
  <2>2. Restart
    <3>1. job'.op = "failed"
      BY <1>1 DEF Unopenable
    <3>2. ASSUME NEW b \in BlockIds, StartPut(b) PROVE FALSE
      BY <3>1, <3>2 DEF StartPut
    <3>3. ASSUME NEW w, PutWrite(w) PROVE FALSE
      <4>1. job' = [op |-> "put", block |-> job.block, index |-> job.index,
                    todo |-> job.todo \ {w}]
        BY <2>1, <3>3, PutWriteIs
      <4>2. job'.op = "put"
        BY <4>1
      <4>3. QED
        BY <3>1, <4>2
    <3>4. ~FinishPut /\ ~StartPop /\ ~PopFails /\ ~FinishPop
      BY <3>1 DEF FinishPut, StartPop, PopFails, FinishPop, Quiet
    <3>5. ~PopWrite
      <4>1. ASSUME PopWrite PROVE job'.op = "pop"
        BY <2>1, <4>1, PopWriteIs
      <4>2. QED
        BY <3>1, <4>1
    <3>6. ~PutFails
      <4>1. ASSUME PutFails PROVE job'.op = "put"
        <5>1. job.op = "put" /\ job' = [job EXCEPT !.todo = job'.todo]
          BY <4>1, <2>1, JobTypes DEF PutFails
        <5>2. job = [op |-> "put", block |-> job.block, index |-> job.index,
                     todo |-> job.todo]
          BY <2>1, <5>1, JobTypes
        <5>3. QED
          BY <5>1, <5>2
      <4>2. QED
        BY <3>1, <4>1
    <3>7. QED
      BY <1>1, <3>2, <3>3, <3>4, <3>5, <3>6 DEF Next
  <2>3. /\ job # Unopenable /\ blocks.length \in Nat /\ blocks' = blocks /\ ~CanOpen'
    BY <1>1, <2>1, <2>2 DEF Restart, Quiet, Unopenable, TypeOK, IsList
  <2>4. PICK cut \in SUBSET InFlight : torn' = torn \cup {Record(w) : w \in cut}
    BY <2>2 DEF Restart
  <2>5. ASSUME job.op = "pop", Len(job.todo) = 1 PROVE job.todo = <<Of("length")>>
    <3>1. job.todo \in Seq(PutWrites(job.block))
      BY <2>1, <2>5, JobTypes
    <3>2. job.todo # <<>> /\ job.todo = <<Head(job.todo)>>
      BY <2>5, <3>1
    <3>3. Head(job.todo) = Of("length")
      BY <2>1, <2>5, <3>2, PopHead
    <3>4. QED
      BY <3>2, <3>3
  <2>6. CASE Of("length") \in torn'
    <3>1. PICK w \in cut : Record(w) = Of("length")
      <4>1. Of("length") \notin torn
        BY <1>1, <2>3 DEF OpenedDecodes
      <4>2. QED
        BY <2>4, <2>6, <4>1
    <3>2. w \in InFlight /\ w = Of("length")
      BY <2>1, <3>1, CutOff
    <3>3. CASE job.op = "put"
      BY <3>2, <3>3 DEF InFlight, MayWrite
    <3>4. CASE job.op = "pop"
      <4>1. job.todo # <<>> /\ Head(job.todo) = Of("length")
        BY <3>2, <3>4 DEF InFlight
      <4>2. Len(job.todo) = 1
        <5>0. PICK m : m = Len(job.todo)
          OBVIOUS
        <5>1. /\ m \in Nat /\ m >= 1
              /\ m > 5 => Of("length") \in TxDeletes(job.block)
              /\ m = 5 => Of("length") = Of("logs item")
              /\ m = 4 => Of("length") = Of("logs length")
              /\ m = 3 => Of("length") = Of("hash")
              /\ m = 2 => Of("length") = Of("item")
          BY <2>1, <3>4, <4>1, <5>0, PopHead
        <5>2. Of("length") \notin TxDeletes(job.block)
          BY Kinds
        <5>3. m \in Nat /\ m >= 1 /\ ~(m > 5) /\ m # 5 /\ m # 4 /\ m # 3 /\ m # 2
          BY <5>1, <5>2, Kinds
        <5>4. m = 1
          BY <5>3
        <5>5. QED
          BY <5>0, <5>4
      <4>3. QED
        BY <2>5, <3>4, <4>2
    <3>5. QED
      BY <3>2, <3>3, <3>4 DEF InFlight
  <2>7. CASE Of("length") \notin torn'
    <3>1. /\ blocks.length > 0
          /\ \/ blocks.length - 1 \notin DOMAIN blocks.item
             \/ <<"blocks", blocks.length - 1>> \in torn'
      BY <2>3, <2>7 DEF CanOpen, Holds
    <3>2. PICK last \in 0..blocks.length - 1 : last = blocks.length - 1
      BY <2>3, <3>1
    <3>3. <<"blocks", last>> \notin torn'
      <4>1. <<"blocks", last>> \notin torn
        BY <1>1, <2>3 DEF OpenedDecodes
      <4>2. \A w \in cut : Record(w) # <<"blocks", last>>
        BY <2>1, CutOff
      <4>3. QED
        BY <2>4, <4>1, <4>2
    <3>4. LastGone
      BY <2>1, <3>1, <3>2, <3>3 DEF CanBeRead
    <3>5. job.op = "pop" /\ Len(job.todo) = 1
      BY <2>3, <3>4 DEF LastGone
    <3>6. QED
      BY <2>5, <3>5
  <2>8. QED
    BY <2>6, <2>7
<1>2. StoreInv /\ OpenedDecodes /\ [Next]_vars => [job' = Unopenable => AtTheLength]_vars
  BY <1>1
<1>3. QED
  BY <1>2, StoreInvHolds, DecodesHolds, PTL DEF Spec, ReopenFailsOnlyAtTheLength
=============================================================================
