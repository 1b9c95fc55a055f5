------------------------------ MODULE PoolSort ------------------------------
(***************************************************************************)
(* sortByPriceAndNonce and the packing loop of processNextBlock            *)
(* (lib/blockchain_double.js) as the code computes them: transactions are  *)
(* grouped by sender, each group is sorted by nonce, a heap holds the head *)
(* of every group by price, and the block takes from the front of the      *)
(* result while the gas limits fit.  Checked against PoolOrder, which      *)
(* says what order and what block that has to give.                        *)
(*                                                                         *)
(* Names that Chain has too begin with PS: Chain_proofs extends the two.   *)
(***************************************************************************)
EXTENDS PoolOrder

CONSTANTS
  Senders, Prices, Gases,
  maxGasLimit,       \* options.gasLimit
  MaxTxs             \* bound: transactions waiting

ASSUME PricesAssumption == Prices \subseteq Nat /\ Gases \subseteq Nat \ {0}
ASSUME LimitAssumption ==
  /\ maxGasLimit \in Nat /\ MaxTxs \in Nat
  /\ \A gas \in Gases : gas <= maxGasLimit   \* queueTransaction refused others

VARIABLES
  unsorted,          \* the pending transactions to sort
  sortedByNonce,     \* sender -> its transactions not yet in the heap
  heap,              \* the head transaction of each sender
  sorted_transactions,
  currentTransactions,   \* the block being packed
  totalGasLimit,
  pc

PSvars == <<unsorted, sortedByNonce, heap, sorted_transactions,
            currentTransactions, totalGasLimit, pc>>

\* The transactions of a sender are queued in the order of their nonces, which
\* have no gap (getQueuedNonce), and processNextBlock keeps that order.
Pools ==
  LET Bids == [from : Senders, price : Prices, gas : Gases]
      Numbered(bids) ==
        [i \in DOMAIN bids |->
           [from |-> bids[i].from, price |-> bids[i].price, gas |-> bids[i].gas,
            nonce |-> Cardinality({j \in 1..(i - 1) :
                                     bids[j].from = bids[i].from})]]
  IN  {Numbered(bids) : bids \in UNION {[1..n -> Bids] : n \in 0..MaxTxs}}

PSInit ==
  /\ unsorted \in Pools
  /\ sortedByNonce = [a \in Senders |-> <<>>]
  /\ heap = {}
  /\ sorted_transactions = <<>>
  /\ currentTransactions = <<>>
  /\ totalGasLimit = 0
  /\ pc = "group"

\* pending_transactions.forEach(...): a sender's transactions go into one array.
From(a) == {tx \in Range(unsorted) : tx.from = a}

\* What sort(nonceSort) may leave of an array of txs.
NonceSorts(txs) ==
  {s \in [1..Cardinality(txs) -> txs] :
     /\ Range(s) = txs
     /\ \A i, j \in DOMAIN s : i < j => s[i] # s[j] /\ s[i].nonce <= s[j].nonce}

Group ==
  /\ pc = "group"
  /\ sortedByNonce' \in [Senders -> UNION {NonceSorts(From(a)) : a \in Senders}]
  /\ \A a \in Senders : sortedByNonce'[a] \in NonceSorts(From(a))
  /\ pc' = "heap"
  /\ UNCHANGED <<unsorted, heap, sorted_transactions, currentTransactions,
                 totalGasLimit>>

\* heap.push(sortedByNonce[address].shift()), for each sender.
FillHeap ==
  /\ pc = "heap"
  /\ LET senders == {a \in Senders : sortedByNonce[a] # <<>>}
     IN  /\ heap' = {Head(sortedByNonce[a]) : a \in senders}
         /\ sortedByNonce' = [a \in Senders |->
              IF a \in senders THEN Tail(sortedByNonce[a]) ELSE <<>>]
  /\ pc' = "merge"
  /\ UNCHANGED <<unsorted, sorted_transactions, currentTransactions,
                 totalGasLimit>>

\* heap.pop(): any of the best when several bid the same price.
CheapestFirst(best) == \A tx \in heap : tx.price >= best.price
IsBest(best) == \A tx \in heap : tx.price <= best.price

\* The sender's next transaction takes the place of the one popped.
Refilled(best) ==
  LET rest == sortedByNonce[best.from]
  IN  (heap \ {best}) \cup (IF rest = <<>> THEN {} ELSE {Head(rest)})

\* The loop while (heap.size() > 0).
Merge ==
  /\ pc = "merge"
  /\ \E best \in heap :
       /\ IsBest(best)
       /\ heap' = Refilled(best)
       /\ sortedByNonce' = [sortedByNonce EXCEPT ![best.from] =
                              IF @ = <<>> THEN <<>> ELSE Tail(@)]
       /\ sorted_transactions' = Append(sorted_transactions, best)
  /\ UNCHANGED <<unsorted, currentTransactions, totalGasLimit, pc>>

Sorted ==
  /\ pc = "merge" /\ heap = {}
  /\ pc' = "pack"
  /\ UNCHANGED <<unsorted, sortedByNonce, heap, sorted_transactions,
                 currentTransactions, totalGasLimit>>
-----------------------------------------------------------------------------
\* What is left of the sorted pool while it is shifted into the block.
Waiting == SubSeq(sorted_transactions, Len(currentTransactions) + 1,
                  Len(sorted_transactions))

FitsStrictly(tx) == totalGasLimit + tx.gas < maxGasLimit
Fits(tx) == totalGasLimit + tx.gas <= maxGasLimit

\* One turn of the loop while (self.pending_transactions.length > 0).
Pack ==
  /\ pc = "pack" /\ Waiting # <<>>
  /\ Fits(Head(Waiting))
  /\ totalGasLimit' = totalGasLimit + Head(Waiting).gas
  /\ currentTransactions' = Append(currentTransactions, Head(Waiting))
  /\ UNCHANGED <<unsorted, sortedByNonce, heap, sorted_transactions, pc>>

\* The pool is empty, or the next transaction won't fit: break.
Packed ==
  /\ pc = "pack"
  /\ Waiting # <<>> => ~Fits(Head(Waiting))
  /\ pc' = "done"
  /\ UNCHANGED <<unsorted, sortedByNonce, heap, sorted_transactions,
                 currentTransactions, totalGasLimit>>

\* Nothing is left to do.
Done == pc = "done" /\ UNCHANGED PSvars

PSNext == \/ Group \/ FillHeap \/ Merge \/ Sorted
          \/ Pack \/ Packed \/ Done

PSSpec == PSInit /\ [][PSNext]_PSvars
-----------------------------------------------------------------------------
(* The sorted pool is the pool it was given, reordered, each sender's      *)
(* transactions by nonce and the best price first among senders' heads: an *)
(* order PoolOrder allows.                                                 *)
SortsByPriceAndNonce ==
  pc \in {"pack", "done"} => sorted_transactions \in PriceNonceOrders(unsorted)

(* The block is the longest prefix of the sorted pool that fits, and is    *)
(* not empty while transactions wait ("This should never happen",          *)
(* lib/blockchain_double.js:650).                                          *)
PacksLongestPrefix ==
  pc = "done" =>
    /\ Len(currentTransactions) \in BlockCuts(sorted_transactions, maxGasLimit)
    /\ currentTransactions = SubSeq(sorted_transactions, 1,
                                    Len(currentTransactions))
    /\ unsorted # <<>> => currentTransactions # <<>>
=============================================================================
