----------------------------- MODULE PoolOrder -----------------------------
(***************************************************************************)
(* What BlockchainDouble promises of a pool of pending transactions: the   *)
(* nonce getQueuedNonce gives the next transaction of a sender, the order  *)
(* in which sortByPriceAndNonce leaves it, and the part of the             *)
(* sorted pool processNextBlock puts into the next block.                  *)
(*                                                                         *)
(* The heap and the array sort of the code break ties in an order no       *)
(* caller can rely on, so an order is any member of a set here.  PoolSort  *)
(* is the algorithm, step by step, and is checked against this module.     *)
(***************************************************************************)
EXTENDS Integers, Sequences, FiniteSetsExt

QueuedNonceOfAccount(pool, root, account) == {root.nonce[account]}

\* One more than the highest nonce waiting, else the nonce of the account; a
\* set of one number (a set, so that a proof need not show that it is one).
QueuedNonce(pool, root, account) ==
  LET queued == {pool[i].nonce : i \in {j \in DOMAIN pool :
                                          pool[j].from = account}}
  IN  IF queued = {} THEN {root.nonce[account]}
      ELSE {q + 1 : q \in {h \in queued : \A other \in queued : other <= h}}

\* s is the pool in another order (the transactions of a pool are distinct).
IsReordering(s, pool) ==
  /\ Range(s) = Range(pool)
  /\ \A i, j \in DOMAIN s : s[i] = s[j] => i = j

\* At position i, the first transaction left of the sender of s[k] is s[k].
IsHead(s, i, k) == \A m \in i..(k - 1) : s[m].from # s[k].from

(* The greedy order of sortByPriceAndNonce: a sender's transactions by      *)
(* nonce, and at each position the best price among the first transactions *)
(* left of all senders.                                                    *)
IsPriceNonceOrder(s) ==
  \A i, k \in DOMAIN s : i < k =>
    /\ s[i].from = s[k].from => s[i].nonce <= s[k].nonce
    /\ IsHead(s, i, k) => s[i].price >= s[k].price

PriceNonceOrders(pool) ==
  {s \in [1..Len(pool) -> Range(pool)] :
      IsReordering(s, pool) /\ IsPriceNonceOrder(s)}

\* The gas limits of the first k transactions of s, summed.
GasOfFirst(s, k) ==
  LET total[i \in 0..Len(s)] == IF i = 0 THEN 0 ELSE total[i - 1] + s[i].gas
  IN  total[k]

(* How many transactions the while loop of processNextBlock shifts off the *)
(* sorted pool s: it stops at the first that does not fit the block.       *)
BlockCuts(s, blockGasLimit) ==
  {k \in 0..Len(s) :
     /\ GasOfFirst(s, k) <= blockGasLimit
     /\ k < Len(s) => GasOfFirst(s, k + 1) > blockGasLimit}
=============================================================================
