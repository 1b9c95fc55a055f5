---------------------------------- MODULE VM ----------------------------------
(***************************************************************************)
(* The account state and what ethereumjs-vm does to it, as far as the      *)
(* ledger can tell.  A state root is the nonces of the accounts, which the *)
(* ledger reads, and its identity: the transactions of each block executed *)
(* since genesis (block rewards make every block change the trie).         *)
(***************************************************************************)
EXTENDS Integers, Sequences, FiniteSets

CONSTANTS
  Accounts         \* the unlocked senders

\* What the VM does with a transaction: it succeeds, it throws (a receipt with
\* status 0), or its sender cannot pay, which fails the whole block.
Fates == {"ok", "throws", "poor"}

Tx == [from : Accounts, nonce : Nat, price : Nat, gas : Nat, fate : Fates]

Root == [nonce : [Accounts -> Nat], history : Seq(Seq(Tx))]

GenesisRoot == [nonce |-> [a \in Accounts |-> 0], history |-> <<>>]

SentBy(txs, account) == {i \in DOMAIN txs : txs[i].from = account}

SentBefore(txs, i) == {j \in SentBy(txs, txs[i].from) : j < i}

\* vm.runBlock returns no error: each transaction carries the nonce its sender
\* has by then, and its sender can pay.
VMAccepts(root, txs) ==
  \A i \in DOMAIN txs :
    /\ txs[i].fate # "poor"
    /\ txs[i].nonce = root.nonce[txs[i].from] + Cardinality(SentBefore(txs, i))

RunBlock(root, txs) ==
  [nonce   |-> [a \in Accounts |->
                  root.nonce[a] + Cardinality(SentBy(txs, a))],
   history |-> Append(root.history, txs)]
===============================================================================
