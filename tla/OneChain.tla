------------------------------ MODULE OneChain ------------------------------
(***************************************************************************)
(* What a node that forks another one promises its clients (test/forking.js,*)
(* "should maintain a block number that includes new blocks PLUS the       *)
(* existing chain", "... by pegging the forked block number"): one chain,  *)
(* the blocks of the other node up to the fork and its own after them, and *)
(* every answer about an account, a block, a receipt or a range of logs is *)
(* an answer about that chain.  What the other node does after the fork is *)
(* not to be seen.  Forking, which holds only what it has written itself   *)
(* and asks the other node for the rest, implements this.                  *)
(***************************************************************************)
EXTENDS Integers, Sequences

CONSTANTS NoAnswer, NoBlock

VARIABLES
  chain,    \* [hash, txs, accounts]; block number n is chain[n + 1]; of an account
            \*   that is not in accounts any more nothing is promised
  floor,    \* how many of its blocks no revert takes back
  answer    \* the last answer, forgotten when something else is asked

vars == <<chain, floor, answer>>

Init == chain = <<>> /\ floor = 0 /\ answer = NoAnswer

Open ==
  /\ chain = <<>> /\ chain' # <<>>
  /\ floor' = Len(chain')
  /\ answer' = NoAnswer

\* A block with one transaction, executed on the state before it: it changes an
\* account, destroys one, or is about one that is destroyed.
Mine ==
  /\ chain # <<>>
  /\ Len(chain') = Len(chain) + 1
  /\ SubSeq(chain', 1, Len(chain)) = chain
  /\ LET block == chain'[Len(chain')]
         state == chain[Len(chain)].accounts
     IN  /\ \A n \in DOMAIN chain : chain[n].hash # block.hash
         /\ block.txs = <<block.hash>>
         /\ \/ \E a \in DOMAIN state :
                 \/ block.accounts = [state EXCEPT ![a] = [p \in DOMAIN @ |-> @[p] + 1]]
                 \/ block.accounts = [b \in DOMAIN state \ {a} |-> state[b]]
            \/ block.accounts = state
  /\ UNCHANGED <<floor, answer>>

Revert ==
  /\ \E height \in floor..Len(chain) : chain' = SubSeq(chain, 1, height)
  /\ UNCHANGED floor
  /\ answer' = NoAnswer

\* No block has destroyed it; the blocks up to the fork are told right all the same.
Promised(a, n) == n + 1 < floor \/ a \in DOMAIN chain[Len(chain)].accounts

\* There is a block of this hash.
Known(hash) == \E n \in DOMAIN chain : chain[n].hash = hash

Correct(r) ==
  CASE r.op = "account" ->
         /\ r.number + 1 \in DOMAIN chain
         /\ Promised(r.account, r.number) =>
              \A p \in DOMAIN r.value :
                r.value[p] = chain[r.number + 1].accounts[r.account][p]
    [] r.op = "block" ->
         /\ r.number + 1 \in DOMAIN chain
         /\ r.value = chain[r.number + 1].hash
    [] r.op = "logs" ->
         r.value = [i \in 1..r.to - r.number + 1 |-> chain[r.number + i].txs]
    [] r.op = "receipt" ->
         \/ \E n \in DOMAIN chain : /\ r.value = chain[n].hash
                                    /\ \E i \in DOMAIN chain[n].txs :
                                         chain[n].txs[i] = r.hash
         \/ /\ r.value = NoBlock
            /\ \A n \in DOMAIN chain : \A i \in DOMAIN chain[n].txs :
                 chain[n].txs[i] # r.hash
    [] r.op = "hash" -> r.value = r.hash /\ Known(r.hash)

Ask == answer' = NoAnswer /\ UNCHANGED <<chain, floor>>

Tell == answer' # NoAnswer /\ Correct(answer') /\ UNCHANGED <<chain, floor>>

Next == Open \/ Mine \/ Revert \/ Ask \/ Tell

Spec == Init /\ [][Next]_vars
=============================================================================
