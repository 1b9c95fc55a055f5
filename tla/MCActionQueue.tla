---------------------------- MODULE MCActionQueue ----------------------------
(***************************************************************************)
(* Instances of ActionQueue for TLC.                                       *)
(***************************************************************************)
EXTENDS ActionQueue

CONSTANTS a1, a2

MCAccounts == {a1, a2}

Kind(method, from, fate, block) ==
  [method |-> method, from |-> from, fate |-> fate, block |-> block]

Reading(method, block) == Kind(method, a1, "ok", block)

\* Two senders, one of whom may be unable to pay; calls on the genesis block and
\* on the latest, of which either may be refused; the transaction
\* traced is one of block 1.
MCKinds ==
  {Kind("eth_sendTransaction", a1, "ok", 0),
   Kind("eth_sendTransaction", a2, "ok", 0),
   Kind("eth_sendTransaction", a2, "poor", 0),
   Kind("eth_call", a1, "poor", 0), Kind("eth_call", a1, "poor", Latest)}
   \cup {Reading("eth_call", n) : n \in {0, Latest}}
   \cup {Reading(method, 0) : method \in {"eth_getStorageAt", "eth_getBalance"}}
   \cup {Reading("debug_traceTransaction", 1)}
   \cup {Reading(method, 0) : method \in {"evm_mine", "miner_start"}}

\* The calls of a batch, or any calls with asyncRequestProcessing.
All == Queued \cup Unqueued
=============================================================================
