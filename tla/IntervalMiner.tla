---------------------------- MODULE IntervalMiner ----------------------------
(***************************************************************************)
(* Mining on an interval (options.blockTime): the timeout of StateManager  *)
(* (lib/statemanager.js) sends evm_mine to the provider like any client,   *)
(* and is armed again from that request's callback.  The provider is taken *)
(* as the FifoServer it implements: a line of requests, one served at a    *)
(* time.  miner_start and miner_stop come through the same line and touch  *)
(* the timeout directly.                                                   *)
(* IM begins the names that RequestQueue has as well: its proofs extend    *)
(* both modules.                                                           *)
(*                                                                         *)
(* A definition just before another with the same parameters, and not used *)
(* by any other, is a fault the code might have: PROJECT.json pairs them,  *)
(* and README.md says which property each must break.                      *)
(***************************************************************************)
EXTENDS Integers, Sequences

CONSTANTS
  blockTime,    \* the interval; a unit is the time nothing is shorter than
  MaxLine       \* bound: client requests in the line

ASSUME BlockTimeAssumption == blockTime \in Nat \ {0}
ASSUME MaxLineAssumption == MaxLine \in Nat

VARIABLES
  is_mining,
  timeout,      \* what mining_interval_timeout has left, or NotSet
  line,         \* requests queued in the provider
  serving       \* the request being served, or "nothing"

IMvars == <<is_mining, timeout, line, serving>>

\* What clients ask; "other" stands for any request that leaves all this alone,
\* evm_mine by a client among them.
ClientRequests == {"miner_start", "miner_stop", "other"}

\* The timeout was cleared or has fired.
NotSet == -1

\* The evm_mine the timeout sends; its callback is mineOnInterval.
Tick == "tick"

IMInit ==
  /\ is_mining = TRUE
  /\ timeout = blockTime
  /\ line = <<>>
  /\ serving = "nothing"

ClientSends(req) ==
  /\ Len(line) < MaxLine
  /\ line' = Append(line, req)
  /\ UNCHANGED <<is_mining, timeout, serving>>

TimePasses ==
  /\ timeout > 0
  /\ timeout' = timeout - 1
  /\ UNCHANGED <<is_mining, line, serving>>

TimeoutFires ==
  /\ timeout = 0
  /\ timeout' = NotSet
  /\ line' = Append(line, Tick)
  /\ UNCHANGED <<is_mining, serving>>

Serve ==
  /\ serving = "nothing" /\ line # <<>>
  /\ serving' = Head(line)
  /\ line' = Tail(line)
  /\ UNCHANGED <<is_mining, timeout>>

Answered == serving' = "nothing" /\ UNCHANGED line

NeverRearmed == UNCHANGED timeout
\* mineOnInterval: the timeout is cleared and set anew, so it starts over.
mineOnInterval == timeout' = blockTime

\* processBlocks(1) mines or fails, and its callback is mineOnInterval.
ServeTick ==
  /\ serving = Tick
  /\ mineOnInterval
  /\ Answered
  /\ UNCHANGED is_mining

StartForgetsTimeout ==
  /\ serving = "miner_start"
  /\ is_mining' = TRUE
  /\ Answered
  /\ UNCHANGED timeout

startMining ==
  /\ serving = "miner_start"
  /\ is_mining' = TRUE
  /\ mineOnInterval
  /\ Answered

StopForgetsTimeout ==
  /\ serving = "miner_stop"
  /\ is_mining' = FALSE
  /\ Answered
  /\ UNCHANGED timeout

stopMining ==
  /\ serving = "miner_stop"
  /\ is_mining' = FALSE
  /\ timeout' = NotSet
  /\ Answered

ServeOther ==
  /\ serving = "other"
  /\ Answered
  /\ UNCHANGED <<is_mining, timeout>>

Handle == ServeTick \/ startMining \/ stopMining \/ ServeOther

IMNext ==
  \/ \E req \in ClientRequests : ClientSends(req)
  \/ TimePasses \/ TimeoutFires \/ Serve \/ Handle

IMSpec == IMInit /\ [][IMNext]_IMvars

\* Time passes, a timeout whose time has come fires, and the event loop serves the
\* line; every handler here answers.  None of it keeps a timeout from starting over.
IMFairSpec ==
  /\ IMSpec
  /\ WF_IMvars(TimePasses) /\ WF_IMvars(TimeoutFires)
  /\ WF_IMvars(Serve) /\ WF_IMvars(Handle)
-----------------------------------------------------------------------------
TickOutstanding == serving = Tick \/ \E i \in DOMAIN line : line[i] = Tick

\* The variables have their types.
IMTypeOK ==
  /\ is_mining \in BOOLEAN /\ timeout \in 0..blockTime \cup {NotSet}
  /\ line \in Seq(ClientRequests \cup {Tick})
  /\ serving \in ClientRequests \cup {Tick, "nothing"}

(* While mining is on, the interval cannot die out: the timeout is armed   *)
(* or the evm_mine that will arm it is on its way, however miner_start,    *)
(* miner_stop and the timeout cross (mineOnInterval, startMining).         *)
IntervalAlive == is_mining => timeout # NotSet \/ TickOutstanding

(* Left on, mining happens again and again, unless miner_start is asked    *)
(* again and again: each sets the countdown back, so that clients who ask  *)
(* it more often than every blockTime keep the node from mining            *)
(* (mineOnInterval, startMining).                                          *)
KeepsMining ==
  <>[]is_mining => []<>(serving = Tick) \/ []<>(serving = "miner_start")

Still == timeout = NotSet /\ ~TickOutstanding

StopEnds ==
  serving = "miner_stop" /\ serving' = "nothing" /\ ~TickOutstanding => Still'

StaysEnded == ~is_mining /\ Still => is_mining' \/ Still'

(* miner_stop ends interval mining for good, until miner_start, unless the *)
(* evm_mine of the timeout is in the line just then: its callback would    *)
(* arm the timeout again (stopMining, mineOnInterval;                      *)
(* test/interval_mining.js, "miner_stop should stop interval mining").     *)
StopIsFinalUnlessTickWaits == [][StopEnds /\ StaysEnded]_IMvars
=============================================================================
