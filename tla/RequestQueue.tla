---------------------------- MODULE RequestQueue ----------------------------
(***************************************************************************)
(* Provider (lib/provider.js): the queue of payloads, the lock             *)
(* _requestInProgress and the setImmediate calls that keep the queue       *)
(* moving, around the engine (web3-provider-engine), which runs the calls  *)
(* of a batch together and gives the batch back when all have ended, or at *)
(* once when one has failed.                                               *)
(*                                                                         *)
(* A payload is the sequence of its calls.  The answer runs in one turn:   *)
(* the intermediary of Provider.send shapes the response, then the         *)
(* caller's callback runs, which may send again and may throw.             *)
(*                                                                         *)
(* A definition just before another with the same parameters, and not used *)
(* by any other, is a fault the code might have: PROJECT.json pairs them,  *)
(* and README.md says which property each must break.                      *)
(***************************************************************************)
EXTENDS Integers, Sequences, FiniteSets

CONSTANTS
  Calls,        \* JSON-RPC calls
  Payloads,     \* a payload: the sequence of its calls, one unless it is a batch
  Failing,      \* the calls that end in an error
  Reverting,    \* of these, those whose error is a RuntimeError of the VM
  Executing,    \* the calls that send a transaction, and eth_calls
  Throwers,     \* the payloads whose callback throws
  vmErrorsOnRPCResponse

CallsOf(p) == {p[i] : i \in DOMAIN p}

ASSUME PayloadsAssumption ==
  /\ Payloads \subseteq Seq(Calls) \ {<<>>}
  /\ \A p, q \in Payloads : p # q => CallsOf(p) \cap CallsOf(q) = {}
ASSUME FaultsAssumption ==
  /\ Reverting \subseteq Failing /\ Failing \subseteq Calls
  /\ Executing \subseteq Calls /\ Throwers \subseteq Payloads
  /\ vmErrorsOnRPCResponse \in BOOLEAN

VARIABLES
  _requestQueue,
  _requestInProgress,
  immediates,       \* setImmediate(_processRequestQueue) calls not yet run
  inEngine,         \* payloads given to the engine and not yet answered
  lost,             \* of these, those that never will be
  running,          \* calls the engine is running
  answered          \* payloads in the order they were answered

vars == <<_requestQueue, _requestInProgress, immediates, inEngine, lost,
          running, answered>>
-----------------------------------------------------------------------------
InSequence(p, seq) == \E i \in DOMAIN seq : seq[i] = p

Unsent(p) ==
  /\ ~InSequence(p, _requestQueue)
  /\ p \notin inEngine
  /\ ~InSequence(p, answered)

Init ==
  /\ _requestQueue = <<>>
  /\ _requestInProgress = FALSE
  /\ immediates = 0
  /\ inEngine = {} /\ lost = {}
  /\ running = {}
  /\ answered = <<>>

SendUrgently(p) ==
  /\ Unsent(p)
  /\ _requestQueue' = <<p>> \o _requestQueue
  /\ immediates' = immediates + 1
  /\ UNCHANGED <<_requestInProgress, inEngine, lost, running, answered>>

\* send, _queueRequest
Send(p) ==
  /\ Unsent(p)
  /\ _requestQueue' = Append(_requestQueue, p)
  /\ immediates' = immediates + 1
  /\ UNCHANGED <<_requestInProgress, inEngine, lost, running, answered>>

LockIgnored == TRUE
LockIsFree == ~_requestInProgress

\* _processRequestQueue while a request is in progress: nothing.
WakeForNothing ==
  /\ immediates > 0 /\ ~LockIsFree
  /\ immediates' = immediates - 1
  /\ UNCHANGED <<_requestQueue, _requestInProgress, inEngine, lost, running,
                 answered>>

\* ... with the lock free and nothing queued: the lock is taken and freed.
WakeToEmptyQueue ==
  /\ immediates > 0 /\ LockIsFree
  /\ _requestQueue = <<>>
  /\ immediates' = immediates - 1
  /\ UNCHANGED <<_requestQueue, _requestInProgress, inEngine, lost, running,
                 answered>>

\* ... otherwise the first payload goes to the engine.
Dispatch ==
  /\ immediates > 0 /\ LockIsFree
  /\ _requestQueue # <<>>
  /\ immediates' = immediates - 1
  /\ _requestQueue' = Tail(_requestQueue)
  /\ _requestInProgress' = TRUE
  /\ inEngine' = inEngine \cup {Head(_requestQueue)}
  /\ running' = running \cup CallsOf(Head(_requestQueue))
  /\ UNCHANGED <<lost, answered>>

NoWake == 0
\* The answer first reschedules the queue when something waits in it.
WakeAgain == IF _requestQueue = <<>> THEN 0 ELSE 1

LockKept(p) == TRUE
\* The lock is freed after the callback, so not if the callback throws.
LockAfter(p) == p \in Throwers

\* The answer to p: its callback sends the payloads `more'.
Answer(p, more) ==
  /\ inEngine' = inEngine \ {p}
  /\ answered' = Append(answered, p)
  /\ _requestQueue' = _requestQueue \o more
  /\ immediates' = immediates + WakeAgain + Len(more)
  /\ _requestInProgress' = LockAfter(p)
  /\ UNCHANGED lost

\* When c fails the engine has the results of the calls that ended, and c's own.
HasResult(p, c, i) == p[i] = c \/ p[i] \notin running

\* The intermediary goes through them up to the last one, and reads response.error
\* of a call in between that still runs, for which there is nothing.
LacksResult(p, c) ==
  \E i, j \in DOMAIN p : i < j /\ ~HasResult(p, c, i) /\ HasResult(p, c, j)

\* It has the error of c for each of them.  A RuntimeError it writes into the
\* response.error of every call that executes, which one that ended well lacks.
BlamesSuccess(p, c) ==
  /\ vmErrorsOnRPCResponse /\ c \in Reverting
  /\ \E i \in DOMAIN p : p[i] # c /\ p[i] \in Executing /\ HasResult(p, c, i)

AnswerThrows(p, c) ==
  c \in Failing /\ (LacksResult(p, c) \/ BlamesSuccess(p, c))

\* When it throws, the caller hears nothing and the lock stays taken.
LoseAnswer(p) ==
  /\ lost' = lost \cup {p}
  /\ immediates' = immediates + WakeAgain
  /\ UNCHANGED <<_requestQueue, _requestInProgress, inEngine, answered>>

SettlesAtFirst(c, p) ==
  /\ p \in inEngine \ lost
  /\ c \in CallsOf(p)

\* The end of call c makes the engine give p back.
Settles(c, p) ==
  /\ p \in inEngine \ lost
  /\ c \in CallsOf(p)
  /\ c \in Failing \/ running \cap CallsOf(p) = {c}

\* A call ends, and the payload it is of waits for others or was given back.
CallEnds(c) ==
  /\ c \in running
  /\ \A p \in inEngine : ~Settles(c, p)
  /\ running' = running \ {c}
  /\ UNCHANGED <<_requestQueue, _requestInProgress, immediates, inEngine, lost,
                 answered>>

PayloadEnds(c) ==
  /\ c \in running
  /\ running' = running \ {c}
  /\ \E p \in inEngine :
       /\ Settles(c, p)
       /\ ~AnswerThrows(p, c)
       /\ \/ Answer(p, <<>>)
          \/ \E q \in Payloads : Unsent(q) /\ Answer(p, <<q>>)

BatchFails(c) ==
  /\ c \in running
  /\ running' = running \ {c}
  /\ \E p \in inEngine :
       /\ Settles(c, p)
       /\ AnswerThrows(p, c)
       /\ LoseAnswer(p)

Next ==
  \/ \E p \in Payloads : Send(p)
  \/ WakeForNothing \/ WakeToEmptyQueue \/ Dispatch
  \/ \E c \in Calls : CallEnds(c) \/ PayloadEnds(c) \/ BatchFails(c)

Spec == Init /\ [][Next]_vars

\* The event loop runs what is scheduled, and the engine ends every call.
FairSpec ==
  /\ Spec
  /\ WF_vars(WakeForNothing \/ WakeToEmptyQueue \/ Dispatch)
  /\ \A c \in Calls : WF_vars(CallEnds(c) \/ PayloadEnds(c) \/ BatchFails(c))
-----------------------------------------------------------------------------
\* The variables have their types.
TypeOK ==
  /\ _requestQueue \in Seq(Payloads)
  /\ _requestInProgress \in BOOLEAN
  /\ immediates \in Nat
  /\ inEngine \subseteq Payloads /\ lost \subseteq inEngine
  /\ running \subseteq Calls
  /\ answered \in Seq(Payloads)

(* One payload is in the engine at a time, and the lock is held meanwhile  *)
(* (_processRequestQueue).                                                 *)
OnePayloadAtATime ==
  /\ \A p, q \in inEngine : p = q
  /\ inEngine # {} => _requestInProgress

(* No wake-up is lost: when the lock is free and something is queued, a    *)
(* _processRequestQueue is scheduled, though most of them find the lock    *)
(* taken and do nothing (_queueRequest, _processRequestQueue).             *)
NoLostWakeup ==
  _requestQueue # <<>> /\ ~_requestInProgress => immediates > 0

(* The calls that run are those of the payload being served, so that no    *)
(* handler sees the work of another payload half way.  The exception is    *)
(* what still runs of a batch that was answered because one of its calls   *)
(* failed; it runs on beside the payloads after it.                        *)
CallsIsolated ==
  \A c \in running :
    \/ inEngine # {} /\ \A p \in inEngine : c \in CallsOf(p)
    \/ \E i \in DOMAIN answered :
         c \in CallsOf(answered[i]) /\ CallsOf(answered[i]) \cap Failing # {}

(* Provider.send is a FifoServer: the payloads answered, the one in the    *)
(* engine and those queued form the line.                                  *)
Server == INSTANCE FifoServer WITH
  line    <- answered
               \o (IF inEngine = {} THEN <<>>
                   ELSE <<CHOOSE p \in inEngine : TRUE>>)
               \o _requestQueue,
  done    <- Len(answered),
  serving <- inEngine # {}

\* Payloads are served in order, one at a time (_processRequestQueue).
ServedInOrder == Server!Spec

\* A callback or an intermediary threw, and the lock is taken for ever.
Wedged == lost # {} \/ \E p \in Throwers : InSequence(p, answered)

(* Every payload sent is answered, whatever it is queued behind and also   *)
(* when it was sent from a callback, until something throws: a callback,   *)
(* or the intermediary given what there is of a batch one of whose calls   *)
(* failed (send, _processRequestQueue, reportErrorInResponse).             *)
PayloadsAnsweredUntilWedged ==
  \A p \in Payloads : ~Unsent(p) ~> InSequence(p, answered) \/ Wedged
=============================================================================
