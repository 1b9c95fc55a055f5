------------------------- MODULE RequestQueue_proofs -------------------------
(***************************************************************************)
(* Proofs about RequestQueue, for any set of payloads, failing calls and   *)
(* throwing callbacks; and about IntervalMiner, whose timer is a client of *)
(* the line that RequestQueue keeps, for a line of any length.             *)
(***************************************************************************)
EXTENDS RequestQueue, IntervalMiner, TLAPS

\* What runs is of a payload in the engine, or of a batch answered early.
CallsOwned ==
  \A c \in running :
    \/ \E p \in inEngine : c \in CallsOf(p)
    \/ \E i \in DOMAIN answered :
         c \in CallsOf(answered[i]) /\ CallsOf(answered[i]) \cap Failing # {}

\* What the steps preserve together: the wake-up argument needs the lock to be
\* held while the engine is busy, and the isolation of calls needs one payload.
Inv == TypeOK /\ OnePayloadAtATime /\ NoLostWakeup /\ CallsOwned

LEMMA PayloadCalls ==
  ASSUME NEW p \in Payloads PROVE CallsOf(p) \subseteq Calls
BY PayloadsAssumption DEF CallsOf

\* What was answered stays answered.
LEMMA AnsweredGrows ==
  ASSUME answered \in Seq(Payloads), NEW p \in Payloads,
         answered' = Append(answered, p)
  PROVE  /\ p = answered'[Len(answered')] /\ Len(answered') \in DOMAIN answered'
         /\ \A i \in DOMAIN answered : i \in DOMAIN answered'
                                       /\ answered'[i] = answered[i]
OBVIOUS

LEMMA InitInv == Init => Inv
<1> SUFFICES ASSUME Init PROVE Inv
  OBVIOUS
<1>1. TypeOK
  <2>1. <<>> \in Seq(Payloads)
    OBVIOUS
  <2>2. QED
    BY <2>1 DEF Init, TypeOK
<1>2. OnePayloadAtATime /\ NoLostWakeup /\ CallsOwned
  BY DEF Init, OnePayloadAtATime, NoLostWakeup, CallsOwned
<1>3. QED
  BY <1>1, <1>2 DEF Inv

\* The answer to a payload, which is the only one in the engine.
LEMMA AnswerKeepsInv ==
  ASSUME Inv, NEW c \in Calls, NEW p \in inEngine, c \in running,
         running' = running \ {c}, Settles(c, p),
         NEW more \in Seq(Payloads), Answer(p, more)
  PROVE  Inv'
<1> USE DEF Inv
<1>1. p \in Payloads /\ inEngine' = {}
  BY DEF TypeOK, OnePayloadAtATime, Answer
<1>2. WakeAgain \in Nat /\ (_requestQueue # <<>> => WakeAgain = 1)
  BY DEF WakeAgain
<1>3. TypeOK'
  <2>1. _requestQueue' \in Seq(Payloads) /\ answered' \in Seq(Payloads)
    BY <1>1 DEF TypeOK, Answer
  <2>2. immediates' \in Nat
    BY <1>2 DEF TypeOK, Answer
  <2>3. _requestInProgress' \in BOOLEAN
    BY DEF Answer, LockAfter
  <2>4. lost' \subseteq inEngine'
    BY <1>1 DEF TypeOK, OnePayloadAtATime, Answer, Settles
  <2>5. QED
    BY <1>1, <2>1, <2>2, <2>3, <2>4 DEF TypeOK
<1>4. OnePayloadAtATime'
  BY <1>1 DEF OnePayloadAtATime
<1>5. NoLostWakeup'
  <2>1. CASE _requestQueue # <<>>
    BY <1>2, <2>1 DEF NoLostWakeup, Answer, TypeOK
  <2>2. CASE _requestQueue = <<>> /\ more # <<>>
    BY <1>2, <2>2 DEF NoLostWakeup, Answer, TypeOK
  <2>3. CASE _requestQueue = <<>> /\ more = <<>>
    BY <2>3 DEF NoLostWakeup, Answer
  <2>4. QED
    BY <2>1, <2>2, <2>3
<1>6. CallsOwned'
  <2>1. answered' = Append(answered, p)
    BY DEF Answer
  <2>2. SUFFICES ASSUME NEW d \in running'
                 PROVE  \E i \in DOMAIN answered' :
                          /\ d \in CallsOf(answered'[i])
                          /\ CallsOf(answered'[i]) \cap Failing # {}
    BY DEF CallsOwned
  <2>3. d \in running /\ d # c
    OBVIOUS
  <2>4. CASE d \in CallsOf(p)
    <3>1. c \in CallsOf(p) \cap Failing
      BY <2>3, <2>4 DEF Settles
    <3>2. QED
      BY <1>1, <2>1, <2>4, <3>1, AnsweredGrows DEF TypeOK
  <2>5. CASE d \notin CallsOf(p)
    <3>1. PICK i \in DOMAIN answered :
            d \in CallsOf(answered[i]) /\ CallsOf(answered[i]) \cap Failing # {}
      BY <2>3, <2>5 DEF CallsOwned, OnePayloadAtATime
    <3>2. QED
      BY <1>1, <2>1, <3>1, AnsweredGrows DEF TypeOK
  <2>6. QED
    BY <2>4, <2>5
<1>7. QED
  BY <1>3, <1>4, <1>5, <1>6

\* Dispatch gives the first payload to an engine that is empty.
LEMMA DispatchKeepsInv ==
  ASSUME Inv, Dispatch
  PROVE  Inv'
<1> USE DEF Inv
<1>1. inEngine = {} /\ Head(_requestQueue) \in Payloads
  BY DEF OnePayloadAtATime, Dispatch, LockIsFree, TypeOK
<1>2. TypeOK'
  BY <1>1, PayloadCalls DEF TypeOK, Dispatch
<1>3. OnePayloadAtATime' /\ NoLostWakeup'
  BY <1>1 DEF OnePayloadAtATime, NoLostWakeup, Dispatch
<1>4. CallsOwned'
  BY <1>1 DEF CallsOwned, Dispatch
<1>5. QED
  BY <1>2, <1>3, <1>4

LEMMA StepKeepsInv == Inv /\ [Next]_vars => Inv'
<1> SUFFICES ASSUME Inv, [Next]_vars PROVE Inv'
  OBVIOUS
<1> USE DEF Inv
<1>1. ASSUME NEW p \in Payloads, Send(p) PROVE Inv'
  BY <1>1 DEF Send, TypeOK, OnePayloadAtATime, NoLostWakeup, CallsOwned
<1>2. CASE WakeForNothing
  BY <1>2 DEF WakeForNothing, LockIsFree, TypeOK, OnePayloadAtATime, NoLostWakeup,
              CallsOwned
<1>3. CASE WakeToEmptyQueue
  BY <1>3 DEF WakeToEmptyQueue, TypeOK, OnePayloadAtATime, NoLostWakeup,
              CallsOwned
<1>4. CASE Dispatch
  BY <1>4, DispatchKeepsInv
<1>5. ASSUME NEW c \in Calls, CallEnds(c) PROVE Inv'
  BY <1>5 DEF CallEnds, TypeOK, OnePayloadAtATime, NoLostWakeup, CallsOwned
<1>6. ASSUME NEW c \in Calls, PayloadEnds(c) PROVE Inv'
  <2>1. PICK p \in inEngine, more \in Seq(Payloads) :
          Settles(c, p) /\ Answer(p, more)
    <3>1. <<>> \in Seq(Payloads) /\ \A q \in Payloads : <<q>> \in Seq(Payloads)
      OBVIOUS
    <3>2. QED
      BY <1>6, <3>1 DEF PayloadEnds
  <2>2. c \in running /\ running' = running \ {c}
    BY <1>6 DEF PayloadEnds
  <2>3. QED
    BY <2>1, <2>2, AnswerKeepsInv
<1>7. ASSUME NEW c \in Calls, BatchFails(c) PROVE Inv'
  <2>1. PICK p \in inEngine : LoseAnswer(p)
    BY <1>7 DEF BatchFails
  <2>2. running' = running \ {c}
    BY <1>7 DEF BatchFails
  <2>3. WakeAgain \in Nat
    BY DEF WakeAgain
  <2>4. QED
    BY <2>1, <2>2, <2>3 DEF LoseAnswer, TypeOK, OnePayloadAtATime, NoLostWakeup,
                            CallsOwned
<1>8. CASE UNCHANGED vars
  BY <1>8 DEF vars, TypeOK, OnePayloadAtATime, NoLostWakeup, CallsOwned
<1>9. QED
  BY <1>1, <1>2, <1>3, <1>4, <1>5, <1>6, <1>7, <1>8 DEF Next

LEMMA InvHolds == Spec => []Inv
BY InitInv, StepKeepsInv, PTL DEF Spec

(* The variables of the queue have their types.                            *)
THEOREM TypeCorrect == Spec => []TypeOK
<1>1. Inv => TypeOK
  BY DEF Inv
<1>2. QED
  BY <1>1, InvHolds, PTL

(* The lock of _processRequestQueue works: one payload is in the engine at *)
(* a time, and the lock is held meanwhile.                                 *)
THEOREM MutualExclusion == Spec => []OnePayloadAtATime
<1>1. Inv => OnePayloadAtATime
  BY DEF Inv
<1>2. QED
  BY <1>1, InvHolds, PTL

(* A payload queued while the lock is free has a wake-up scheduled         *)
(* (_queueRequest, _processRequestQueue).                                  *)
THEOREM WakeupsKept == Spec => []NoLostWakeup
<1>1. Inv => NoLostWakeup
  BY DEF Inv
<1>2. QED
  BY <1>1, InvHolds, PTL

(* No call runs beside the payload in the engine but the rest of a batch   *)
(* answered early because one of its calls failed (sendAsync).             *)
THEOREM Isolation == Spec => []CallsIsolated
<1>1. Inv => CallsIsolated
  BY DEF Inv, OnePayloadAtATime, CallsOwned, CallsIsolated
<1>2. QED
  BY <1>1, InvHolds, PTL
-----------------------------------------------------------------------------
(* RequestQueue implements FifoServer.                                      *)

\* The payload in the engine, as a sequence.
InService == IF inEngine = {} THEN <<>> ELSE <<CHOOSE p \in inEngine : TRUE>>

\* The line of FifoServer.
ServerLine == answered \o InService \o _requestQueue

LEMMA ServerLineType ==
  ASSUME TypeOK PROVE InService \in Seq(Payloads) /\ ServerLine \in Seq(Payloads)
<1>1. InService \in Seq(Payloads)
  <2>1. CASE inEngine = {}
    BY <2>1 DEF InService
  <2>2. CASE inEngine # {}
    <3>1. (CHOOSE p \in inEngine : TRUE) \in Payloads
      BY <2>2 DEF TypeOK
    <3>2. QED
      BY <2>2, <3>1 DEF InService
  <2>3. QED
    BY <2>1, <2>2
<1>2. QED
  BY <1>1 DEF ServerLine, TypeOK

\* A sequence is a prefix of itself with more at the end.
LEMMA PrefixOfConcat ==
  ASSUME NEW S, NEW s \in Seq(S), NEW t \in Seq(S)
  PROVE  Len(s \o t) >= Len(s) /\ \A i \in DOMAIN s : (s \o t)[i] = s[i]
OBVIOUS

\* When the first of a queue goes into service the line stays what it is.
LEMMA HeadMoves ==
  ASSUME NEW S, NEW a \in Seq(S), NEW q \in Seq(S), q # <<>>
  PROVE  a \o <<Head(q)>> \o Tail(q) = a \o <<>> \o q
OBVIOUS

\* A payload sent goes to the end of the line.
LEMMA SentMoves ==
  ASSUME NEW S, NEW a \in Seq(S), NEW x \in Seq(S), NEW q \in Seq(S), NEW p \in S
  PROVE  a \o x \o Append(q, p) = (a \o x \o q) \o <<p>>
OBVIOUS

\* The server's view of a line that grew.
LEMMA Grows ==
  ASSUME TypeOK, NEW more \in Seq(Payloads), ServerLine' = ServerLine \o more
  PROVE  Server!LineGrows
<1>1. /\ Len(ServerLine') >= Len(ServerLine)
      /\ \A i \in DOMAIN ServerLine : ServerLine'[i] = ServerLine[i]
  BY ServerLineType, PrefixOfConcat
<1>2. QED
  BY <1>1 DEF Server!LineGrows, ServerLine, InService

LEMMA ServerStep ==
  ASSUME Inv, [Next]_vars
  PROVE  [Server!Next]_(Server!vars)
<1> USE DEF Inv
<1>0. InService \in Seq(Payloads) /\ ServerLine \in Seq(Payloads)
  BY ServerLineType
<1>1. ASSUME NEW p \in Payloads, Send(p) PROVE Server!Accept
  <2>1. answered' = answered /\ InService' = InService
          /\ _requestQueue' = Append(_requestQueue, p)
    BY <1>1 DEF Send, InService
  <2>2. ServerLine' = ServerLine \o <<p>>
    BY <1>0, <2>1, SentMoves DEF ServerLine, TypeOK
  <2>3. Server!LineGrows
    <3>1. TypeOK /\ <<p>> \in Seq(Payloads)
      OBVIOUS
    <3>2. QED
      BY <2>2, <3>1, Grows
  <2>4. QED
    BY <1>1, <2>3 DEF Server!Accept, Send
<1>2. ASSUME WakeForNothing \/ WakeToEmptyQueue PROVE UNCHANGED Server!vars
  <2>1. UNCHANGED <<answered, inEngine, _requestQueue>>
    BY <1>2 DEF WakeForNothing, WakeToEmptyQueue
  <2>2. QED
    BY <2>1 DEF Server!vars
<1>3. ASSUME Dispatch PROVE Server!Serve
  <2>1. inEngine = {} /\ InService = <<>>
    BY <1>3 DEF OnePayloadAtATime, Dispatch, LockIsFree, InService
  <2>2. InService' = <<Head(_requestQueue)>> /\ inEngine' # {}
    BY <1>3, <2>1 DEF Dispatch, InService
  <2>3. ServerLine' = ServerLine
    BY <1>3, <2>1, <2>2, HeadMoves DEF Dispatch, ServerLine, TypeOK
  <2>4. Len(answered) < Len(ServerLine)
    BY <1>3, <2>1 DEF Dispatch, ServerLine, TypeOK
  <2>5. QED
    BY <1>3, <2>1, <2>2, <2>3, <2>4
       DEF Server!Serve, Dispatch, ServerLine, InService
<1>4. ASSUME NEW c \in Calls, CallEnds(c) PROVE UNCHANGED Server!vars
  BY <1>4 DEF CallEnds, Server!vars
<1>5. ASSUME NEW c \in Calls, PayloadEnds(c) PROVE Server!Answer
  <2>1. PICK p \in inEngine, more \in Seq(Payloads) : Answer(p, more)
    <3>1. <<>> \in Seq(Payloads) /\ \A q \in Payloads : <<q>> \in Seq(Payloads)
      OBVIOUS
    <3>2. QED
      BY <1>5, <3>1 DEF PayloadEnds
  <2>2. p \in Payloads /\ inEngine = {p} /\ inEngine' = {}
    BY <2>1 DEF OnePayloadAtATime, TypeOK, Answer
  <2>3. InService = <<p>> /\ InService' = <<>>
    BY <2>2 DEF InService
  <2>4. ServerLine' = ServerLine \o more
    <3>1. answered' = Append(answered, p) /\ _requestQueue' = _requestQueue \o more
      BY <2>1 DEF Answer
    <3>2. answered \in Seq(Payloads) /\ _requestQueue \in Seq(Payloads)
      BY DEF TypeOK
    <3>3. Append(answered, p) \o <<>> \o (_requestQueue \o more)
            = (answered \o <<p>> \o _requestQueue) \o more
      <4>1. p \in Payloads /\ more \in Seq(Payloads)
        BY <2>1, <2>2
      <4>2. QED
        BY <3>2, <4>1
    <3>4. QED
      BY <2>3, <3>1, <3>3 DEF ServerLine
  <2>5. Server!LineGrows
    BY <2>4, Grows
  <2>6. Len(answered') = Len(answered) + 1
    BY <2>1, <2>2 DEF Answer, TypeOK
  <2>7. QED
    BY <2>2, <2>5, <2>6 DEF Server!Answer
<1>6. ASSUME NEW c \in Calls, BatchFails(c) PROVE UNCHANGED Server!vars
  BY <1>6 DEF BatchFails, LoseAnswer, Server!vars
<1>7. ASSUME UNCHANGED vars PROVE UNCHANGED Server!vars
  BY <1>7 DEF vars, Server!vars
<1>8. QED
  BY <1>1, <1>2, <1>3, <1>4, <1>5, <1>6, <1>7 DEF Next, Server!Next

(* Provider.send serves payloads in the order they were sent, one at a     *)
(* time, whatever fails and throws: it implements FifoServer               *)
(* (_queueRequest, _processRequestQueue).                                  *)
THEOREM InOrder == Spec => ServedInOrder
<1>1. Init => Server!Init
  BY DEF Init, Server!Init
<1>2. Inv /\ [Next]_vars => [Server!Next]_(Server!vars)
  BY ServerStep
<1>3. QED
  BY <1>1, <1>2, InvHolds, PTL DEF Spec, ServedInOrder, Server!Spec
-----------------------------------------------------------------------------
(* The interval timer, a client of the provider, over a line of any length. *)

(* The variables of the interval miner have their types, however long the  *)
(* line of requests grows (mineOnInterval, startMining, stopMining).       *)
THEOREM MinerTypeCorrect == IMSpec => []IMTypeOK
<1>1. IMInit => IMTypeOK
  BY BlockTimeAssumption DEF IMInit, IMTypeOK, ClientRequests, Tick
<1>2. IMTypeOK /\ [IMNext]_IMvars => IMTypeOK'
  <2> SUFFICES ASSUME IMTypeOK, [IMNext]_IMvars PROVE IMTypeOK'
    OBVIOUS
  <2> USE DEF IMTypeOK
  <2>1. ASSUME NEW req \in ClientRequests, ClientSends(req) PROVE IMTypeOK'
    BY <2>1 DEF ClientSends
  <2>2. CASE TimeoutFires
    <3>1. line' = Append(line, Tick) /\ timeout' = NotSet
            /\ UNCHANGED <<is_mining, serving>>
      BY <2>2 DEF TimeoutFires
    <3>2. line' \in Seq(ClientRequests \cup {Tick})
      BY <3>1
    <3>3. QED
      BY <3>1, <3>2
  <2>3. CASE Serve
    BY <2>3 DEF Serve
  <2>4. CASE Handle
    <3>1. timeout' \in {blockTime, NotSet, timeout}
      BY <2>4 DEF Handle, ServeTick, startMining, stopMining, ServeOther,
                  mineOnInterval
    <3>2. timeout' \in 0..blockTime \cup {NotSet}
      <4>1. blockTime \in 0..blockTime
        BY BlockTimeAssumption
      <4>2. QED
        BY <3>1, <4>1
    <3>3. is_mining' \in BOOLEAN /\ serving' = "nothing" /\ line' = line
      BY <2>4 DEF Handle, ServeTick, startMining, stopMining, ServeOther, Answered
    <3>4. QED
      BY <3>2, <3>3
  <2>5. CASE UNCHANGED IMvars
    BY <2>5 DEF IMvars
  <2>6. CASE TimePasses
    BY <2>6, BlockTimeAssumption DEF TimePasses, NotSet
  <2>7. QED
    BY <2>1, <2>2, <2>3, <2>4, <2>5, <2>6 DEF IMNext
<1>3. QED
  BY <1>1, <1>2, PTL DEF IMSpec

\* A request put at the end of the line leaves what is in it in it.
LEMMA AppendKeepsTick ==
  ASSUME IMTypeOK, NEW req \in ClientRequests \cup {Tick},
         \E i \in DOMAIN line : line[i] = Tick
  PROVE  \E i \in DOMAIN Append(line, req) : Append(line, req)[i] = Tick
<1>1. PICK i \in DOMAIN line : line[i] = Tick
  OBVIOUS
<1>2. i \in DOMAIN Append(line, req) /\ Append(line, req)[i] = line[i]
  BY DEF IMTypeOK
<1>3. QED
  BY <1>1, <1>2

\* Serving the first request takes that one off the line and no other.
LEMMA ServeKeepsTick ==
  ASSUME IMTypeOK, Serve, TickOutstanding
  PROVE  TickOutstanding'
<1>1. serving = "nothing" /\ line # <<>> /\ serving' = Head(line)
        /\ line' = Tail(line)
  BY DEF Serve
<1>2. PICK i \in DOMAIN line : line[i] = Tick
  BY <1>1 DEF TickOutstanding, Tick
<1>3. CASE i = 1
  BY <1>1, <1>2, <1>3 DEF TickOutstanding, IMTypeOK
<1>4. CASE i # 1
  <2>1. i - 1 \in DOMAIN Tail(line) /\ Tail(line)[i - 1] = line[i]
    BY <1>1, <1>4 DEF IMTypeOK
  <2>2. QED
    BY <1>1, <1>2, <2>1 DEF TickOutstanding
<1>5. QED
  BY <1>3, <1>4

(* While mining is on, the timeout is armed or an evm_mine that will arm   *)
(* it is in the line or being served, however many requests are in the     *)
(* line and however miner_start and miner_stop cross (mineOnInterval).     *)
THEOREM Alive == IMSpec => []IntervalAlive
<1>1. IMInit => IntervalAlive
  BY BlockTimeAssumption DEF IMInit, IntervalAlive, NotSet
<1>2. IMTypeOK /\ IntervalAlive /\ [IMNext]_IMvars
        => IntervalAlive'
  <2> SUFFICES ASSUME IMTypeOK, IntervalAlive, [IMNext]_IMvars
               PROVE  IntervalAlive'
    OBVIOUS
  <2>1. ASSUME NEW req \in ClientRequests, ClientSends(req) PROVE IntervalAlive'
    BY <2>1, AppendKeepsTick DEF ClientSends, IntervalAlive, TickOutstanding
  <2>2. CASE TimeoutFires
    <3>1. line' = Append(line, Tick)
      BY <2>2 DEF TimeoutFires
    <3>2. Len(line) + 1 \in DOMAIN line' /\ line'[Len(line) + 1] = Tick
      BY <3>1 DEF IMTypeOK
    <3>3. QED
      BY <3>2 DEF IntervalAlive, TickOutstanding
  <2>3. CASE Serve
    BY <2>3, ServeKeepsTick DEF Serve, IntervalAlive
  <2>4. CASE ServeTick \/ startMining
    <3>1. timeout' = blockTime
      BY <2>4 DEF ServeTick, startMining, mineOnInterval
    <3>2. QED
      BY <3>1, BlockTimeAssumption DEF IntervalAlive, NotSet
  <2>5. CASE stopMining
    BY <2>5 DEF stopMining, IntervalAlive
  <2>6. CASE ServeOther
    BY <2>6 DEF ServeOther, Answered, IntervalAlive, TickOutstanding, Tick
  <2>7. CASE UNCHANGED IMvars
    BY <2>7 DEF IMvars, IntervalAlive, TickOutstanding
  <2>8. CASE TimePasses
    BY <2>8 DEF TimePasses, IntervalAlive, TickOutstanding, IMTypeOK, NotSet
  <2>9. QED
    BY <2>1, <2>2, <2>3, <2>4, <2>5, <2>6, <2>7, <2>8 DEF IMNext, Handle
<1>3. QED
  BY <1>1, <1>2, MinerTypeCorrect, PTL DEF IMSpec

\* A line without a tick has none when it loses its first request.
LEMMA ServeBringsNoTick ==
  ASSUME IMTypeOK, Serve, ~TickOutstanding
  PROVE  ~TickOutstanding'
<1>1. line # <<>> /\ serving' = Head(line) /\ line' = Tail(line)
  BY DEF Serve
<1>2. \A i \in DOMAIN line : line[i] # Tick
  BY DEF TickOutstanding
<1>3. serving' # Tick
  BY <1>1, <1>2 DEF IMTypeOK
<1>4. ASSUME NEW i \in DOMAIN line' PROVE line'[i] # Tick
  <2>1. i + 1 \in DOMAIN line /\ line'[i] = line[i + 1]
    BY <1>1, <1>4 DEF IMTypeOK
  <2>2. QED
    BY <1>2, <2>1
<1>5. QED
  BY <1>3, <1>4 DEF TickOutstanding

\* A client's request is no tick.
LEMMA SendBringsNoTick ==
  ASSUME IMTypeOK, NEW req \in ClientRequests, ClientSends(req),
         ~TickOutstanding
  PROVE  ~TickOutstanding'
<1>1. line' = Append(line, req) /\ serving' = serving
  BY DEF ClientSends
<1>2. req # Tick
  BY DEF ClientRequests, Tick
<1>3. ASSUME NEW i \in DOMAIN line' PROVE line'[i] # Tick
  <2>1. i \in 1..(Len(line) + 1)
    BY <1>1, <1>3 DEF IMTypeOK
  <2>2. CASE i = Len(line) + 1
    BY <1>1, <1>2, <2>2 DEF IMTypeOK
  <2>3. CASE i \in DOMAIN line
    BY <1>1, <2>3 DEF IMTypeOK, TickOutstanding
  <2>4. QED
    BY <2>1, <2>2, <2>3 DEF IMTypeOK
<1>4. QED
  BY <1>1, <1>3 DEF TickOutstanding

(* miner_stop ends interval mining for good, until miner_start, unless the *)
(* evm_mine of the timeout is in the line at that moment, however long the *)
(* line is (stopMining, mineOnInterval).                                   *)
THEOREM StopsForGood == IMSpec => StopIsFinalUnlessTickWaits
<1>1. IMTypeOK /\ [IMNext]_IMvars
        => [StopEnds /\ StaysEnded]_IMvars
  <2> SUFFICES ASSUME IMTypeOK, IMNext PROVE StopEnds /\ StaysEnded
    OBVIOUS
  <2>1. StopEnds
    <3> SUFFICES ASSUME serving = "miner_stop", serving' = "nothing", ~TickOutstanding
                 PROVE Still'
      BY DEF StopEnds
    <3>1. stopMining
      BY DEF IMNext, ClientSends, TimePasses, TimeoutFires, Serve, Handle,
             ServeTick, startMining, ServeOther, Tick
    <3>2. QED
      BY <3>1 DEF stopMining, Answered, Still, TickOutstanding, Tick
  <2>2. StaysEnded
    <3> SUFFICES ASSUME ~is_mining, Still PROVE is_mining' \/ Still'
      BY DEF StaysEnded
    <3>1. ASSUME NEW req \in ClientRequests, ClientSends(req) PROVE Still'
      BY <3>1, SendBringsNoTick DEF ClientSends, Still
    <3>2. CASE Serve
      BY <3>2, ServeBringsNoTick DEF Serve, Still
    <3>3. ~TimePasses /\ ~TimeoutFires /\ ~ServeTick
      BY DEF Still, NotSet, TimePasses, TimeoutFires, ServeTick, TickOutstanding
    <3>4. CASE startMining
      BY <3>4 DEF startMining
    <3>5. CASE stopMining \/ ServeOther
      BY <3>5 DEF stopMining, ServeOther, Answered, Still, TickOutstanding, Tick
    <3>6. QED
      BY <3>1, <3>2, <3>3, <3>4, <3>5 DEF IMNext, Handle
  <2>3. QED
    BY <2>1, <2>2
<1>2. QED
  BY <1>1, MinerTypeCorrect, PTL DEF IMSpec, StopIsFinalUnlessTickWaits
=============================================================================
