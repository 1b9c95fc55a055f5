---------------------------- MODULE Subscriptions ----------------------------
(***************************************************************************)
(* Subscriptions over web sockets: ConnectionManager                       *)
(* (lib/webSocketServer.js) keeps which connection a notification goes to  *)
(* in two tables, which change in the callbacks of requests that wait in   *)
(* the line of the provider (taken as the FifoServer it implements), while *)
(* connections close and blocks are notified.  The subscriptions           *)
(* themselves are kept by web3-provider-engine.                            *)
(*                                                                         *)
(* A definition just before another with the same parameters, and not used *)
(* by any other, is a fault the code might have: PROJECT.json pairs them,  *)
(* and README.md says which property each must break.                      *)
(***************************************************************************)
EXTENDS Integers, SequencesExt

CONSTANTS
  Sockets,          \* connections, each of which opens once
  Nothing,          \* no request, no handler
  Elsewhere,        \* who asks over HTTP, in the process, or in a batch
  MaxRequests,      \* bound: requests of clients ever sent
  MaxSubscriptions  \* bound: subscriptions ever made

ASSUME ElsewhereAssumption == Elsewhere \notin Sockets
ASSUME BoundsAssumption == MaxRequests \in Nat /\ MaxSubscriptions \in Nat

VARIABLES
  phase,            \* of each socket: new, open, closed
  connectionCounter,
  id,               \* connection.id
  connections,      \* by id: [connection, subscriptions]
  connectionsBySubscriptionId,  \* the connection of that entry, by subscription
  line,             \* requests queued in the provider
  serving,          \* the one being served: its result, or nothing
  live,             \* the subscriptions the engine has
  made,             \* how many it ever made
  pending,          \* by subscription, the notifications not emitted yet
  asked,            \* how many requests clients have sent
  stopped,          \* the callback that threw: [by, via, sub], or nothing
  owner,            \* history: who asked for the subscription
  delivered         \* history: pairs of a subscription and a socket it was sent to

tables == <<connectionCounter, id, connections, connectionsBySubscriptionId>>
provider == <<line, serving>>
engine == <<live, made, pending>>
vars == <<phase, tables, provider, engine, asked, stopped, owner, delivered>>

Subscribed == 1..MaxSubscriptions

Methods == {"eth_subscribe", "eth_unsubscribe", "unsubscribe_closed", "evm_mine"}
Requests == [method : Methods, via : Sockets \cup {Elsewhere}, sub : 0..MaxSubscriptions]
Answers == [req : Requests, ok : BOOLEAN, result : 0..MaxSubscriptions]
Stops == [by : {"message", "eth_subscribe", "eth_unsubscribe", "notification"},
          via : Sockets \cup {Elsewhere}, sub : 0..MaxSubscriptions]

ASSUME NothingAssumption == Nothing \notin Answers /\ Nothing \notin Stops

Request(method, via, sub) == [method |-> method, via |-> via, sub |-> sub]
Throws(by, via, sub) == stopped' = [by |-> by, via |-> via, sub |-> sub]
-----------------------------------------------------------------------------
Init ==
  /\ phase = [s \in Sockets |-> "new"]
  /\ connectionCounter = 0 /\ id = [s \in Sockets |-> 0]
  /\ connections = <<>> /\ connectionsBySubscriptionId = <<>>
  /\ line = <<>> /\ serving = Nothing
  /\ live = {} /\ made = 0 /\ pending = [n \in Subscribed |-> 0]
  /\ asked = 0 /\ stopped = Nothing
  /\ owner = <<>> /\ delivered = {}

With(f, a, value) == [b \in DOMAIN f \cup {a} |-> IF b = a THEN value ELSE f[b]]
Without(f, a) == [b \in DOMAIN f \ {a} |-> f[b]]

FirstFree == CHOOSE n \in 1..(connectionCounter + 1) : n \notin DOMAIN connections
NextId == connectionCounter + 1

manageConnection(s) ==
  /\ phase[s] = "new"
  /\ phase' = [phase EXCEPT ![s] = "open"]
  /\ connectionCounter' = connectionCounter + 1
  /\ id' = [id EXCEPT ![s] = NextId]
  /\ connections' = With(connections, NextId, [connection |-> s, subscriptions |-> {}])
  /\ UNCHANGED <<connectionsBySubscriptionId, provider, engine, asked, stopped, owner, delivered>>

\* A message that is not JSON is rejected, and handled without its payload.
GarbledMessage(s) ==
  /\ phase[s] = "open" /\ asked < MaxRequests
  /\ Throws("message", s, 0)
  /\ asked' = asked + 1
  /\ UNCHANGED <<phase, tables, provider, engine, owner, delivered>>

\* evm_mine stands for all that makes a block, and sub matters to eth_unsubscribe only.
Send(via) ==
  /\ via \in Sockets => phase[via] = "open"
  /\ asked < MaxRequests
  /\ asked' = asked + 1
  /\ \/ \E method \in {"eth_subscribe", "evm_mine"} :
          line' = Append(line, Request(method, via, 0))
     \/ \E sub \in 1..made : line' = Append(line, Request("eth_unsubscribe", via, sub))
  /\ UNCHANGED <<phase, tables, serving, engine, stopped, owner, delivered>>

SubscriptionsOf(s) == connections[id[s]].subscriptions

UnsubscribeFirst(s) ==
  IF SubscriptionsOf(s) = {} THEN <<>>
    ELSE <<Request("unsubscribe_closed", s, CHOOSE n \in SubscriptionsOf(s) : TRUE)>>
UnsubscribeAll(s) ==
  SetToSeq({Request("unsubscribe_closed", s, n) : n \in SubscriptionsOf(s)})

WithoutTheConnection(s) == Without(connections, id[s])

TableAtOnce(s) ==
  [n \in DOMAIN connectionsBySubscriptionId \ SubscriptionsOf(s) |->
     connectionsBySubscriptionId[n]]
TableAfterClose(s) == connectionsBySubscriptionId

\* The entries by subscription stay until each eth_unsubscribe is answered.
Close(s) ==
  /\ phase[s] = "open"
  /\ phase' = [phase EXCEPT ![s] = "closed"]
  /\ line' = line \o UnsubscribeAll(s)
  /\ connections' = WithoutTheConnection(s)
  /\ connectionsBySubscriptionId' = TableAfterClose(s)
  /\ UNCHANGED <<connectionCounter, id, serving, engine, asked, stopped, owner, delivered>>
-----------------------------------------------------------------------------
(* The engine, and the line.                                                *)

Subscribe(req) ==
  /\ made < MaxSubscriptions
  /\ made' = made + 1 /\ live' = live \cup {made + 1}
  /\ owner' = With(owner, made + 1, req.via)
  /\ serving' = [req |-> req, ok |-> TRUE, result |-> made + 1]
  /\ UNCHANGED pending

Unsubscribe(req) ==
  /\ live' = live \ {req.sub}
  /\ pending' = [pending EXCEPT ![req.sub] = 0]
  /\ serving' = [req |-> req, ok |-> req.sub \in live, result |-> req.sub]
  /\ UNCHANGED <<made, owner>>

Mine(req) ==
  /\ pending' = [n \in Subscribed |-> IF n \in live THEN pending[n] + 1 ELSE 0]
  /\ serving' = [req |-> req, ok |-> TRUE, result |-> 0]
  /\ UNCHANGED <<live, made, owner>>

\* A subscription of a kind there is not fails; so may any request.
Fail(req) ==
  /\ req.method \in {"eth_subscribe", "evm_mine"}
  /\ serving' = [req |-> req, ok |-> FALSE, result |-> 0]
  /\ UNCHANGED <<engine, owner>>

Serve ==
  /\ line # <<>> /\ serving = Nothing
  /\ LET req == Head(line)
     IN  \/ req.method = "eth_subscribe" /\ Subscribe(req)
         \/ req.method \in {"eth_unsubscribe", "unsubscribe_closed"} /\ Unsubscribe(req)
         \/ req.method = "evm_mine" /\ Mine(req)
         \/ Fail(req)
  /\ line' = Tail(line)
  /\ UNCHANGED <<phase, tables, asked, stopped, delivered>>
-----------------------------------------------------------------------------
(* The callbacks of ConnectionManager.                                      *)

\* The entry of the connection is gone when it closed meanwhile.
AnswerSubscribe ==
  LET s == serving.req.via
  IN  IF id[s] \in DOMAIN connections
        THEN /\ connections' =
                  [connections EXCEPT ![id[s]].subscriptions = @ \cup {serving.result}]
             /\ connectionsBySubscriptionId' =
                  With(connectionsBySubscriptionId, serving.result, connections[id[s]].connection)
             /\ UNCHANGED stopped
        ELSE /\ Throws("eth_subscribe", s, serving.result)
             /\ UNCHANGED <<connections, connectionsBySubscriptionId>>

\* It takes the entry of the table, which has no id, for the connection.
AnswerUnsubscribe ==
  /\ Throws("eth_unsubscribe", serving.req.via, serving.req.sub)
  /\ UNCHANGED <<connections, connectionsBySubscriptionId>>

EntryStays ==
  UNCHANGED <<connectionsBySubscriptionId, connections, stopped>>
AnswerClosed ==
  /\ connectionsBySubscriptionId' = Without(connectionsBySubscriptionId, serving.req.sub)
  /\ UNCHANGED <<connections, stopped>>

OnlySends ==
  \/ serving.req.method = "evm_mine"
  \/ serving.req.via = Elsewhere
  \/ ~serving.ok /\ serving.req.method # "unsubscribe_closed"

Answer ==
  /\ serving # Nothing
  /\ \/ OnlySends /\ UNCHANGED <<connections, connectionsBySubscriptionId, stopped>>
     \/ /\ ~OnlySends
        /\ \/ serving.req.method = "eth_subscribe" /\ AnswerSubscribe
           \/ serving.req.method = "eth_unsubscribe" /\ AnswerUnsubscribe
           \/ serving.req.method = "unsubscribe_closed" /\ AnswerClosed
  /\ serving' = Nothing
  /\ UNCHANGED <<phase, connectionCounter, id, line, engine, asked, owner, delivered>>

\* A subscription made elsewhere has no entry in the table.
updateSubscriptions(sub) ==
  /\ pending[sub] > 0
  /\ pending' = [pending EXCEPT ![sub] = @ - 1]
  /\ IF sub \in DOMAIN connectionsBySubscriptionId
       THEN /\ delivered' = delivered \cup {<<sub, connectionsBySubscriptionId[sub]>>}
            /\ UNCHANGED stopped
       ELSE Throws("notification", Elsewhere, sub) /\ UNCHANGED delivered
  /\ UNCHANGED <<phase, tables, provider, live, made, asked, owner>>
-----------------------------------------------------------------------------
\* What throws is caught nowhere in src/: the process ends, or the lock of the provider
\* stays taken, and nothing is served any more.
Next ==
  /\ stopped = Nothing
  /\ \/ \E s \in Sockets : manageConnection(s) \/ GarbledMessage(s) \/ Close(s)
     \/ \E via \in Sockets \cup {Elsewhere} : Send(via)
     \/ Serve
     \/ Answer
     \/ \E sub \in Subscribed : updateSubscriptions(sub)

Spec == Init /\ [][Next]_vars

\* Every request in the line is served and answered (FifoServer).
FairSpec == Spec /\ WF_vars(stopped = Nothing /\ Serve) /\ WF_vars(stopped = Nothing /\ Answer)
-----------------------------------------------------------------------------
\* The variables have their types.
TypeOK ==
  /\ phase \in [Sockets -> {"new", "open", "closed"}]
  /\ id \in [Sockets -> 0..connectionCounter]
  /\ DOMAIN connections = {id[s] : s \in {t \in Sockets : phase[t] = "open"}}
  /\ \A n \in DOMAIN connections :
       connections[n] \in [connection : Sockets, subscriptions : SUBSET (1..made)]
  /\ DOMAIN connectionsBySubscriptionId \subseteq 1..made
  /\ \A n \in DOMAIN connectionsBySubscriptionId : connectionsBySubscriptionId[n] \in Sockets
  /\ line \in Seq(Requests)
  /\ serving = Nothing \/ serving \in Answers
  /\ made \in 0..MaxSubscriptions /\ live \subseteq 1..made
  /\ pending \in [Subscribed -> Nat] /\ asked \in 0..MaxRequests
  /\ \A n \in Subscribed : pending[n] > 0 => n \in live
  /\ stopped = Nothing \/ stopped \in Stops

(* A notification is sent only to the connection that asked for the         *)
(* subscription, however late the answer to its eth_subscribe comes         *)
(* (manageConnection, _handleRequest, _updateSubscriptions).                *)
NotifiedIsOwner == \A pair \in delivered : owner[pair[1]] = pair[2]

BeingRemoved(sub) ==
  \/ \E i \in DOMAIN line : line[i].method = "unsubscribe_closed" /\ line[i].sub = sub
  \/ /\ serving # Nothing
     /\ serving.req.method = "unsubscribe_closed" /\ serving.req.sub = sub

(* The two tables tell the same: an open connection has the subscriptions   *)
(* the other table gives it, and what that table still has for a closed one *)
(* is about to be removed (the close handler, the answers).                 *)
TablesAgree ==
  /\ \A s \in Sockets : phase[s] = "open" =>
       SubscriptionsOf(s) =
         {n \in DOMAIN connectionsBySubscriptionId : connectionsBySubscriptionId[n] = s}
  /\ \A n \in DOMAIN connectionsBySubscriptionId :
       phase[connectionsBySubscriptionId[n]] = "closed" => BeingRemoved(n)

(* Callbacks throw for three reasons only, apart from messages that are not *)
(* JSON: the answer to an eth_subscribe finds its connection closed; an     *)
(* eth_unsubscribe of a client succeeds; a notification is of a             *)
(* subscription not made over a web socket, for those of web sockets have   *)
(* their entry from before the first notification until after the last one, *)
(* through a close too (_handleRequest, _updateSubscriptions).              *)
StopsOnlyForACause ==
  stopped # Nothing =>
    CASE stopped.by = "message"         -> phase[stopped.via] = "open"
      [] stopped.by = "eth_subscribe"   -> phase[stopped.via] = "closed"
      [] stopped.by = "eth_unsubscribe" -> stopped.sub \in DOMAIN owner \ live
      [] stopped.by = "notification"    -> owner[stopped.sub] = Elsewhere

(* The subscriptions of a connection that closes are removed from the       *)
(* engine, unless the process ends before that (the close handler).         *)
ClosedIsUnsubscribed ==
  \A s \in Sockets, n \in Subscribed :
    (phase[s] = "closed" /\ n \in live /\ owner[n] = s)
      ~> (n \notin live \/ stopped # Nothing)
=============================================================================
