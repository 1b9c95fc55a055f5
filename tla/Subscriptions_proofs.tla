------------------------- MODULE Subscriptions_proofs -------------------------
(***************************************************************************)
(* Proofs about Subscriptions, for any set of connections and any number   *)
(* of requests and subscriptions.                                          *)
(***************************************************************************)
EXTENDS Subscriptions, FiniteSetTheorems, TLAPS

-----------------------------------------------------------------------------
(* The invariant.                                                           *)

\* The types of the counters.
CountersOK ==
  connectionCounter \in Nat /\ DOMAIN owner = 1..made

\* A connection has an id of its own from the moment it is opened, and its
\* entry, as long as it is open, is its own.
IdsAreOwn ==
  /\ \A s \in Sockets : phase[s] # "new" => id[s] \in 1..connectionCounter
  /\ \A s, t \in Sockets :
       phase[s] # "new" /\ phase[t] # "new" /\ id[s] = id[t] => s = t
  /\ \A s \in Sockets : phase[s] = "open" => connections[id[s]].connection = s

\* A subscription is asked for by a connection that was opened, or elsewhere, and
\* the table by subscription has the connection that asked.
Opened(via) == via \in Sockets => phase[via] # "new"

OwnersOpened ==
  /\ \A n \in DOMAIN owner : owner[n] \in Sockets \cup {Elsewhere} /\ Opened(owner[n])
  /\ \A n \in DOMAIN connectionsBySubscriptionId : connectionsBySubscriptionId[n] = owner[n]

\* What the line and the answer under way can hold.
Sound(req) ==
  /\ Opened(req.via)
  /\ req.method \in {"eth_unsubscribe", "unsubscribe_closed"} => req.sub \in 1..made
  /\ req.method = "unsubscribe_closed" =>
       /\ req.via \in Sockets /\ phase[req.via] = "closed"
       /\ owner[req.sub] = req.via

LineSound == \A i \in DOMAIN line : Sound(line[i])

Subscribing(n) ==
  /\ serving # Nothing
  /\ serving.req.method = "eth_subscribe" /\ serving.ok /\ serving.result = n

ServingSound ==
  serving # Nothing =>
    /\ Sound(serving.req)
    /\ serving.req.method \in {"eth_unsubscribe", "unsubscribe_closed"}
         => serving.req.sub \notin live
    /\ serving.req.method = "eth_subscribe" /\ serving.ok =>
         /\ serving.result = made /\ made # 0
         /\ made \notin DOMAIN connectionsBySubscriptionId
         /\ owner[made] = serving.req.via
         /\ pending[made] = 0

\* A subscription of a connection has its entry, but while the answer is under way.
LiveHaveEntries ==
  stopped = Nothing =>
    \A n \in live : owner[n] \in Sockets =>
      n \in DOMAIN connectionsBySubscriptionId \/ Subscribing(n)

DeliveredToOwner ==
  \A pair \in delivered : pair[1] \in 1..made /\ owner[pair[1]] = pair[2]

Inv ==
  /\ TypeOK /\ CountersOK /\ IdsAreOwn /\ OwnersOpened
  /\ LineSound /\ ServingSound /\ LiveHaveEntries
  /\ DeliveredToOwner /\ TablesAgree /\ StopsOnlyForACause
-----------------------------------------------------------------------------
(* Lists and tables.                                                        *)

\* The list of a finite set has its elements and no others.
LEMMA SetToSeqLists ==
  ASSUME NEW S, IsFiniteSet(S)
  PROVE  /\ SetToSeq(S) \in Seq(S)
         /\ \A x \in S : \E i \in DOMAIN SetToSeq(S) : SetToSeq(S)[i] = x
<1> DEFINE n == Cardinality(S)
<1>1. n \in Nat /\ ExistsBijection(1..n, S)
  BY FS_CardinalityType
<1>2. IsFiniteSet(1..n) /\ Cardinality(1..n) = n
  BY <1>1, FS_Interval
<1>3. \E f \in [1..n -> S] : IsInjective(f)
  BY <1>1 DEF ExistsBijection, Bijection, Injection
<1>4. SetToSeq(S) \in [1..n -> S] /\ IsInjective(SetToSeq(S))
  BY <1>3 DEF SetToSeq
<1>5. SetToSeq(S) \in Injection(1..n, S)
  BY <1>4 DEF Injection
<1>6. SetToSeq(S) \in Surjection(1..n, S)
  BY <1>2, <1>5, FS_Injection
<1> HIDE DEF n
<1>7. SetToSeq(S) \in Seq(S)
  BY <1>1, <1>4
<1>8. QED
  BY <1>4, <1>6, <1>7 DEF Surjection

\* The requests of a connection that closes are those for its subscriptions.
LEMMA UnsubscribeAllLists ==
  ASSUME NEW s \in Sockets, SubscriptionsOf(s) \subseteq 1..made, made \in Nat
  PROVE  LET all == {Request("unsubscribe_closed", s, n) : n \in SubscriptionsOf(s)}
         IN  /\ UnsubscribeAll(s) \in Seq(all)
             /\ \A r \in all : \E i \in DOMAIN UnsubscribeAll(s) : UnsubscribeAll(s)[i] = r
<1> DEFINE all == {Request("unsubscribe_closed", s, n) : n \in SubscriptionsOf(s)}
<1>1. IsFiniteSet(SubscriptionsOf(s))
  <2>1. IsFiniteSet(1..made)
    BY FS_Interval
  <2>2. QED
    BY <2>1, FS_Subset
<1>2. IsFiniteSet(all)
  <2> DEFINE f == [n \in SubscriptionsOf(s) |-> Request("unsubscribe_closed", s, n)]
  <2>1. f \in Surjection(SubscriptionsOf(s), all)
    BY DEF Surjection
  <2>2. QED
    BY <1>1, <2>1, FS_Surjection
<1>3. UnsubscribeAll(s) = SetToSeq(all)
  BY DEF UnsubscribeAll
<1> HIDE DEF all
<1>4. /\ UnsubscribeAll(s) \in Seq(all)
      /\ \A r \in all : \E i \in DOMAIN UnsubscribeAll(s) : UnsubscribeAll(s)[i] = r
  BY <1>2, <1>3, SetToSeqLists
<1>5. QED
  BY <1>4 DEF all
-----------------------------------------------------------------------------
(* At first.                                                                *)

LEMMA InitInv == Init => Inv
<1> SUFFICES ASSUME Init PROVE Inv
  OBVIOUS
<1> USE DEF Init
<1>1. TypeOK
  BY BoundsAssumption DEF TypeOK, Subscribed
<1>2. CountersOK /\ IdsAreOwn /\ OwnersOpened /\ LineSound
  BY DEF CountersOK, IdsAreOwn, OwnersOpened, LineSound
<1>3. ServingSound /\ LiveHaveEntries /\ DeliveredToOwner /\ TablesAgree /\ StopsOnlyForACause
  BY DEF ServingSound, LiveHaveEntries, DeliveredToOwner, TablesAgree, StopsOnlyForACause
<1>4. QED
  BY <1>1, <1>2, <1>3 DEF Inv
-----------------------------------------------------------------------------
(* Connections.                                                             *)

LEMMA ManageKeeps ==
  ASSUME Inv, stopped = Nothing, NEW s \in Sockets, manageConnection(s)
  PROVE  Inv'
<1> USE DEF Inv
<1>1. /\ phase \in [Sockets -> {"new", "open", "closed"}] /\ phase[s] = "new"
      /\ id \in [Sockets -> 0..connectionCounter] /\ connectionCounter \in Nat
      /\ UNCHANGED <<connectionsBySubscriptionId, provider, engine, asked, stopped, owner,
                     delivered>>
  BY DEF manageConnection, TypeOK, CountersOK
<1>2. /\ connectionCounter' = connectionCounter + 1
      /\ \A t \in Sockets : /\ phase'[t] = IF t = s THEN "open" ELSE phase[t]
                            /\ id'[t] = IF t = s THEN connectionCounter + 1 ELSE id[t]
      /\ phase' \in [Sockets -> {"new", "open", "closed"}]
      /\ id' \in [Sockets -> 0..connectionCounter']
  BY <1>1 DEF manageConnection, NextId
<1>3. connectionCounter + 1 \notin DOMAIN connections
  BY <1>1 DEF TypeOK
<1>4. /\ DOMAIN connections' = DOMAIN connections \cup {connectionCounter + 1}
      /\ connections'[connectionCounter + 1] = [connection |-> s, subscriptions |-> {}]
      /\ \A n \in DOMAIN connections : connections'[n] = connections[n]
  BY <1>3 DEF manageConnection, NextId, With
<1>5. TypeOK'
  <2>1. DOMAIN connections' = {id'[t] : t \in {u \in Sockets : phase'[u] = "open"}}
    <3>1. DOMAIN connections = {id[t] : t \in {u \in Sockets : phase[u] = "open"}}
      BY DEF TypeOK
    <3>2. QED
      BY <1>1, <1>2, <1>4, <3>1
  <2>2. \A n \in DOMAIN connections' :
          connections'[n] \in [connection : Sockets, subscriptions : SUBSET (1..made)]
    <3>1. \A n \in DOMAIN connections :
            connections[n] \in [connection : Sockets, subscriptions : SUBSET (1..made)]
      BY DEF TypeOK
    <3>2. [connection |-> s, subscriptions |-> {}]
             \in [connection : Sockets, subscriptions : SUBSET (1..made)]
      OBVIOUS
    <3>3. QED
      BY <1>4, <3>1, <3>2
  <2>3. QED
    BY <1>1, <1>2, <2>1, <2>2 DEF TypeOK, provider, engine
<1>6. CountersOK'
  BY <1>1, <1>2 DEF CountersOK, engine
<1>7. IdsAreOwn'
  <2>1. \A t \in Sockets : phase[t] = "open" => id[t] \in DOMAIN connections
    BY DEF TypeOK
  <2>2. QED
    BY <1>1, <1>2, <1>4, <2>1 DEF IdsAreOwn
<1>8. \A via : Opened(via) => Opened(via)'
  BY <1>2 DEF Opened
<1>9. OwnersOpened'
  BY <1>1, <1>8 DEF OwnersOpened
<1>10. \A req : Sound(req) => Sound(req)'
  BY <1>1, <1>2, <1>8 DEF Sound, engine
<1>11. LineSound' /\ ServingSound'
  BY <1>1, <1>10 DEF LineSound, ServingSound, provider, engine
<1>12. LiveHaveEntries' /\ DeliveredToOwner'
  BY <1>1 DEF LiveHaveEntries, DeliveredToOwner, Subscribing, provider, engine
<1>13. TablesAgree'
  <2>1. \A n : BeingRemoved(n)' <=> BeingRemoved(n)
    BY <1>1 DEF BeingRemoved, provider
  <2>2. \A n \in DOMAIN connectionsBySubscriptionId : connectionsBySubscriptionId[n] # s
    BY <1>1 DEF OwnersOpened, Opened, TypeOK, CountersOK
  <2>3. ASSUME NEW t \in Sockets, phase'[t] = "open"
        PROVE  SubscriptionsOf(t)' = {n \in DOMAIN connectionsBySubscriptionId :
                                        connectionsBySubscriptionId[n] = t}
    <3>1. CASE t = s
      BY <1>1, <1>2, <1>4, <2>2, <3>1 DEF SubscriptionsOf
    <3>2. CASE t # s
      <4>1. phase[t] = "open" /\ id[t] \in DOMAIN connections
        BY <1>2, <2>3, <3>2 DEF TypeOK
      <4>2. SubscriptionsOf(t)' = SubscriptionsOf(t)
        BY <1>2, <1>4, <3>2, <4>1 DEF SubscriptionsOf
      <4>3. QED
        BY <4>1, <4>2 DEF TablesAgree
    <3>3. QED
      BY <3>1, <3>2
  <2>4. \A n \in DOMAIN connectionsBySubscriptionId :
          phase'[connectionsBySubscriptionId[n]] = "closed" => BeingRemoved(n)
    BY <1>2, <2>2 DEF TablesAgree, TypeOK
  <2>5. QED
    BY <1>1, <2>1, <2>3, <2>4 DEF TablesAgree
<1>14. StopsOnlyForACause'
  BY <1>1 DEF StopsOnlyForACause
<1>15. QED
  BY <1>5, <1>6, <1>7, <1>9, <1>11, <1>12, <1>13, <1>14

LEMMA CloseKeeps ==
  ASSUME Inv, stopped = Nothing, NEW s \in Sockets, Close(s)
  PROVE  Inv'
<1> USE DEF Inv
<1>1. /\ phase \in [Sockets -> {"new", "open", "closed"}] /\ phase[s] = "open"
      /\ id \in [Sockets -> 0..connectionCounter] /\ id[s] \in DOMAIN connections
      /\ made \in 0..MaxSubscriptions /\ made \in Nat
      /\ SubscriptionsOf(s) \subseteq 1..made
      /\ UNCHANGED <<connectionCounter, id, connectionsBySubscriptionId, serving, engine,
                     asked, stopped, owner, delivered>>
  <2>1. id[s] \in DOMAIN connections
    BY DEF Close, TypeOK
  <2>2. connections[id[s]] \in [connection : Sockets, subscriptions : SUBSET (1..made)]
    BY <2>1 DEF TypeOK
  <2>3. SubscriptionsOf(s) \subseteq 1..made
    BY <2>2 DEF SubscriptionsOf
  <2>4. QED
    BY <2>1, <2>3, BoundsAssumption DEF Close, TableAfterClose, TypeOK
<1>2. /\ \A t \in Sockets : phase'[t] = IF t = s THEN "closed" ELSE phase[t]
      /\ phase' \in [Sockets -> {"new", "open", "closed"}]
  BY <1>1 DEF Close
<1>3. /\ DOMAIN connections' = DOMAIN connections \ {id[s]}
      /\ \A n \in DOMAIN connections' : connections'[n] = connections[n]
  BY DEF Close, WithoutTheConnection, Without
<1> DEFINE all == {Request("unsubscribe_closed", s, n) : n \in SubscriptionsOf(s)}
<1>4. /\ UnsubscribeAll(s) \in Seq(all)
      /\ \A r \in all : \E i \in DOMAIN UnsubscribeAll(s) : UnsubscribeAll(s)[i] = r
  BY <1>1, UnsubscribeAllLists
<1>5. ASSUME NEW r \in all
      PROVE  /\ r \in Requests /\ r.method = "unsubscribe_closed" /\ r.via = s
             /\ r.sub \in SubscriptionsOf(s)
  <2>1. PICK n \in SubscriptionsOf(s) : r = [method |-> "unsubscribe_closed", via |-> s,
                                             sub |-> n]
    BY <1>5 DEF Request
  <2>2. n \in 0..MaxSubscriptions
    BY <1>1, BoundsAssumption
  <2>3. QED
    BY <2>1, <2>2 DEF Requests, Methods
<1>6. \A n \in SubscriptionsOf(s) : \E r \in all : r.sub = n
  <2> TAKE n \in SubscriptionsOf(s)
  <2>1. Request("unsubscribe_closed", s, n) \in all
    OBVIOUS
  <2>2. Request("unsubscribe_closed", s, n).sub = n
    BY DEF Request
  <2>3. QED
    BY <2>1, <2>2
<1> HIDE DEF all
<1> DEFINE more == UnsubscribeAll(s)
<1>7. /\ line \in Seq(Requests) /\ more \in Seq(all) /\ line' = line \o more
  BY <1>4 DEF Close, TypeOK
<1> HIDE DEF more
<1>8. /\ line' \in Seq(Requests)
      /\ \A i \in DOMAIN line : i \in DOMAIN line' /\ line'[i] = line[i]
      /\ \A i \in DOMAIN line' \ DOMAIN line : line'[i] \in all
      /\ \A i \in DOMAIN more : \E k \in DOMAIN line' : line'[k] = more[i]
  <2>1. more \in Seq(Requests)
    BY <1>5, <1>7
  <2>2. /\ Len(line') = Len(line) + Len(more) /\ Len(line) \in Nat /\ Len(more) \in Nat
        /\ \A i \in 1..Len(line) : line'[i] = line[i]
        /\ \A i \in 1..Len(more) : line'[Len(line) + i] = more[i]
        /\ line' \in Seq(Requests)
    BY <1>7, <2>1
  <2>3. DOMAIN line = 1..Len(line) /\ DOMAIN more = 1..Len(more)
        /\ DOMAIN line' = 1..Len(line')
    BY <1>7, <2>2
  <2>4. \A i \in 1..Len(more) : Len(line) + i \in 1..Len(line')
    BY <2>2
  <2>5. ASSUME NEW i \in DOMAIN line' \ DOMAIN line PROVE line'[i] \in all
    <3>1. i - Len(line) \in 1..Len(more) /\ i = Len(line) + (i - Len(line))
      BY <2>2, <2>3
    <3>2. line'[i] = more[i - Len(line)]
      BY <2>2, <3>1
    <3>3. QED
      BY <1>7, <2>3, <3>1, <3>2
  <2>6. QED
    BY <2>2, <2>3, <2>4, <2>5
<1>9. TypeOK'
  <2>1. DOMAIN connections' = {id'[t] : t \in {u \in Sockets : phase'[u] = "open"}}
    <3>1. DOMAIN connections = {id[t] : t \in {u \in Sockets : phase[u] = "open"}}
      BY DEF TypeOK
    <3>2. \A t \in Sockets : phase[t] = "open" /\ t # s => id[t] # id[s]
      BY <1>1 DEF IdsAreOwn
    <3>3. QED
      BY <1>1, <1>2, <1>3, <3>1, <3>2
  <2>2. QED
    BY <1>1, <1>2, <1>3, <1>8, <2>1 DEF TypeOK, engine
<1>10. CountersOK' /\ IdsAreOwn'
  <2>1. ASSUME NEW t \in Sockets, phase'[t] = "open"
        PROVE  connections'[id[t]].connection = t
    <3>1. phase[t] = "open" /\ t # s
      BY <1>2, <2>1
    <3>2. id[t] # id[s] /\ id[t] \in DOMAIN connections
      BY <1>1, <3>1 DEF IdsAreOwn, TypeOK
    <3>3. QED
      BY <1>3, <3>1, <3>2 DEF IdsAreOwn
  <2>2. QED
    BY <1>1, <1>2, <2>1 DEF CountersOK, IdsAreOwn, engine
<1>11. \A via : Opened(via) => Opened(via)'
  BY <1>1, <1>2 DEF Opened
<1>12. OwnersOpened'
  BY <1>1, <1>11 DEF OwnersOpened
<1>13. \A req : Sound(req) => Sound(req)'
  BY <1>1, <1>2, <1>11 DEF Sound, engine
<1>14. \A r \in all : Sound(r)'
  <2> TAKE r \in all
  <2>1. /\ r.method = "unsubscribe_closed" /\ r.via = s /\ r.sub \in SubscriptionsOf(s)
        /\ r.sub \in 1..made
    BY <1>1, <1>5
  <2>2. owner[r.sub] = s
    BY <1>1, <2>1 DEF TablesAgree, OwnersOpened
  <2>3. QED
    BY <1>1, <1>2, <2>1, <2>2 DEF Sound, Opened, engine
<1>15. LineSound' /\ ServingSound'
  <2>1. LineSound'
    BY <1>8, <1>13, <1>14 DEF LineSound
  <2>2. ServingSound'
    BY <1>1, <1>13 DEF ServingSound, engine
  <2>3. QED
    BY <2>1, <2>2
<1>16. LiveHaveEntries' /\ DeliveredToOwner' /\ StopsOnlyForACause'
  BY <1>1 DEF LiveHaveEntries, DeliveredToOwner, StopsOnlyForACause, Subscribing, engine
<1>17. TablesAgree'
  <2>1. \A n : BeingRemoved(n) => BeingRemoved(n)'
    BY <1>1, <1>8 DEF BeingRemoved
  <2>2. \A n \in SubscriptionsOf(s) : BeingRemoved(n)'
    <3> TAKE n \in SubscriptionsOf(s)
    <3>1. PICK r \in all : r.sub = n
      BY <1>6
    <3>2. PICK i \in DOMAIN more : more[i] = r
      BY <1>4, <3>1 DEF more
    <3>3. PICK k \in DOMAIN line' : line'[k] = r
      BY <1>8, <3>2
    <3>4. QED
      BY <1>5, <3>1, <3>3 DEF BeingRemoved
  <2>3. ASSUME NEW t \in Sockets, phase'[t] = "open"
        PROVE  SubscriptionsOf(t)' = {n \in DOMAIN connectionsBySubscriptionId :
                                        connectionsBySubscriptionId[n] = t}
    <3>1. phase[t] = "open" /\ t # s
      BY <1>2, <2>3
    <3>2. id[t] # id[s] /\ id[t] \in DOMAIN connections
      BY <1>1, <3>1 DEF IdsAreOwn, TypeOK
    <3>3. SubscriptionsOf(t)' = SubscriptionsOf(t)
      BY <1>1, <1>3, <3>2 DEF SubscriptionsOf
    <3>4. QED
      BY <3>1, <3>3 DEF TablesAgree
  <2>4. ASSUME NEW n \in DOMAIN connectionsBySubscriptionId,
               phase'[connectionsBySubscriptionId[n]] = "closed"
        PROVE  BeingRemoved(n)'
    <3>1. CASE connectionsBySubscriptionId[n] = s
      BY <1>1, <2>2, <3>1 DEF TablesAgree
    <3>2. CASE connectionsBySubscriptionId[n] # s
      BY <1>2, <2>1, <2>4, <3>2 DEF TablesAgree, TypeOK
    <3>3. QED
      BY <3>1, <3>2
  <2>5. QED
    BY <1>1, <2>3, <2>4 DEF TablesAgree
<1>18. QED
  BY <1>9, <1>10, <1>12, <1>15, <1>16, <1>17

LEMMA GarbledKeeps ==
  ASSUME Inv, stopped = Nothing, NEW s \in Sockets, GarbledMessage(s)
  PROVE  Inv'
<1> USE DEF Inv
<1>1. /\ UNCHANGED <<phase, connectionCounter, id, connections, connectionsBySubscriptionId,
                     line, serving, live, made, pending, owner, delivered>>
      /\ phase[s] = "open" /\ asked' \in 0..MaxRequests
  BY BoundsAssumption DEF GarbledMessage, TypeOK, tables, provider, engine
<1>2. /\ stopped' = [by |-> "message", via |-> s, sub |-> 0]
      /\ stopped' \in Stops /\ stopped' # Nothing
  BY BoundsAssumption, NothingAssumption DEF GarbledMessage, Throws, Stops
<1>3. TypeOK'
  BY <1>1, <1>2 DEF TypeOK
<1>4. CountersOK' /\ IdsAreOwn' /\ OwnersOpened' /\ LineSound' /\ ServingSound'
  BY <1>1 DEF CountersOK, IdsAreOwn, OwnersOpened, LineSound, ServingSound, Sound, Opened
<1>5. DeliveredToOwner' /\ TablesAgree'
  BY <1>1 DEF DeliveredToOwner, TablesAgree, SubscriptionsOf, BeingRemoved
<1>6. LiveHaveEntries' /\ StopsOnlyForACause'
  BY <1>1, <1>2 DEF LiveHaveEntries, StopsOnlyForACause
<1>7. QED
  BY <1>3, <1>4, <1>5, <1>6
-----------------------------------------------------------------------------
(* The line.                                                                *)

LEMMA SendKeeps ==
  ASSUME Inv, stopped = Nothing, NEW via \in Sockets \cup {Elsewhere}, Send(via)
  PROVE  Inv'
<1> USE DEF Inv
<1>1. /\ UNCHANGED <<phase, connectionCounter, id, connections, connectionsBySubscriptionId,
                     serving, live, made, pending, stopped, owner, delivered>>
      /\ via \in Sockets => phase[via] = "open"
      /\ asked' \in 0..MaxRequests /\ made \in 0..MaxSubscriptions
      /\ line \in Seq(Requests)
  BY BoundsAssumption DEF Send, TypeOK, tables, engine
<1>2. PICK req \in Requests : /\ line' = Append(line, req) /\ req.via = via
                              /\ req.method # "unsubscribe_closed"
                              /\ req.method = "eth_unsubscribe" => req.sub \in 1..made
  <2>1. CASE \E method \in {"eth_subscribe", "evm_mine"} :
               line' = Append(line, Request(method, via, 0))
    <3>1. PICK method \in {"eth_subscribe", "evm_mine"} :
            line' = Append(line, [method |-> method, via |-> via, sub |-> 0])
      BY <2>1 DEF Request
    <3>2. [method |-> method, via |-> via, sub |-> 0] \in Requests
      BY BoundsAssumption DEF Requests, Methods
    <3>3. QED
      BY <3>1, <3>2
  <2>2. CASE \E sub \in 1..made : line' = Append(line, Request("eth_unsubscribe", via, sub))
    <3>1. PICK sub \in 1..made :
            line' = Append(line, [method |-> "eth_unsubscribe", via |-> via, sub |-> sub])
      BY <2>2 DEF Request
    <3>2. [method |-> "eth_unsubscribe", via |-> via, sub |-> sub] \in Requests
      BY <1>1, BoundsAssumption DEF Requests, Methods
    <3>3. QED
      BY <3>1, <3>2
  <2>3. QED
    BY <2>1, <2>2 DEF Send
<1>3. /\ line' \in Seq(Requests)
      /\ DOMAIN line' = DOMAIN line \cup {Len(line) + 1}
      /\ line'[Len(line) + 1] = req
      /\ \A i \in DOMAIN line : line'[i] = line[i]
  <2>1. /\ line' \in Seq(Requests) /\ Len(line') = Len(line) + 1 /\ Len(line) \in Nat
        /\ line'[Len(line) + 1] = req /\ \A i \in 1..Len(line) : line'[i] = line[i]
    BY <1>1, <1>2
  <2>2. DOMAIN line' = 1..(Len(line) + 1) /\ DOMAIN line = 1..Len(line)
    BY <1>1, <2>1
  <2>3. QED
    BY <2>1, <2>2
<1>4. TypeOK'
  BY <1>1, <1>3 DEF TypeOK
<1>5. CountersOK' /\ IdsAreOwn' /\ OwnersOpened'
  BY <1>1 DEF CountersOK, IdsAreOwn, OwnersOpened, Opened
<1>6. LineSound' /\ ServingSound'
  <2>1. \A r : Sound(r) => Sound(r)'
    BY <1>1 DEF Sound, Opened
  <2>2. Sound(req)
    BY <1>1, <1>2 DEF Sound, Opened
  <2>3. LineSound'
    BY <1>3, <2>1, <2>2 DEF LineSound
  <2>4. QED
    BY <1>1, <2>1, <2>3 DEF ServingSound
<1>7. LiveHaveEntries' /\ DeliveredToOwner' /\ StopsOnlyForACause'
  BY <1>1 DEF LiveHaveEntries, DeliveredToOwner, StopsOnlyForACause, Subscribing
<1>8. TablesAgree'
  <2>1. \A n : BeingRemoved(n) => BeingRemoved(n)'
    BY <1>1, <1>3 DEF BeingRemoved
  <2>2. QED
    BY <1>1, <2>1 DEF TablesAgree, SubscriptionsOf
<1>9. QED
  BY <1>4, <1>5, <1>6, <1>7, <1>8

\* What the first of the line finds, whatever it asks for.
LEMMA ServeTakes ==
  ASSUME Inv, Serve
  PROVE  LET req == Head(line)
         IN  /\ req \in Requests /\ Sound(req)
             /\ line' \in Seq(Requests)
             /\ \A i \in DOMAIN line' : i + 1 \in DOMAIN line /\ line'[i] = line[i + 1]
             /\ \A i \in DOMAIN line : line[i] = req
                                      \/ \E k \in DOMAIN line' : line'[k] = line[i]
<1>1. line \in Seq(Requests) /\ line # <<>> /\ line' = Tail(line)
  BY DEF Inv, TypeOK, Serve
<1>2. Head(line) = line[1] /\ 1 \in DOMAIN line
  BY <1>1
<1>3. Head(line) \in Requests /\ Sound(Head(line))
  BY <1>1, <1>2 DEF Inv, LineSound
<1>4. /\ line' \in Seq(Requests) /\ Len(line') = Len(line) - 1 /\ Len(line) \in Nat
      /\ \A i \in 1..(Len(line) - 1) : line'[i] = line[i + 1]
  BY <1>1
<1>5. DOMAIN line' = 1..(Len(line) - 1) /\ DOMAIN line = 1..Len(line)
  BY <1>1, <1>4
<1>6. ASSUME NEW i \in DOMAIN line, i # 1
      PROVE  i - 1 \in DOMAIN line' /\ line'[i - 1] = line[i]
  BY <1>4, <1>5, <1>6
<1>7. QED
  BY <1>2, <1>3, <1>4, <1>5, <1>6

\* Being removed stays so: a request leaves the line to be served.
LEMMA ServeRemoves ==
  ASSUME Inv, Serve, NEW req, req = Head(line), serving' # Nothing, serving'.req = req
  PROVE  \A n : BeingRemoved(n) => BeingRemoved(n)'
<1>1. serving = Nothing
  BY DEF Serve
<1>2. \A i \in DOMAIN line : line[i] = req \/ \E k \in DOMAIN line' : line'[k] = line[i]
  BY ServeTakes
<1>3. QED
  BY <1>1, <1>2 DEF BeingRemoved

LEMMA ServeKeeps ==
  ASSUME Inv, stopped = Nothing, Serve
  PROVE  Inv'
<1> USE DEF Inv
<1>4. PICK req : req = Head(line)
  OBVIOUS
<1>1. /\ UNCHANGED <<phase, connectionCounter, id, connections, connectionsBySubscriptionId,
                     asked, stopped, delivered>>
      /\ serving = Nothing /\ made \in 0..MaxSubscriptions /\ made \in Nat
      /\ line \in Seq(Requests) /\ pending \in [Subscribed -> Nat]
      /\ DOMAIN owner = 1..made /\ live \subseteq 1..made
      /\ DOMAIN connectionsBySubscriptionId \subseteq 1..made
  BY BoundsAssumption DEF Serve, TypeOK, tables, CountersOK
<1>2. /\ req \in Requests /\ Sound(req)
      /\ line' \in Seq(Requests)
      /\ \A i \in DOMAIN line' : i + 1 \in DOMAIN line /\ line'[i] = line[i + 1]
  BY <1>4, ServeTakes
<1>3. \/ req.method = "eth_subscribe" /\ Subscribe(req)
      \/ /\ req.method \in {"eth_unsubscribe", "unsubscribe_closed"}
         /\ Unsubscribe(req)
      \/ req.method = "evm_mine" /\ Mine(req)
      \/ Fail(req)
  BY <1>4 DEF Serve
\* What all of them keep.
<1>5. ASSUME serving' \in Answers, serving'.req = req, made' \in made..MaxSubscriptions,
             live' \subseteq 1..made', pending' \in [Subscribed -> Nat],
             \A n \in Subscribed : pending'[n] > 0 => n \in live',
             DOMAIN owner' = 1..made', \A n \in 1..made : owner'[n] = owner[n],
             \A n \in 1..made' : owner'[n] \in Sockets \cup {Elsewhere} /\ Opened(owner'[n])
      PROVE  /\ TypeOK' /\ CountersOK' /\ IdsAreOwn' /\ OwnersOpened' /\ LineSound'
             /\ Sound(req)' /\ DeliveredToOwner' /\ TablesAgree' /\ StopsOnlyForACause'
             /\ serving' # Nothing
  <2>1. serving' # Nothing /\ 1..made \subseteq 1..made'
    BY <1>1, <1>5, NothingAssumption
  <2>2. TypeOK'
    <3>1. \A n \in DOMAIN connections :
            connections[n] \in [connection : Sockets, subscriptions : SUBSET (1..made')]
      <4>1. \A n \in DOMAIN connections :
              connections[n] \in [connection : Sockets, subscriptions : SUBSET (1..made)]
        BY DEF TypeOK
      <4>2. SUBSET (1..made) \subseteq SUBSET (1..made')
        BY <2>1
      <4>3. QED
        BY <4>1, <4>2
    <3>2. made' \in 0..MaxSubscriptions
      BY <1>1, <1>5
    <3>3. DOMAIN connectionsBySubscriptionId' \subseteq 1..made'
      BY <1>1, <2>1
    <3>4. /\ phase' \in [Sockets -> {"new", "open", "closed"}]
          /\ id' \in [Sockets -> 0..connectionCounter']
          /\ DOMAIN connections' = {id'[s] : s \in {t \in Sockets : phase'[t] = "open"}}
          /\ \A n \in DOMAIN connectionsBySubscriptionId' :
               connectionsBySubscriptionId'[n] \in Sockets
          /\ asked' \in 0..MaxRequests /\ (stopped' = Nothing \/ stopped' \in Stops)
      BY <1>1 DEF TypeOK
    <3>5. QED
      BY <1>1, <1>2, <1>5, <3>1, <3>2, <3>3, <3>4 DEF TypeOK
  <2>3. CountersOK' /\ IdsAreOwn'
    BY <1>1, <1>5 DEF CountersOK, IdsAreOwn
  <2>4. OwnersOpened'
    BY <1>1, <1>5 DEF OwnersOpened, Opened
  <2>5. ASSUME NEW r, Sound(r) PROVE Sound(r)'
    BY <1>1, <1>5, <2>1, <2>5 DEF Sound, Opened
  <2>6. LineSound'
    BY <1>2, <2>5 DEF LineSound
  <2>7. Sound(req)'
    BY <1>2, <2>5
  <2>8. DeliveredToOwner' /\ StopsOnlyForACause'
    BY <1>1, <1>5, <2>1 DEF DeliveredToOwner, StopsOnlyForACause
  <2>9. TablesAgree'
    <3>1. \A n : BeingRemoved(n) => BeingRemoved(n)'
      BY <1>4, <1>5, <2>1, ServeRemoves
    <3>2. QED
      BY <1>1, <3>1 DEF TablesAgree, SubscriptionsOf
  <2>10. QED
    BY <2>1, <2>2, <2>3, <2>4, <2>6, <2>7, <2>8, <2>9
<1>6. \A n \in live : owner[n] \in Sockets => n \in DOMAIN connectionsBySubscriptionId
  BY <1>1 DEF LiveHaveEntries, Subscribing
<1>7. CASE req.method = "eth_subscribe" /\ Subscribe(req)
  <2>1. /\ made < MaxSubscriptions /\ made' = made + 1 /\ live' = live \cup {made + 1}
        /\ owner' = With(owner, made + 1, req.via) /\ pending' = pending
        /\ serving' = [req |-> req, ok |-> TRUE, result |-> made + 1]
    BY <1>7 DEF Subscribe
  <2>2. /\ made' \in made..MaxSubscriptions /\ made' \in 0..MaxSubscriptions
        /\ 1..made' = 1..made \cup {made + 1} /\ made + 1 \notin 1..made
        /\ made + 1 \in Subscribed
    BY <1>1, <2>1, BoundsAssumption DEF Subscribed
  <2>3. /\ DOMAIN owner' = 1..made' /\ owner'[made + 1] = req.via
        /\ \A n \in 1..made : owner'[n] = owner[n]
    BY <1>1, <2>1, <2>2 DEF With
  <2>4. /\ serving' \in Answers /\ serving'.req = req /\ serving'.ok
        /\ serving'.result = made + 1
    BY <1>2, <2>1, <2>2 DEF Answers
  <2>5. \A n \in 1..made' : owner'[n] \in Sockets \cup {Elsewhere} /\ Opened(owner'[n])
    <3>1. req.via \in Sockets \cup {Elsewhere} /\ Opened(req.via)
      BY <1>2 DEF Requests, Sound
    <3>2. QED
      BY <1>1, <2>2, <2>3, <3>1 DEF OwnersOpened
  <2>6. pending[made + 1] = 0 /\ \A n \in Subscribed : pending[n] > 0 => n \in live'
    BY <1>1, <2>1, <2>2 DEF TypeOK
  <2>7. /\ TypeOK' /\ CountersOK' /\ IdsAreOwn' /\ OwnersOpened' /\ LineSound'
        /\ Sound(req)' /\ DeliveredToOwner' /\ TablesAgree' /\ StopsOnlyForACause'
        /\ serving' # Nothing
    BY <1>1, <1>5, <2>1, <2>2, <2>3, <2>4, <2>5, <2>6
  <2>8. ServingSound'
    <3>1. made' # 0 /\ made' \notin DOMAIN connectionsBySubscriptionId'
      BY <1>1, <2>1, <2>2
    <3>2. QED
      BY <1>7, <2>1, <2>3, <2>4, <2>6, <2>7, <3>1 DEF ServingSound
  <2>9. LiveHaveEntries'
    <3>1. PICK n : n = made + 1
      OBVIOUS
    <3>2. Subscribing(n)'
      BY <1>7, <2>4, <2>7, <3>1 DEF Subscribing
    <3>3. \A k \in live' : owner'[k] \in Sockets =>
            k \in DOMAIN connectionsBySubscriptionId' \/ k = n
      BY <1>1, <1>6, <2>1, <2>3, <3>1
    <3>4. QED
      BY <3>2, <3>3 DEF LiveHaveEntries
  <2>10. QED
    BY <2>7, <2>8, <2>9
<1>8. CASE /\ req.method \in {"eth_unsubscribe", "unsubscribe_closed"}
           /\ Unsubscribe(req)
  <2>1. /\ live' = live \ {req.sub} /\ pending' = [pending EXCEPT ![req.sub] = 0]
        /\ serving' = [req |-> req, ok |-> req.sub \in live, result |-> req.sub]
        /\ UNCHANGED <<made, owner>>
    BY <1>8 DEF Unsubscribe
  <2>2. req.sub \in 1..made /\ req.sub \in Subscribed /\ req.sub \in 0..MaxSubscriptions
    BY <1>1, <1>2, <1>8, BoundsAssumption DEF Sound, Subscribed
  <2>3. serving' \in Answers /\ serving'.req = req
    <3>1. (req.sub \in live) \in BOOLEAN
      OBVIOUS
    <3>2. QED
      BY <1>2, <2>1, <2>2, <3>1 DEF Answers
  <2>4. /\ pending' \in [Subscribed -> Nat]
        /\ \A n \in Subscribed : pending'[n] > 0 => n \in live'
    BY <1>1, <2>1, <2>2 DEF TypeOK
  <2>5. \A n \in 1..made' : owner'[n] \in Sockets \cup {Elsewhere} /\ Opened(owner'[n])
    BY <1>1, <2>1 DEF OwnersOpened
  <2>6. /\ TypeOK' /\ CountersOK' /\ IdsAreOwn' /\ OwnersOpened' /\ LineSound'
        /\ Sound(req)' /\ DeliveredToOwner' /\ TablesAgree' /\ StopsOnlyForACause'
        /\ serving' # Nothing
    <3>1. made' \in made..MaxSubscriptions /\ live' \subseteq 1..made'
      <4>1. made' = made /\ live' = live \ {req.sub}
        BY <2>1
      <4>2. made \in made..MaxSubscriptions
        BY <1>1, BoundsAssumption
      <4>3. QED
        BY <1>1, <4>1, <4>2
    <3>2. QED
      BY <1>1, <1>5, <2>1, <2>3, <2>4, <2>5, <3>1
  <2>7. ServingSound'
    BY <1>8, <2>1, <2>3, <2>6 DEF ServingSound
  <2>8. LiveHaveEntries'
    BY <1>1, <1>6, <2>1 DEF LiveHaveEntries
  <2>9. QED
    BY <2>6, <2>7, <2>8
<1>9. CASE (req.method = "evm_mine" /\ Mine(req)) \/ Fail(req)
  <2>1. /\ UNCHANGED <<live, made, owner>>
        /\ serving' \in {[req |-> req, ok |-> o, result |-> 0] : o \in BOOLEAN}
        /\ \/ req.method = "evm_mine"
           \/ /\ req.method = "eth_subscribe"
              /\ serving' = [req |-> req, ok |-> FALSE, result |-> 0]
    BY <1>9 DEF Mine, Fail, engine
  <2>2. /\ pending' \in [Subscribed -> Nat]
        /\ \A n \in Subscribed : pending'[n] > 0 => n \in live'
    <3>1. CASE Mine(req)
      BY <1>1, <3>1 DEF Mine
    <3>2. CASE Fail(req)
      BY <1>1, <3>2 DEF Fail, engine, TypeOK
    <3>3. QED
      BY <1>9, <3>1, <3>2
  <2>3. /\ serving' \in Answers /\ serving'.req = req
        /\ req.method # "evm_mine" => serving'.ok = FALSE
    BY <1>2, <2>1, BoundsAssumption DEF Answers
  <2>4. \A n \in 1..made' : owner'[n] \in Sockets \cup {Elsewhere} /\ Opened(owner'[n])
    BY <1>1, <2>1 DEF OwnersOpened
  <2>5. /\ TypeOK' /\ CountersOK' /\ IdsAreOwn' /\ OwnersOpened' /\ LineSound'
        /\ Sound(req)' /\ DeliveredToOwner' /\ TablesAgree' /\ StopsOnlyForACause'
        /\ serving' # Nothing
    <3>1. made' \in made..MaxSubscriptions /\ live' \subseteq 1..made'
      <4>1. made' = made /\ live' = live
        BY <2>1
      <4>2. QED
        BY <1>1, <4>1, BoundsAssumption
    <3>2. QED
      BY <1>1, <1>5, <2>1, <2>2, <2>3, <2>4, <3>1
  <2>6. ServingSound'
    BY <2>1, <2>3, <2>5 DEF ServingSound
  <2>7. LiveHaveEntries'
    BY <1>1, <1>6, <2>1 DEF LiveHaveEntries
  <2>8. QED
    BY <2>5, <2>6, <2>7
<1>10. QED
  BY <1>3, <1>7, <1>8, <1>9
-----------------------------------------------------------------------------
(* Answers and notifications.                                               *)

\* The request under way is answered, and the tables tell the same after it.
LEMMA AnswerKeeps ==
  ASSUME Inv, stopped = Nothing, Answer
  PROVE  Inv'
<1> USE DEF Inv
<1>1. PICK req, result : req = serving.req /\ result = serving.result
  OBVIOUS
<1>2. /\ UNCHANGED <<phase, connectionCounter, id, line, live, made, pending, asked, owner,
                     delivered>>
      /\ serving # Nothing /\ serving' = Nothing
      /\ made \in 0..MaxSubscriptions /\ made \in Nat
      /\ DOMAIN owner = 1..made /\ live \subseteq 1..made
      /\ DOMAIN connectionsBySubscriptionId \subseteq 1..made
  BY BoundsAssumption DEF Answer, TypeOK, CountersOK, engine
<1>3. /\ serving \in Answers /\ req \in Requests /\ Sound(req)
      /\ req.via \in Sockets \cup {Elsewhere} /\ req.sub \in 0..MaxSubscriptions
      /\ result \in 0..MaxSubscriptions
      /\ req.method \in {"eth_unsubscribe", "unsubscribe_closed"} => req.sub \notin live
      /\ req.method = "eth_subscribe" /\ serving.ok =>
           /\ result = made /\ made # 0
           /\ made \notin DOMAIN connectionsBySubscriptionId
           /\ owner[made] = req.via /\ pending[made] = 0
  BY <1>1, <1>2 DEF ServingSound, TypeOK, Answers, Requests
\* What every answer keeps.
<1>4. /\ CountersOK' /\ LineSound' /\ ServingSound' /\ DeliveredToOwner'
      /\ \A via : Opened(via)' <=> Opened(via)
      /\ \A n : req.method # "unsubscribe_closed" \/ req.sub # n =>
              (BeingRemoved(n) => BeingRemoved(n)')
  <2>1. \A via : Opened(via)' <=> Opened(via)
    BY <1>2 DEF Opened
  <2>2. \A r : Sound(r) => Sound(r)'
    BY <1>2, <2>1 DEF Sound
  <2>3. QED
    BY <1>1, <1>2, <2>1, <2>2
    DEF CountersOK, LineSound, ServingSound, DeliveredToOwner, BeingRemoved
\* And an answer that leaves the tables alone.
<1>5. ASSUME UNCHANGED <<connections, connectionsBySubscriptionId>>,
             req.method # "unsubscribe_closed"
      PROVE  IdsAreOwn' /\ OwnersOpened' /\ TablesAgree'
  BY <1>2, <1>4, <1>5 DEF IdsAreOwn, OwnersOpened, TablesAgree, SubscriptionsOf
\* And an answer that throws.
<1>6. ASSUME NEW by \in {"eth_subscribe", "eth_unsubscribe"}, NEW sub \in 0..MaxSubscriptions,
             Throws(by, req.via, sub)
      PROVE  /\ stopped' \in Stops /\ stopped' # Nothing
             /\ stopped'.by = by /\ stopped'.via = req.via /\ stopped'.sub = sub
  <2>1. stopped' = [by |-> by, via |-> req.via, sub |-> sub]
    BY <1>6 DEF Throws
  <2>2. stopped' \in Stops
    BY <1>3, <2>1 DEF Stops
  <2>3. QED
    BY <2>1, <2>2, NothingAssumption
<1>7. CASE OnlySends /\ UNCHANGED <<connections, connectionsBySubscriptionId, stopped>>
  <2>1. req.method # "unsubscribe_closed"
    BY <1>1, <1>3, <1>7, ElsewhereAssumption DEF OnlySends, Sound
  <2>2. \A n : Subscribing(n) => owner[n] \notin Sockets
    BY <1>1, <1>3, <1>7, ElsewhereAssumption DEF Subscribing, OnlySends
  <2>3. LiveHaveEntries' /\ StopsOnlyForACause'
    BY <1>2, <1>7, <2>2 DEF LiveHaveEntries, StopsOnlyForACause
  <2>4. TypeOK'
    BY <1>2, <1>7 DEF TypeOK
  <2>5. QED
    BY <1>4, <1>5, <1>7, <2>1, <2>3, <2>4
<1>8. CASE ~OnlySends /\ req.method = "eth_subscribe" /\ AnswerSubscribe
  <2>1. /\ serving.ok /\ req.via \in Sockets /\ phase[req.via] # "new"
        /\ result = made /\ made \in 1..made /\ made \notin DOMAIN connectionsBySubscriptionId
        /\ owner[made] = req.via
    BY <1>1, <1>2, <1>3, <1>8 DEF OnlySends, Sound, Opened
  <2>2. CASE id[req.via] \in DOMAIN connections
    <3>1. PICK s, k : s = req.via /\ k = id[s]
      OBVIOUS
    <3>2. /\ connections' = [connections EXCEPT ![k].subscriptions = @ \cup {result}]
          /\ connectionsBySubscriptionId' =
               With(connectionsBySubscriptionId, result, connections[k].connection)
          /\ stopped' = stopped
      BY <1>1, <1>8, <2>2, <3>1 DEF AnswerSubscribe
    <3>3. phase[s] = "open" /\ connections[k].connection = s
      <4>1. PICK t \in Sockets : phase[t] = "open" /\ id[t] = k
        BY <2>2, <3>1 DEF TypeOK
      <4>2. t = s
        BY <2>1, <3>1, <4>1 DEF IdsAreOwn
      <4>3. QED
        BY <4>1, <4>2 DEF IdsAreOwn
    <3>4. /\ DOMAIN connectionsBySubscriptionId' = DOMAIN connectionsBySubscriptionId \cup {made}
          /\ connectionsBySubscriptionId'[made] = s
          /\ \A n \in DOMAIN connectionsBySubscriptionId :
               connectionsBySubscriptionId'[n] = connectionsBySubscriptionId[n]
      BY <2>1, <3>2, <3>3 DEF With
    <3>5. connections[k] \in [connection : Sockets, subscriptions : SUBSET (1..made)]
      BY <2>2, <3>1 DEF TypeOK
    <3>6. /\ DOMAIN connections' = DOMAIN connections
          /\ connections'[k].connection = s
          /\ connections'[k].subscriptions = connections[k].subscriptions \cup {made}
          /\ connections'[k] \in [connection : Sockets, subscriptions : SUBSET (1..made)]
          /\ \A m \in DOMAIN connections \ {k} : connections'[m] = connections[m]
      <4>1. k \in DOMAIN connections
        BY <2>2, <3>1
      <4>2. connections'[k] = [connections[k] EXCEPT !.subscriptions = @ \cup {made}]
        BY <2>1, <3>2, <4>1
      <4>3. QED
        BY <2>1, <3>2, <3>3, <3>5, <4>1, <4>2
    <3>7. TypeOK'
      <4>1. \A m \in DOMAIN connections' :
              connections'[m] \in [connection : Sockets, subscriptions : SUBSET (1..made')]
        BY <1>2, <3>6 DEF TypeOK
      <4>2. /\ DOMAIN connectionsBySubscriptionId' \subseteq 1..made'
            /\ \A n \in DOMAIN connectionsBySubscriptionId' :
                 connectionsBySubscriptionId'[n] \in Sockets
        BY <1>2, <2>1, <3>1, <3>4 DEF TypeOK
      <4>3. DOMAIN connections' = {id'[t] : t \in {u \in Sockets : phase'[u] = "open"}}
        BY <1>2, <3>6 DEF TypeOK
      <4>4. stopped' = Nothing
        BY <3>2
      <4>5. QED
        BY <1>2, <4>1, <4>2, <4>3, <4>4 DEF TypeOK
    <3>8. IdsAreOwn'
      <4>1. ASSUME NEW t \in Sockets, phase[t] = "open"
            PROVE  connections'[id[t]].connection = t
        <5>1. id[t] \in DOMAIN connections /\ connections[id[t]].connection = t
          BY <4>1 DEF TypeOK, IdsAreOwn
        <5>2. CASE id[t] = k
          BY <3>3, <3>6, <5>1, <5>2
        <5>3. CASE id[t] # k
          BY <3>6, <5>1, <5>3
        <5>4. QED
          BY <5>2, <5>3
      <4>2. QED
        BY <1>2, <4>1 DEF IdsAreOwn
    <3>9. OwnersOpened'
      BY <1>2, <1>4, <2>1, <3>1, <3>4 DEF OwnersOpened
    <3>10. LiveHaveEntries' /\ StopsOnlyForACause'
      <4>1. \A n : Subscribing(n) => n = made
        BY <1>1, <2>1 DEF Subscribing
      <4>2. QED
        BY <1>2, <3>2, <3>4, <4>1 DEF LiveHaveEntries, StopsOnlyForACause
    <3>11. TablesAgree'
      <4>1. ASSUME NEW t \in Sockets, phase'[t] = "open"
            PROVE  SubscriptionsOf(t)' = {n \in DOMAIN connectionsBySubscriptionId' :
                                            connectionsBySubscriptionId'[n] = t}
        <5>1. phase[t] = "open" /\ id[t] \in DOMAIN connections
          BY <1>2, <4>1 DEF TypeOK
        <5>2. SubscriptionsOf(t) = {n \in DOMAIN connectionsBySubscriptionId :
                                      connectionsBySubscriptionId[n] = t}
          BY <5>1 DEF TablesAgree
        <5>3. CASE t = s
          <6>1. SubscriptionsOf(t)' = SubscriptionsOf(t) \cup {made}
            BY <1>2, <3>1, <3>6, <5>3 DEF SubscriptionsOf
          <6>2. QED
            BY <2>1, <3>4, <5>2, <5>3, <6>1
        <5>4. CASE t # s
          <6>1. id[t] # k
            BY <2>1, <3>1, <5>1, <5>4 DEF IdsAreOwn
          <6>2. SubscriptionsOf(t)' = SubscriptionsOf(t)
            BY <1>2, <3>6, <5>1, <6>1 DEF SubscriptionsOf
          <6>3. QED
            BY <2>1, <3>4, <5>2, <5>4, <6>2
        <5>5. QED
          BY <5>3, <5>4
      <4>2. ASSUME NEW n \in DOMAIN connectionsBySubscriptionId',
                   phase'[connectionsBySubscriptionId'[n]] = "closed"
            PROVE  BeingRemoved(n)'
        <5>1. n # made
          BY <1>2, <3>3, <3>4, <4>2
        <5>2. n \in DOMAIN connectionsBySubscriptionId
              /\ phase[connectionsBySubscriptionId[n]] = "closed"
          BY <1>2, <3>4, <4>2, <5>1
        <5>3. BeingRemoved(n)
          BY <5>2 DEF TablesAgree
        <5>4. QED
          BY <1>4, <1>8, <5>3
      <4>3. QED
        BY <4>1, <4>2 DEF TablesAgree
    <3>12. QED
      BY <1>4, <3>7, <3>8, <3>9, <3>10, <3>11
  <2>3. CASE id[req.via] \notin DOMAIN connections
    <3>1. /\ Throws("eth_subscribe", req.via, result)
          /\ UNCHANGED <<connections, connectionsBySubscriptionId>>
      BY <1>1, <1>8, <2>3 DEF AnswerSubscribe
    <3>2. /\ stopped' \in Stops /\ stopped' # Nothing
          /\ stopped'.by = "eth_subscribe" /\ stopped'.via = req.via
      BY <1>3, <1>6, <3>1
    <3>3. phase[req.via] = "closed"
      BY <2>1, <2>3 DEF TypeOK
    <3>4. LiveHaveEntries' /\ StopsOnlyForACause'
      BY <1>2, <3>2, <3>3 DEF LiveHaveEntries, StopsOnlyForACause
    <3>5. TypeOK'
      BY <1>2, <3>1, <3>2 DEF TypeOK
    <3>6. QED
      BY <1>4, <1>5, <1>8, <3>1, <3>4, <3>5
  <2>4. QED
    BY <2>2, <2>3
<1>9. CASE req.method = "eth_unsubscribe" /\ AnswerUnsubscribe
  <2>1. /\ Throws("eth_unsubscribe", req.via, req.sub)
        /\ UNCHANGED <<connections, connectionsBySubscriptionId>>
    BY <1>1, <1>9 DEF AnswerUnsubscribe
  <2>2. /\ stopped' \in Stops /\ stopped' # Nothing
        /\ stopped'.by = "eth_unsubscribe" /\ stopped'.sub = req.sub
    BY <1>3, <1>6, <2>1
  <2>3. req.sub \in 1..made /\ req.sub \notin live
    BY <1>3, <1>9 DEF Sound
  <2>4. LiveHaveEntries' /\ StopsOnlyForACause'
    BY <1>2, <2>2, <2>3 DEF LiveHaveEntries, StopsOnlyForACause
  <2>5. TypeOK'
    BY <1>2, <2>1, <2>2 DEF TypeOK
  <2>6. QED
    BY <1>4, <1>5, <1>9, <2>1, <2>4, <2>5
<1>10. CASE req.method = "unsubscribe_closed" /\ AnswerClosed
  <2>1. /\ connectionsBySubscriptionId' = Without(connectionsBySubscriptionId, req.sub)
        /\ UNCHANGED <<connections, stopped>>
    BY <1>1, <1>10 DEF AnswerClosed
  <2>2. /\ DOMAIN connectionsBySubscriptionId' = DOMAIN connectionsBySubscriptionId \ {req.sub}
        /\ \A n \in DOMAIN connectionsBySubscriptionId' :
             connectionsBySubscriptionId'[n] = connectionsBySubscriptionId[n]
    BY <2>1 DEF Without
  <2>3. req.sub \notin live /\ req.via \in Sockets /\ phase[req.via] = "closed"
        /\ owner[req.sub] = req.via
    BY <1>3, <1>10 DEF Sound
  <2>4. TypeOK'
    BY <1>2, <2>1, <2>2 DEF TypeOK
  <2>5. IdsAreOwn' /\ OwnersOpened'
    BY <1>2, <1>4, <2>1, <2>2 DEF IdsAreOwn, OwnersOpened
  <2>6. LiveHaveEntries' /\ StopsOnlyForACause'
    <3>1. \A n : ~Subscribing(n)
      BY <1>1, <1>10 DEF Subscribing
    <3>2. QED
      BY <1>2, <2>1, <2>2, <2>3, <3>1 DEF LiveHaveEntries, StopsOnlyForACause
  <2>7. TablesAgree'
    <3>1. ASSUME NEW t \in Sockets, phase'[t] = "open"
          PROVE  SubscriptionsOf(t)' = {n \in DOMAIN connectionsBySubscriptionId' :
                                          connectionsBySubscriptionId'[n] = t}
      <4>1. phase[t] = "open" /\ t # req.via
        BY <1>2, <2>3, <3>1
      <4>2. SubscriptionsOf(t)' = {n \in DOMAIN connectionsBySubscriptionId :
                                     connectionsBySubscriptionId[n] = t}
        BY <1>2, <2>1, <4>1 DEF TablesAgree, SubscriptionsOf
      <4>3. req.sub \in DOMAIN connectionsBySubscriptionId
              => connectionsBySubscriptionId[req.sub] # t
        BY <2>3, <4>1 DEF OwnersOpened
      <4>4. QED
        BY <2>2, <4>2, <4>3
    <3>2. ASSUME NEW n \in DOMAIN connectionsBySubscriptionId',
                 phase'[connectionsBySubscriptionId'[n]] = "closed"
          PROVE  BeingRemoved(n)'
      <4>1. n # req.sub /\ n \in DOMAIN connectionsBySubscriptionId
            /\ phase[connectionsBySubscriptionId[n]] = "closed"
        BY <1>2, <2>2, <3>2
      <4>2. BeingRemoved(n)
        BY <4>1 DEF TablesAgree
      <4>3. QED
        BY <1>4, <4>1, <4>2
    <3>3. QED
      BY <3>1, <3>2 DEF TablesAgree
  <2>8. QED
    BY <1>4, <2>4, <2>5, <2>6, <2>7
<1>11. QED
  BY <1>1, <1>7, <1>8, <1>9, <1>10 DEF Answer

LEMMA NotifyKeeps ==
  ASSUME Inv, stopped = Nothing, NEW sub \in Subscribed, updateSubscriptions(sub)
  PROVE  Inv'
<1> USE DEF Inv
<1>1. /\ UNCHANGED <<phase, connectionCounter, id, connections, connectionsBySubscriptionId,
                     line, serving, live, made, asked, owner>>
      /\ pending \in [Subscribed -> Nat] /\ pending[sub] > 0 /\ sub \in live
      /\ sub \in 1..made /\ sub \in 0..MaxSubscriptions
  BY BoundsAssumption DEF updateSubscriptions, TypeOK, tables, provider, Subscribed
<1>2. /\ pending' \in [Subscribed -> Nat]
      /\ \A n \in Subscribed : /\ pending'[n] > 0 => pending[n] > 0
                               /\ pending[n] = 0 => pending'[n] = 0
  BY <1>1 DEF updateSubscriptions
<1>3. /\ CountersOK' /\ IdsAreOwn' /\ OwnersOpened' /\ LineSound' /\ TablesAgree'
  BY <1>1 DEF CountersOK, IdsAreOwn, OwnersOpened, Opened, LineSound, Sound, TablesAgree,
              SubscriptionsOf, BeingRemoved
<1>4. ServingSound'
  <2>1. \A r : Sound(r) => Sound(r)'
    BY <1>1 DEF Sound, Opened
  <2>2. made # 0 => made \in Subscribed
    BY BoundsAssumption DEF TypeOK, Subscribed
  <2>3. made # 0 /\ pending[made] = 0 => pending'[made] = 0
    BY <1>2, <2>2
  <2>4. QED
    BY <1>1, <2>1, <2>3 DEF ServingSound
<1>a. \A n \in Subscribed : pending'[n] > 0 => n \in live
  <2>1. \A n \in Subscribed : pending[n] > 0 => n \in live
    BY DEF TypeOK
  <2>2. QED
    BY <1>2, <2>1
<1>b. stopped' = Nothing \/ stopped' \in Stops => TypeOK'
  BY <1>1, <1>2, <1>a DEF TypeOK
<1>5. CASE sub \in DOMAIN connectionsBySubscriptionId
  <2>1. /\ delivered' = delivered \cup {<<sub, connectionsBySubscriptionId[sub]>>}
        /\ stopped' = stopped
    BY <1>5 DEF updateSubscriptions
  <2>2. connectionsBySubscriptionId[sub] = owner[sub]
    BY <1>5 DEF OwnersOpened
  <2>3. DeliveredToOwner'
    BY <1>1, <2>1, <2>2 DEF DeliveredToOwner
  <2>4. LiveHaveEntries' /\ StopsOnlyForACause'
    BY <1>1, <2>1 DEF LiveHaveEntries, StopsOnlyForACause, Subscribing
  <2>5. TypeOK'
    BY <1>b, <2>1
  <2>6. QED
    BY <1>3, <1>4, <2>3, <2>4, <2>5
<1>6. CASE sub \notin DOMAIN connectionsBySubscriptionId
  <2>1. stopped' = [by |-> "notification", via |-> Elsewhere, sub |-> sub]
        /\ delivered' = delivered
    BY <1>6 DEF updateSubscriptions, Throws
  <2>2. stopped' \in Stops /\ stopped'.by = "notification" /\ stopped'.sub = sub
    BY <1>1, <2>1 DEF Stops
  <2>3. stopped' # Nothing
    BY <2>2, NothingAssumption
  <2>4. owner[sub] = Elsewhere
    <3>1. ~Subscribing(sub)
      BY <1>1 DEF Subscribing, ServingSound
    <3>2. owner[sub] \notin Sockets
      BY <1>1, <1>6, <3>1 DEF LiveHaveEntries
    <3>3. QED
      BY <1>1, <3>2 DEF OwnersOpened, CountersOK
  <2>5. DeliveredToOwner' /\ LiveHaveEntries' /\ StopsOnlyForACause'
    BY <1>1, <2>1, <2>2, <2>3, <2>4
    DEF DeliveredToOwner, LiveHaveEntries, StopsOnlyForACause
  <2>6. TypeOK'
    BY <1>b, <2>2
  <2>7. QED
    BY <1>3, <1>4, <2>5, <2>6
<1>7. QED
  BY <1>5, <1>6
-----------------------------------------------------------------------------
(* The theorems.                                                            *)

LEMMA StepKeepsInv == Inv /\ [Next]_vars => Inv'
<1> SUFFICES ASSUME Inv, [Next]_vars PROVE Inv'
  OBVIOUS
<1>1. CASE Next
  <2>1. stopped = Nothing
    BY <1>1 DEF Next
  <2>2. CASE \E s \in Sockets : manageConnection(s) \/ GarbledMessage(s) \/ Close(s)
    BY <2>1, <2>2, ManageKeeps, GarbledKeeps, CloseKeeps
  <2>3. CASE \E via \in Sockets \cup {Elsewhere} : Send(via)
    BY <2>1, <2>3, SendKeeps
  <2>4. CASE Serve
    BY <2>1, <2>4, ServeKeeps
  <2>5. CASE Answer
    BY <2>1, <2>5, AnswerKeeps
  <2>6. CASE \E sub \in Subscribed : updateSubscriptions(sub)
    BY <2>1, <2>6, NotifyKeeps
  <2>7. QED
    BY <1>1, <2>2, <2>3, <2>4, <2>5, <2>6 DEF Next
<1>2. CASE UNCHANGED vars
  <2>1. UNCHANGED <<phase, connectionCounter, id, connections, connectionsBySubscriptionId,
                    line, serving, live, made, pending, asked, stopped, owner, delivered>>
    BY <1>2 DEF vars, tables, provider, engine
  <2>2. TypeOK' /\ CountersOK' /\ IdsAreOwn' /\ OwnersOpened' /\ LineSound' /\ ServingSound'
    BY <2>1 DEF Inv, TypeOK, CountersOK, IdsAreOwn, OwnersOpened, LineSound, ServingSound,
                Sound, Opened
  <2>3. LiveHaveEntries' /\ DeliveredToOwner' /\ TablesAgree' /\ StopsOnlyForACause'
    BY <2>1 DEF Inv, LiveHaveEntries, Subscribing, DeliveredToOwner, TablesAgree,
                SubscriptionsOf, BeingRemoved, StopsOnlyForACause
  <2>4. QED
    BY <2>2, <2>3 DEF Inv
<1>3. QED
  BY <1>1, <1>2

LEMMA InvHolds == Spec => []Inv
BY InitInv, StepKeepsInv, PTL DEF Spec

(* The variables have their types: the entries by connection are those of  *)
(* the open connections, and only a live subscription has notifications    *)
(* that are not emitted yet.                                               *)
THEOREM TypeCorrect == Spec => []TypeOK
<1>1. Inv => TypeOK
  BY DEF Inv
<1>2. QED
  BY <1>1, InvHolds, PTL

(* A notification is sent only to the connection that asked for the        *)
(* subscription (manageConnection, _handleRequest, _updateSubscriptions).  *)
THEOREM OwnersAreNotified == Spec => []NotifiedIsOwner
<1>1. Inv => NotifiedIsOwner
  BY DEF Inv, DeliveredToOwner, NotifiedIsOwner
<1>2. QED
  BY <1>1, InvHolds, PTL

(* The table by connection and the table by subscription tell the same of  *)
(* open connections, and what is left of closed ones is about to go (the   *)
(* close handler, the answers).                                            *)
THEOREM TablesTellTheSame == Spec => []TablesAgree
<1>1. Inv => TablesAgree
  BY DEF Inv
<1>2. QED
  BY <1>1, InvHolds, PTL

(* What makes a callback throw is one of the causes listed, and never a    *)
(* notification of a subscription made over a web socket (_handleRequest,  *)
(* _updateSubscriptions).                                                  *)
THEOREM ThrowsOnlyForACause == Spec => []StopsOnlyForACause
<1>1. Inv => StopsOnlyForACause
  BY DEF Inv
<1>2. QED
  BY <1>1, InvHolds, PTL
=============================================================================
