---------------------------- MODULE GethApi_proofs ----------------------------
(***************************************************************************)
(* Proofs about GethApi, for any accounts, passwords and requests, and any *)
(* number of them.                                                         *)
(***************************************************************************)
EXTENDS GethApi, TLAPS

\* The account a request names.
LEMMA FromType ==
  ASSUME TypeOK, NEW i \in DOMAIN calls
  PROVE  From(i) \in Addresses /\ Asks(i) \in Requests /\ Asks(i).password \in Passwords
<1>1. calls[i] \in Call
  BY DEF TypeOK
<1>2. calls[i].asks \in Requests
  BY <1>1 DEF Call
<1>3. calls[i].asks \in [method : Methods, from : Addresses, password : Passwords]
  BY <1>2, RequestsAssumption
<1>4. QED
  BY <1>2, <1>3 DEF From, Asks

\* Moving a request on changes no other request.
LEMMA AtType ==
  ASSUME TypeOK, NEW i \in DOMAIN calls,
         NEW at \in {"sent", "held", "queued", "answered"}
  PROVE  /\ At(i, at) \in Seq(Call) /\ DOMAIN At(i, at) = DOMAIN calls
         /\ At(i, at)[i].at = at
         /\ \A j \in DOMAIN calls : /\ At(i, at)[j].asks = calls[j].asks
                                    /\ At(i, at)[j].ok = calls[j].ok
                                    /\ j # i => At(i, at)[j] = calls[j]
<1>1. calls \in Seq(Call) /\ calls[i] \in Call
  BY DEF TypeOK
<1>2. [calls[i] EXCEPT !.at = at] \in Call
  BY <1>1 DEF Call
<1>3. DOMAIN At(i, at) = DOMAIN calls
        /\ At(i, at) = [calls EXCEPT ![i] = [calls[i] EXCEPT !.at = at]]
  BY DEF At
<1>4. At(i, at) \in Seq(Call)
  BY <1>1, <1>2, <1>3
<1>5. QED
  BY <1>1, <1>3, <1>4 DEF Call

\* So does answering it.
LEMMA AnsweredType ==
  ASSUME TypeOK, NEW i \in DOMAIN calls, NEW ok \in BOOLEAN
  PROVE  /\ Answered(i, ok) \in Seq(Call) /\ DOMAIN Answered(i, ok) = DOMAIN calls
         /\ Answered(i, ok)[i].at = "answered" /\ Answered(i, ok)[i].ok = ok
         /\ Answered(i, ok)[i].answers = calls[i].answers + 1
         /\ \A j \in DOMAIN calls : /\ Answered(i, ok)[j].asks = calls[j].asks
                                    /\ j # i => Answered(i, ok)[j] = calls[j]
<1> DEFINE new == [calls[i] EXCEPT !.at = "answered", !.answers = @ + 1, !.ok = ok]
<1>1. calls \in Seq(Call) /\ calls[i] \in Call
  BY DEF TypeOK
<1>2. /\ new \in Call /\ new.at = "answered" /\ new.ok = ok
      /\ new.asks = calls[i].asks /\ new.answers = calls[i].answers + 1
  <2>1. ASSUME NEW n \in Nat
        PROVE  LET r == [calls[i] EXCEPT !.at = "answered", !.answers = n, !.ok = ok]
               IN  r \in Call /\ r.at = "answered" /\ r.asks = calls[i].asks
                   /\ r.answers = n
    BY <1>1 DEF Call
  <2>2. calls[i].answers + 1 \in Nat
    BY <1>1 DEF Call
  <2>3. new.ok = ok
    BY <1>1 DEF Call
  <2>4. QED
    BY <2>1, <2>2, <2>3
<1>3. DOMAIN Answered(i, ok) = DOMAIN calls
        /\ Answered(i, ok) = [calls EXCEPT ![i] = new]
  BY DEF Answered
<1> HIDE DEF new
<1>4. Answered(i, ok) \in Seq(Call)
  BY <1>1, <1>2, <1>3
<1>5. Answered(i, ok)[i] = new
  BY <1>3
<1>6. \A j \in DOMAIN calls : j # i => Answered(i, ok)[j] = calls[j]
  BY <1>3
<1>7. \A j \in DOMAIN calls : Answered(i, ok)[j].asks = calls[j].asks
  BY <1>2, <1>5, <1>6
<1>8. QED
  BY <1>2, <1>3, <1>4, <1>5, <1>6, <1>7

\* The part of the types that the handlers touch.
LocksOK ==
  /\ accounts \subseteq Addresses /\ personal_accounts \subseteq accounts
  /\ DOMAIN account_passwords \subseteq personal_accounts
  /\ \A a \in DOMAIN account_passwords : account_passwords[a] \in Passwords
  /\ DOMAIN unlocked_accounts \subseteq Addresses
  /\ \A a \in DOMAIN unlocked_accounts : unlocked_accounts[a] \in BOOLEAN
  /\ calls \in Seq(Call)
  /\ granted \subseteq Addresses /\ raced \subseteq Addresses

\* A handler keeps the types, and the requests there are.
LEMMA HandleType ==
  ASSUME TypeOK, NEW i \in DOMAIN calls,
         Handle(i) \/ Refuse(i) \/ Listening(i)
  PROVE  LocksOK' /\ DOMAIN calls' = DOMAIN calls
<1>1. From(i) \in Addresses /\ Asks(i).password \in Passwords
  BY FromType
<1>2. At(i, "queued") \in Seq(Call) /\ DOMAIN At(i, "queued") = DOMAIN calls
  BY AtType
<1>3. \A ok \in BOOLEAN : Answered(i, ok) \in Seq(Call)
                          /\ DOMAIN Answered(i, ok) = DOMAIN calls
  BY AnsweredType
<1>4. \A a \in Addresses, value \in BOOLEAN :
        /\ DOMAIN With(unlocked_accounts, a, value) \subseteq Addresses
        /\ \A b \in DOMAIN With(unlocked_accounts, a, value) :
             With(unlocked_accounts, a, value)[b] \in BOOLEAN
  BY DEF With, TypeOK
<1>5. LocksOK
  BY DEF LocksOK, TypeOK
<1>6. CASE SendTransaction(i)
  BY <1>2, <1>3, <1>5, <1>6 DEF SendTransaction, locks, LocksOK
<1>7. CASE UnlockAccount(i)
  BY <1>1, <1>3, <1>4, <1>5, <1>7 DEF UnlockAccount, LocksOK
<1>8. CASE PersonalSendTransaction(i)
  BY <1>1, <1>2, <1>3, <1>4, <1>5, <1>8 DEF PersonalSendTransaction, LocksOK
<1>9. CASE LockAccount(i)
  <2>1. DOMAIN Locked(From(i)) \subseteq Addresses
          /\ \A b \in DOMAIN Locked(From(i)) : Locked(From(i))[b] \in BOOLEAN
    BY <1>5 DEF Locked, Without, LocksOK
  <2>2. granted \ {From(i)} \subseteq Addresses /\ raced \cup {From(i)} \subseteq Addresses
    BY <1>1, <1>5 DEF LocksOK
  <2>3. calls' \in Seq(Call) /\ DOMAIN calls' = DOMAIN calls
    BY <1>3, <1>9 DEF LockAccount
  <2>4. UNCHANGED <<accounts, personal_accounts, account_passwords>>
    BY <1>9 DEF LockAccount
  <2>5. granted' \in {granted, granted \ {From(i)}}
          /\ raced' \in {raced, raced \cup {From(i)}}
          /\ unlocked_accounts' \in {unlocked_accounts, Locked(From(i))}
    BY <1>9 DEF LockAccount
  <2>6. QED
    BY <1>5, <2>1, <2>2, <2>3, <2>4, <2>5 DEF LocksOK
<1>10. CASE AddAccount(i)
  <2>1. LET passwords == With(account_passwords, From(i), Asks(i).password)
        IN  /\ DOMAIN passwords = DOMAIN account_passwords \cup {From(i)}
            /\ \A a \in DOMAIN passwords : passwords[a] \in Passwords
    BY <1>1, <1>5 DEF With, LocksOK
  <2>2. QED
    BY <1>1, <1>3, <1>5, <1>10, <2>1 DEF AddAccount, Listed, LocksOK
<1>11. CASE Refuse(i) \/ Listening(i)
  BY <1>3, <1>5, <1>11 DEF Refuse, Listening, locks, LocksOK
<1>12. QED
  BY <1>6, <1>7, <1>8, <1>9, <1>10, <1>11 DEF Handle

(* The variables of the API object have their types: an account with a     *)
(* password is one whose key is here, and a request held is one sent       *)
(* (personal_importRawKey, waitForInitialization).                         *)
THEOREM TypeCorrect == Spec => []TypeOK
<1>1. Init => TypeOK
  <2> SUFFICES ASSUME Init PROVE TypeOK
    OBVIOUS
  <2>1. PICK secure \in BOOLEAN :
          unlocked_accounts =
            [a \in UnlockedByOption \cup (IF secure THEN {} ELSE InitialAccounts) |-> TRUE]
    BY DEF Init
  <2>2. DOMAIN unlocked_accounts \subseteq Addresses
          /\ \A a \in DOMAIN unlocked_accounts : unlocked_accounts[a] = TRUE
    BY <2>1, AddressesAssumption
  <2>3. calls = <<>> /\ account_passwords = <<>> /\ immediates = <<>>
          /\ post_initialization_callbacks = <<>>
    BY DEF Init
  <2>4. calls \in Seq(Call) /\ immediates \in Seq(DOMAIN calls)
          /\ post_initialization_callbacks \in Seq(DOMAIN calls)
          /\ DOMAIN account_passwords = {}
    BY <2>3
  <2>5. QED
    BY <2>2, <2>4, AddressesAssumption DEF Init, TypeOK
<1>2. TypeOK /\ [Next]_vars => TypeOK'
  <2> SUFFICES ASSUME TypeOK, [Next]_vars PROVE TypeOK'
    OBVIOUS
  <2>1. CASE Send
    <3>1. PICK asks \in Requests :
            calls' = Append(calls, [asks |-> asks, at |-> "sent", answers |-> 0,
                                    ok |-> FALSE])
      BY <2>1 DEF Send
    <3>2. calls' \in Seq(Call) /\ DOMAIN calls \subseteq DOMAIN calls'
      BY <3>1 DEF TypeOK, Call
    <3>3. QED
      BY <2>1, <3>2 DEF Send, gate, locks, TypeOK
  <2>2. CASE Arrive
    <3>1. PICK i \in DOMAIN calls : handleRequest(i) /\ UNCHANGED ended
      BY <2>2 DEF Arrive
    <3>2. CASE Hold(i)
      BY <3>1, <3>2, AtType DEF Hold, locks, TypeOK
    <3>3. CASE UNCHANGED gate /\ (Handle(i) \/ Refuse(i) \/ Listening(i))
      BY <3>1, <3>3, HandleType DEF gate, LocksOK, TypeOK
    <3>4. QED
      BY <3>1, <3>2, <3>3 DEF handleRequest
  <2>3. CASE Initialize
    BY <2>3 DEF Initialize, Scheduled, locks, TypeOK
  <2>4. CASE RunImmediate
    <3> DEFINE i == Head(immediates)
    <3>1. i \in DOMAIN calls /\ immediates' \in Seq(DOMAIN calls)
      BY <2>4 DEF RunImmediate, TypeOK
    <3>2. Handle(i) \/ Refuse(i) \/ Listening(i)
      BY <2>4 DEF RunImmediate
    <3>3. ended' \subseteq DOMAIN calls
      BY <2>4, <3>1 DEF RunImmediate, TypeOK
    <3>4. QED
      BY <2>4, <3>1, <3>2, <3>3, HandleType DEF RunImmediate, LocksOK, TypeOK
  <2>5. CASE EndTransaction
    <3>1. PICK i \in DOMAIN calls, ok \in BOOLEAN :
            /\ calls' = Answered(i, ok)
            /\ unlocked_accounts' =
                 IF Asks(i).method = "personal_sendTransaction"
                   THEN With(unlocked_accounts, From(i), FALSE)
                   ELSE unlocked_accounts
      BY <2>5 DEF EndTransaction
    <3>2. calls' \in Seq(Call) /\ DOMAIN calls' = DOMAIN calls
      BY <3>1, AnsweredType
    <3>3. DOMAIN unlocked_accounts' \subseteq Addresses
            /\ \A a \in DOMAIN unlocked_accounts' : unlocked_accounts'[a] \in BOOLEAN
      BY <3>1, FromType DEF With, TypeOK
    <3>4. QED
      BY <2>5, <3>2, <3>3 DEF EndTransaction, gate, TypeOK
  <2>6. CASE UNCHANGED vars
    BY <2>6 DEF vars, gate, locks, TypeOK
  <2>7. QED
    BY <2>1, <2>2, <2>3, <2>4, <2>5, <2>6 DEF Next
<1>3. QED
  BY <1>1, <1>2, PTL DEF Spec
-----------------------------------------------------------------------------
\* The accounts whose locking a transaction on its way may undo are accounted for.
OnItsWayGranted ==
  \A i \in DOMAIN calls :
    calls[i].at = "queued" /\ calls[i].asks.method = "personal_sendTransaction"
      => calls[i].asks.from \in granted \cup raced

\* Handling a request moves it to "queued" or answers it, and no other.
LEMMA HandleMoves ==
  ASSUME TypeOK, NEW i \in DOMAIN calls,
         Handle(i) \/ Refuse(i) \/ Listening(i)
  PROVE  /\ DOMAIN calls' = DOMAIN calls
         /\ \A j \in DOMAIN calls : calls'[j].asks = calls[j].asks
                                    /\ (j # i => calls'[j] = calls[j])
         /\ \/ calls'[i].at = "queued" /\ calls' = At(i, "queued")
            \/ calls'[i].at = "answered" /\ \E ok \in BOOLEAN : calls' = Answered(i, ok)
<1>1. calls' = At(i, "queued") \/ \E ok \in BOOLEAN : calls' = Answered(i, ok)
  BY DEF Handle, Refuse, Listening, SendTransaction, UnlockAccount,
         PersonalSendTransaction, LockAccount, AddAccount
<1>2. CASE calls' = At(i, "queued")
  BY <1>2, AtType
<1>3. CASE \E ok \in BOOLEAN : calls' = Answered(i, ok)
  BY <1>3, AnsweredType
<1>4. QED
  BY <1>1, <1>2, <1>3

\* A handler unlocks no account whose password is not given.
LEMMA HandleKeepsLocks ==
  ASSUME TypeOK, LockedUntilUnlocked, OnItsWayGranted, NEW i \in DOMAIN calls,
         Handle(i) \/ Refuse(i) \/ Listening(i)
  PROVE  LockedUntilUnlocked' /\ OnItsWayGranted'
<1>1. /\ DOMAIN calls' = DOMAIN calls
      /\ \A j \in DOMAIN calls : calls'[j].asks = calls[j].asks
                                 /\ (j # i => calls'[j] = calls[j])
  BY HandleMoves
<1>2. CASE SendTransaction(i) \/ AddAccount(i) \/ Refuse(i) \/ Listening(i)
  <2>1. unlocked_accounts' = unlocked_accounts /\ granted' = granted /\ raced' = raced
    BY <1>2 DEF SendTransaction, AddAccount, Refuse, Listening, locks
  <2>2. calls'[i].at = "queued" => calls'[i].asks.method # "personal_sendTransaction"
    BY <1>1, <1>2, AtType, AnsweredType
       DEF SendTransaction, AddAccount, Refuse, Listening, Asks
  <2>3. QED
    BY <1>1, <2>1, <2>2 DEF LockedUntilUnlocked, MaySend, OnItsWayGranted
<1>3. CASE UnlockAccount(i)
  <2>1. calls'[i].at = "answered"
    BY <1>3, AnsweredType DEF UnlockAccount
  <2>2. QED
    BY <1>1, <1>3, <2>1
       DEF UnlockAccount, LockedUntilUnlocked, MaySend, OnItsWayGranted, With
<1>4. CASE PersonalSendTransaction(i)
  <2>1. MayUnlock(From(i), Asks(i).password) \/ calls'[i].at = "answered"
    BY <1>4, AnsweredType DEF PersonalSendTransaction
  <2>2. QED
    BY <1>1, <1>4, <2>1
       DEF PersonalSendTransaction, LockedUntilUnlocked, MaySend, OnItsWayGranted,
           With, From, Asks
<1>5. CASE LockAccount(i)
  <2>1. calls'[i].at = "answered"
    BY <1>5, AnsweredType DEF LockAccount
  <2>2. CASE From(i) \notin personal_accounts
    BY <1>1, <1>5, <2>1, <2>2
       DEF LockAccount, LockedUntilUnlocked, MaySend, OnItsWayGranted
  <2>3. CASE From(i) \in personal_accounts
    <3>1. /\ unlocked_accounts' = Without(unlocked_accounts, From(i))
          /\ granted' = granted \ {From(i)} /\ raced \subseteq raced'
          /\ OnItsWay(From(i)) => From(i) \in raced'
      BY <1>5, <2>3 DEF LockAccount, Locked
    <3>2. LockedUntilUnlocked'
      BY <3>1 DEF LockedUntilUnlocked, MaySend, Without
    <3>3. ASSUME NEW j \in DOMAIN calls, j # i, calls[j].at = "queued",
                 calls[j].asks.method = "personal_sendTransaction"
          PROVE  calls[j].asks.from \in granted' \cup raced'
      <4>1. calls[j].asks.from = From(i) => OnItsWay(From(i))
        BY <3>3 DEF OnItsWay, From, Asks
      <4>2. QED
        BY <3>1, <3>3, <4>1 DEF OnItsWayGranted
    <3>4. QED
      BY <1>1, <2>1, <3>2, <3>3 DEF OnItsWayGranted
  <2>4. QED
    BY <2>2, <2>3
<1>6. QED
  BY <1>2, <1>3, <1>4, <1>5 DEF Handle

(* An account from which a transaction is accepted was unlocked at the     *)
(* start, or had its password given since it was last locked, or was       *)
(* locked while a personal_sendTransaction of it was on its way            *)
(* (personal_lockAccount, personal_sendTransaction, queueTransaction).     *)
THEOREM LocksHold == Spec => []LockedUntilUnlocked
<1> DEFINE LInv == LockedUntilUnlocked /\ OnItsWayGranted
<1>1. Init => LInv
  BY DEF Init, LockedUntilUnlocked, MaySend, OnItsWayGranted
<1>2. TypeOK /\ LInv /\ [Next]_vars => LInv'
  <2> SUFFICES ASSUME TypeOK, LockedUntilUnlocked, OnItsWayGranted, [Next]_vars
               PROVE  LInv'
    OBVIOUS
  <2>1. CASE Send
    <3>1. PICK asks \in Requests :
            calls' = Append(calls, [asks |-> asks, at |-> "sent", answers |-> 0,
                                    ok |-> FALSE])
      BY <2>1 DEF Send
    <3>2. \A i \in DOMAIN calls' :
            calls'[i].at = "sent" \/ (i \in DOMAIN calls /\ calls'[i] = calls[i])
      BY <3>1 DEF TypeOK
    <3>3. QED
      BY <2>1, <3>2 DEF Send, locks, LockedUntilUnlocked, MaySend, OnItsWayGranted
  <2>2. CASE Arrive
    <3>1. PICK i \in DOMAIN calls : handleRequest(i)
      BY <2>2 DEF Arrive
    <3>2. CASE Hold(i)
      <4>1. /\ DOMAIN calls' = DOMAIN calls /\ calls'[i].at = "held"
            /\ \A j \in DOMAIN calls : j # i => calls'[j] = calls[j]
        BY <3>2, AtType DEF Hold
      <4>2. QED
        BY <3>2, <4>1 DEF Hold, locks, LockedUntilUnlocked, MaySend, OnItsWayGranted
    <3>3. CASE Handle(i) \/ Refuse(i) \/ Listening(i)
      BY <3>3, HandleKeepsLocks
    <3>4. QED
      BY <3>1, <3>2, <3>3 DEF handleRequest
  <2>3. CASE Initialize
    BY <2>3 DEF Initialize, locks, LockedUntilUnlocked, MaySend, OnItsWayGranted
  <2>4. CASE RunImmediate
    <3>1. Head(immediates) \in DOMAIN calls
      BY <2>4 DEF RunImmediate, TypeOK
    <3>2. QED
      BY <2>4, <3>1, HandleKeepsLocks DEF RunImmediate
  <2>5. CASE EndTransaction
    <3>1. PICK i \in DOMAIN calls, ok \in BOOLEAN :
            /\ calls[i].at = "queued"
            /\ calls' = Answered(i, ok)
            /\ unlocked_accounts' =
                 IF Asks(i).method = "personal_sendTransaction"
                   THEN With(unlocked_accounts, From(i), FALSE)
                   ELSE unlocked_accounts
      BY <2>5 DEF EndTransaction
    <3>2. granted' = granted /\ raced' = raced
      BY <2>5 DEF EndTransaction
    <3>3. LockedUntilUnlocked'
      BY <3>1, <3>2 DEF LockedUntilUnlocked, MaySend, OnItsWayGranted, With, From, Asks
    <3>4. OnItsWayGranted'
      BY <3>1, <3>2, AnsweredType DEF OnItsWayGranted
    <3>5. QED
      BY <3>3, <3>4
  <2>6. CASE UNCHANGED vars
    BY <2>6 DEF vars, locks, LockedUntilUnlocked, MaySend, OnItsWayGranted
  <2>7. QED
    BY <2>1, <2>2, <2>3, <2>4, <2>5, <2>6 DEF Next
<1>3. QED
  BY <1>1, <1>2, TypeCorrect, PTL DEF Spec
-----------------------------------------------------------------------------
\* The gate: who is in line came in order and is held, and the two lists are
\* never both in use.
Line == immediates \o post_initialization_callbacks

HeldOnes == {i \in DOMAIN calls : calls[i].at = "held"}

Increasing(s) == \A j, k \in DOMAIN s : j < k => s[j] < s[k]

GateInv ==
  /\ immediates # <<>> => initialized
  /\ post_initialization_callbacks # <<>> => ~initialized
  /\ initialization_error => initialized
  /\ \A i, j \in DOMAIN calls : i < j /\ calls[i].at = "sent" => calls[j].at = "sent"
  /\ ToSet(Line) = HeldOnes /\ Increasing(Line)

\* The held ones are the same when what moves is neither held before nor after.
LEMMA HeldSame ==
  ASSUME TypeOK, NEW i \in DOMAIN calls, calls[i].at # "held", calls'[i].at # "held",
         DOMAIN calls' = DOMAIN calls,
         \A j \in DOMAIN calls : j # i => calls'[j] = calls[j]
  PROVE  HeldOnes' = HeldOnes
BY DEF HeldOnes

\* Who came last goes to the end.
LEMMA AppendToLine ==
  ASSUME NEW s \in Seq(Nat), NEW i \in Nat, Increasing(s), \A k \in ToSet(s) : k < i
  PROVE  Increasing(Append(s, i)) /\ ToSet(Append(s, i)) = ToSet(s) \cup {i}
<1>1. Append(s, i) \in Seq(Nat) /\ DOMAIN Append(s, i) = 1..(Len(s) + 1)
        /\ Append(s, i)[Len(s) + 1] = i
        /\ \A k \in DOMAIN s : Append(s, i)[k] = s[k]
        /\ DOMAIN s = 1..Len(s) /\ Len(s) \in Nat
  OBVIOUS
<1>2. \A k \in DOMAIN s : s[k] < i
  BY DEF ToSet
<1>3. Increasing(Append(s, i))
  BY <1>1, <1>2 DEF Increasing
<1>4. ToSet(Append(s, i)) = ToSet(s) \cup {i}
  BY <1>1 DEF ToSet
<1>5. QED
  BY <1>3, <1>4

\* Who came first leaves the line, and is not in it any more.
LEMMA TailOfLine ==
  ASSUME NEW s \in Seq(Nat), s # <<>>, Increasing(s)
  PROVE  Increasing(Tail(s)) /\ ToSet(Tail(s)) = ToSet(s) \ {Head(s)}
<1>1. /\ Len(s) \in Nat /\ Len(s) > 0 /\ DOMAIN s = 1..Len(s) /\ Head(s) = s[1]
      /\ DOMAIN Tail(s) = 1..(Len(s) - 1)
      /\ \A k \in DOMAIN Tail(s) : Tail(s)[k] = s[k + 1]
      /\ \A k \in DOMAIN s : s[k] \in Nat
  OBVIOUS
<1>2. \A k \in 2..Len(s) : s[k] # Head(s) /\ k - 1 \in DOMAIN Tail(s)
                           /\ s[k] = Tail(s)[k - 1]
  BY <1>1 DEF Increasing
<1>3. Increasing(Tail(s))
  BY <1>1 DEF Increasing
<1>4. ToSet(Tail(s)) \subseteq ToSet(s) \ {Head(s)}
  <2>1. ASSUME NEW k \in DOMAIN Tail(s) PROVE Tail(s)[k] \in ToSet(s) \ {Head(s)}
    <3>1. k + 1 \in 2..Len(s) /\ Tail(s)[k] = s[k + 1]
      BY <1>1, <2>1
    <3>2. QED
      BY <1>1, <1>2, <3>1 DEF ToSet
  <2>2. QED
    BY <2>1 DEF ToSet
<1>5. ToSet(s) \ {Head(s)} \subseteq ToSet(Tail(s))
  <2>1. ASSUME NEW k \in DOMAIN s, s[k] # Head(s) PROVE s[k] \in ToSet(Tail(s))
    <3>1. k \in 2..Len(s)
      BY <1>1, <2>1
    <3>2. QED
      BY <1>2, <3>1 DEF ToSet
  <2>2. QED
    BY <2>1 DEF ToSet
<1>6. QED
  BY <1>3, <1>4, <1>5

THEOREM GateKept == Spec => []GateInv
<1>1. Init => GateInv
  <2> SUFFICES ASSUME Init PROVE GateInv
    OBVIOUS
  <2>1. immediates = <<>> /\ post_initialization_callbacks = <<>> /\ calls = <<>>
          /\ initialized = FALSE /\ initialization_error = FALSE
    BY DEF Init
  <2>2. Line = <<>> /\ DOMAIN calls = {}
    BY <2>1 DEF Line
  <2>3. ToSet(Line) = {} /\ HeldOnes = {} /\ Increasing(Line)
    BY <2>2 DEF ToSet, HeldOnes, Increasing
  <2>4. QED
    BY <2>1, <2>2, <2>3 DEF GateInv
<1>2. TypeOK /\ TypeOK' /\ GateInv /\ [Next]_vars => GateInv'
  <2> SUFFICES ASSUME TypeOK, TypeOK', GateInv, [Next]_vars PROVE GateInv'
    OBVIOUS
  <2>0. Line \in Seq(Nat) /\ DOMAIN calls = 1..Len(calls) /\ Len(calls) \in Nat
          /\ immediates \in Seq(Nat) /\ post_initialization_callbacks \in Seq(Nat)
    BY DEF TypeOK, Line
  <2>1. CASE Send
    <3>1. PICK asks \in Requests :
            calls' = Append(calls, [asks |-> asks, at |-> "sent", answers |-> 0,
                                    ok |-> FALSE])
      BY <2>1 DEF Send
    <3>2. /\ DOMAIN calls' = 1..(Len(calls) + 1) /\ calls'[Len(calls) + 1].at = "sent"
          /\ \A i \in DOMAIN calls : calls'[i] = calls[i]
      BY <3>1 DEF TypeOK
    <3>3. HeldOnes' = HeldOnes
      BY <2>0, <3>2 DEF HeldOnes
    <3>4. \A i, j \in DOMAIN calls' :
            i < j /\ calls'[i].at = "sent" => calls'[j].at = "sent"
      BY <2>0, <3>2 DEF GateInv
    <3>5. UNCHANGED <<initialized, initialization_error, immediates,
                      post_initialization_callbacks>>
      BY <2>1 DEF Send, gate
    <3>6. QED
      BY <3>3, <3>4, <3>5 DEF GateInv, Line
  <2>2. CASE Arrive
    <3>1. PICK i \in DOMAIN calls :
            /\ calls[i].at = "sent" /\ \A j \in 1..(i - 1) : calls[j].at # "sent"
            /\ handleRequest(i)
      BY <2>2 DEF Arrive
    <3>2. CASE Hold(i) /\ ~initialization_error
      <4>1. /\ DOMAIN calls' = DOMAIN calls /\ calls'[i].at = "held"
            /\ \A j \in DOMAIN calls : j # i => calls'[j] = calls[j]
        BY <3>2, AtType DEF Hold
      <4>2. HeldOnes' = HeldOnes \cup {i}
        BY <4>1 DEF HeldOnes
      <4>3. immediates = <<>> /\ immediates' = <<>> /\ ~initialized
              /\ post_initialization_callbacks' = Append(post_initialization_callbacks, i)
        BY <3>2 DEF Hold, Held, GateInv
      <4>4. Line = post_initialization_callbacks /\ Line' = Append(Line, i)
        BY <4>3, <2>0 DEF Line
      <4>5. \A k \in ToSet(Line) : k < i
        <5>1. \A k \in HeldOnes : calls[k].at # "sent" /\ k \in Nat
          BY <2>0 DEF HeldOnes
        <5>2. \A k \in HeldOnes : ~(i < k) /\ k # i
          BY <3>1, <5>1 DEF GateInv, HeldOnes
        <5>3. QED
          BY <2>0, <5>1, <5>2 DEF GateInv
      <4>6. Increasing(Line') /\ ToSet(Line') = ToSet(Line) \cup {i}
        <5>1. i \in Nat /\ Increasing(Line)
          BY <2>0 DEF GateInv
        <5>2. QED
          BY <2>0, <4>4, <4>5, <5>1, AppendToLine
      <4>7. \A k, j \in DOMAIN calls' :
              k < j /\ calls'[k].at = "sent" => calls'[j].at = "sent"
        <5>1. ASSUME NEW k \in DOMAIN calls, NEW j \in DOMAIN calls, k < j,
                     calls'[k].at = "sent"
              PROVE  calls'[j].at = "sent"
          <6>1. k # i /\ calls[k].at = "sent"
            BY <4>1, <5>1
          <6>2. i < k
            BY <2>0, <3>1, <5>1, <6>1
          <6>3. j # i /\ calls[j].at = "sent"
            BY <2>0, <5>1, <6>1, <6>2 DEF GateInv
          <6>4. QED
            BY <4>1, <6>3
        <5>2. QED
          BY <4>1, <5>1
      <4>8. QED
        BY <3>2, <4>2, <4>3, <4>6, <4>7 DEF Hold, GateInv
    <3>3. CASE UNCHANGED gate /\ (Handle(i) \/ Refuse(i) \/ Listening(i))
      <4>1. /\ DOMAIN calls' = DOMAIN calls /\ calls'[i].at \in {"queued", "answered"}
            /\ \A j \in DOMAIN calls : j # i => calls'[j] = calls[j]
        BY <3>3, HandleMoves
      <4>2. HeldOnes' = HeldOnes
        BY <3>1, <4>1, HeldSame
      <4>3. \A k, j \in DOMAIN calls' :
              k < j /\ calls'[k].at = "sent" => calls'[j].at = "sent"
        <5>1. ASSUME NEW k \in DOMAIN calls, NEW j \in DOMAIN calls, k < j,
                     calls'[k].at = "sent"
              PROVE  calls'[j].at = "sent"
          <6>1. k # i /\ calls[k].at = "sent"
            BY <4>1, <5>1
          <6>2. i < k
            BY <2>0, <3>1, <5>1, <6>1
          <6>3. j # i /\ calls[j].at = "sent"
            BY <2>0, <5>1, <6>1, <6>2 DEF GateInv
          <6>4. QED
            BY <4>1, <6>3
        <5>2. QED
          BY <4>1, <5>1
      <4>4. QED
        BY <3>3, <4>2, <4>3 DEF GateInv, Line, gate
    <3>4. QED
      BY <3>1, <3>2, <3>3 DEF handleRequest
  <2>3. CASE Initialize
    <3>1. /\ immediates = <<>> /\ immediates' = post_initialization_callbacks
          /\ post_initialization_callbacks' = <<>> /\ initialized' = TRUE
          /\ calls' = calls
      BY <2>3 DEF Initialize, Scheduled, GateInv
    <3>2. Line' = Line
      BY <2>0, <3>1 DEF Line
    <3>3. QED
      BY <3>1, <3>2 DEF GateInv, HeldOnes
  <2>4. CASE RunImmediate
    <3> DEFINE i == Head(immediates)
    <3>1. /\ immediates # <<>> /\ initialized /\ post_initialization_callbacks = <<>>
          /\ immediates' = Tail(immediates)
          /\ UNCHANGED <<initialized, initialization_error, post_initialization_callbacks>>
          /\ Handle(i) \/ Refuse(i) \/ Listening(i)
      BY <2>4 DEF RunImmediate, GateInv
    <3>2. Line = immediates /\ Line' = Tail(Line)
      BY <2>0, <3>1 DEF Line
    <3>3. i \in HeldOnes
      BY <2>0, <3>1, <3>2 DEF GateInv, ToSet
    <3>4. /\ DOMAIN calls' = DOMAIN calls /\ calls'[i].at \in {"queued", "answered"}
          /\ \A j \in DOMAIN calls : j # i => calls'[j] = calls[j]
      BY <3>1, <3>3, HandleMoves DEF HeldOnes
    <3>5. HeldOnes' = HeldOnes \ {i}
      BY <3>4 DEF HeldOnes
    <3>6. Increasing(Line') /\ ToSet(Line') = ToSet(Line) \ {i}
      BY <2>0, <3>1, <3>2, TailOfLine DEF GateInv
    <3>7. \A k, j \in DOMAIN calls' :
            k < j /\ calls'[k].at = "sent" => calls'[j].at = "sent"
      BY <3>3, <3>4 DEF GateInv, HeldOnes
    <3>8. QED
      BY <3>1, <3>5, <3>6, <3>7 DEF GateInv
  <2>5. CASE EndTransaction
    <3>1. PICK i \in DOMAIN calls, ok \in BOOLEAN :
            calls[i].at = "queued" /\ calls' = Answered(i, ok)
      BY <2>5 DEF EndTransaction
    <3>2. /\ DOMAIN calls' = DOMAIN calls /\ calls'[i].at = "answered"
          /\ \A j \in DOMAIN calls : j # i => calls'[j] = calls[j]
      BY <3>1, AnsweredType
    <3>3. HeldOnes' = HeldOnes
      BY <3>1, <3>2, HeldSame
    <3>4. \A k, j \in DOMAIN calls' :
            k < j /\ calls'[k].at = "sent" => calls'[j].at = "sent"
      BY <3>1, <3>2 DEF GateInv
    <3>5. QED
      BY <2>5, <3>3, <3>4 DEF EndTransaction, GateInv, Line, gate
  <2>6. CASE UNCHANGED vars
    BY <2>6 DEF vars, gate, GateInv, Line, HeldOnes
  <2>7. QED
    BY <2>1, <2>2, <2>3, <2>4, <2>5, <2>6 DEF Next
<1>3. QED
  BY <1>1, <1>2, TypeCorrect, PTL DEF Spec

(* A request held is in the list of the gate or among the immediates, once, *)
(* and those are in the order in which the requests came, however many come *)
(* before the node is ready (waitForInitialization, initialize).            *)
THEOREM HeldInOrder == Spec => []HeldOnceInOrder
<1>1. GateInv => HeldOnceInOrder
  BY DEF GateInv, HeldOnceInOrder, Line, HeldOnes, Increasing
<1>2. QED
  BY <1>1, GateKept, PTL

(* Nothing touches the accounts before the node is ready, nor when it failed *)
(* to start (handleRequest, getDelayedHandler).                              *)
THEOREM ReadyFirst == Spec => []NothingBeforeReady
<1> DEFINE Touched(i) == calls[i].at = "queued" \/ calls[i].ok
<1>1. Init => NothingBeforeReady
  BY DEF Init, NothingBeforeReady
<1>2. TypeOK /\ GateInv /\ NothingBeforeReady /\ [Next]_vars => NothingBeforeReady'
  <2> SUFFICES ASSUME TypeOK, GateInv, NothingBeforeReady, [Next]_vars
               PROVE  NothingBeforeReady'
    OBVIOUS
  <2>1. CASE Send
    <3>1. PICK asks \in Requests :
            calls' = Append(calls, [asks |-> asks, at |-> "sent", answers |-> 0,
                                    ok |-> FALSE])
      BY <2>1 DEF Send
    <3>2. \A i \in DOMAIN calls' :
            (calls'[i].at = "sent" /\ calls'[i].ok = FALSE)
              \/ (i \in DOMAIN calls /\ calls'[i] = calls[i])
      BY <3>1 DEF TypeOK
    <3>3. UNCHANGED <<initialized, initialization_error>>
      BY <2>1 DEF Send, gate
    <3>4. QED
      BY <3>2, <3>3 DEF NothingBeforeReady
  <2>2. CASE Arrive
    <3>1. PICK i \in DOMAIN calls : handleRequest(i)
      BY <2>2 DEF Arrive
    <3>2. UNCHANGED <<initialized, initialization_error>>
      BY <3>1 DEF handleRequest, Hold, gate
    <3>3. CASE initialized /\ ~initialization_error
      BY <3>2, <3>3 DEF NothingBeforeReady
    <3>4. CASE Hold(i)
      <4>1. /\ DOMAIN calls' = DOMAIN calls /\ calls'[i].at = "held"
            /\ \A j \in DOMAIN calls : calls'[j].ok = calls[j].ok
                                       /\ (j # i => calls'[j] = calls[j])
        BY <3>4, AtType DEF Hold
      <4>2. QED
        BY <3>2, <4>1 DEF NothingBeforeReady
    <3>5. CASE Refuse(i)
      <4>1. /\ DOMAIN calls' = DOMAIN calls
            /\ calls'[i].at = "answered" /\ calls'[i].ok = FALSE
            /\ \A j \in DOMAIN calls : j # i => calls'[j] = calls[j]
        BY <3>5, AnsweredType DEF Refuse
      <4>2. QED
        BY <3>2, <4>1 DEF NothingBeforeReady
    <3>6. QED
      BY <3>1, <3>3, <3>4, <3>5 DEF handleRequest, Held
  <2>3. CASE Initialize
    <3>1. ~initialized /\ calls' = calls
      BY <2>3 DEF Initialize
    <3>2. QED
      BY <3>1 DEF NothingBeforeReady
  <2>4. CASE RunImmediate
    <3> DEFINE i == Head(immediates)
    <3>1. /\ initialized /\ UNCHANGED <<initialized, initialization_error>>
          /\ Refuse(i) \/ ~initialization_error
      BY <2>4 DEF RunImmediate, GateInv
    <3>2. CASE ~initialization_error
      BY <3>1, <3>2 DEF NothingBeforeReady
    <3>3. CASE Refuse(i)
      <4>1. i \in DOMAIN calls
        BY <2>4 DEF RunImmediate, TypeOK
      <4>2. /\ DOMAIN calls' = DOMAIN calls
            /\ calls'[i].at = "answered" /\ calls'[i].ok = FALSE
            /\ \A j \in DOMAIN calls : j # i => calls'[j] = calls[j]
        BY <3>3, <4>1, AnsweredType DEF Refuse
      <4>3. QED
        BY <3>1, <4>2 DEF NothingBeforeReady
    <3>4. QED
      BY <3>1, <3>2, <3>3
  <2>5. CASE EndTransaction
    <3>1. \E i \in DOMAIN calls : calls[i].at = "queued"
      BY <2>5 DEF EndTransaction
    <3>2. UNCHANGED <<initialized, initialization_error>>
      BY <2>5 DEF EndTransaction, gate
    <3>3. QED
      BY <3>1, <3>2 DEF NothingBeforeReady
  <2>6. CASE UNCHANGED vars
    BY <2>6 DEF vars, gate, NothingBeforeReady
  <2>7. QED
    BY <2>1, <2>2, <2>3, <2>4, <2>5, <2>6 DEF Next
<1>3. QED
  BY <1>1, <1>2, TypeCorrect, GateKept, PTL DEF Spec
-----------------------------------------------------------------------------
\* A request has been answered by its handler or not, and before that only when
\* the start failed.
AnswersInv ==
  /\ \A i \in DOMAIN calls :
       calls[i].answers = IF calls[i].at = "answered" THEN 1 ELSE 0
  /\ \A i \in ended : initialization_error /\ calls[i].at = "answered"

\* A request not answered yet is answered once by what moves it.
LEMMA AnswersCount ==
  ASSUME TypeOK, AnswersInv, NEW i \in DOMAIN calls, calls[i].at # "answered",
         calls' = At(i, "queued") \/ calls' = At(i, "held")
           \/ \E ok \in BOOLEAN : calls' = Answered(i, ok)
  PROVE  \A j \in DOMAIN calls' :
           calls'[j].answers = IF calls'[j].at = "answered" THEN 1 ELSE 0
<1>1. calls[i] \in Call /\ calls[i].answers = 0 /\ i \in DOMAIN calls
  BY DEF TypeOK, AnswersInv
<1>2. ASSUME NEW at \in {"queued", "held"}
      PROVE  /\ DOMAIN At(i, at) = DOMAIN calls
             /\ At(i, at)[i].answers = 0 /\ At(i, at)[i].at = at
             /\ \A j \in DOMAIN calls : j # i => At(i, at)[j] = calls[j]
  BY <1>1 DEF At, Call
<1>3. ASSUME NEW ok \in BOOLEAN
      PROVE  /\ DOMAIN Answered(i, ok) = DOMAIN calls
             /\ Answered(i, ok)[i].answers = 1 /\ Answered(i, ok)[i].at = "answered"
             /\ \A j \in DOMAIN calls : j # i => Answered(i, ok)[j] = calls[j]
  BY <1>1, AnsweredType
<1>4. CASE \E at \in {"queued", "held"} : calls' = At(i, at)
  BY <1>2, <1>4 DEF AnswersInv
<1>5. CASE \E ok \in BOOLEAN : calls' = Answered(i, ok)
  BY <1>3, <1>5 DEF AnswersInv
<1>6. QED
  BY <1>4, <1>5

(* A request is called back when it is answered and not before, and once,   *)
(* unless the start failed, when those held then are called back twice      *)
(* (getDelayedHandler, personal_sendTransaction).                           *)
THEOREM CalledBackOnce == Spec => []AnsweredOnce
<1>1. Init => AnswersInv
  BY DEF Init, AnswersInv
<1>2. TypeOK /\ GateInv /\ AnswersInv /\ [Next]_vars => AnswersInv'
  <2> SUFFICES ASSUME TypeOK, GateInv, AnswersInv, [Next]_vars PROVE AnswersInv'
    OBVIOUS
  <2>1. CASE Send
    <3>1. PICK asks \in Requests :
            calls' = Append(calls, [asks |-> asks, at |-> "sent", answers |-> 0,
                                    ok |-> FALSE])
      BY <2>1 DEF Send
    <3>2. \A i \in DOMAIN calls' :
            (calls'[i].at = "sent" /\ calls'[i].answers = 0)
              \/ (i \in DOMAIN calls /\ calls'[i] = calls[i])
      BY <3>1 DEF TypeOK
    <3>3. \A i \in DOMAIN calls : calls'[i] = calls[i]
      BY <3>1 DEF TypeOK
    <3>4. UNCHANGED <<ended, initialization_error>>
      BY <2>1 DEF Send, gate
    <3>5. QED
      BY <3>2, <3>3, <3>4 DEF AnswersInv, TypeOK
  <2>2. CASE Arrive
    <3>1. PICK i \in DOMAIN calls :
            calls[i].at = "sent" /\ handleRequest(i) /\ ended' = ended
      BY <2>2 DEF Arrive
    <3>2. initialization_error' = initialization_error
      BY <3>1 DEF handleRequest, Hold, gate
    <3>3. /\ calls' = At(i, "queued") \/ calls' = At(i, "held")
               \/ \E ok \in BOOLEAN : calls' = Answered(i, ok)
          /\ \A j \in DOMAIN calls : j # i => calls'[j] = calls[j]
      BY <3>1, HandleMoves, AtType DEF handleRequest, Hold
    <3>4. i \notin ended
      BY <3>1 DEF AnswersInv
    <3>5. QED
      BY <3>1, <3>2, <3>3, <3>4, AnswersCount DEF AnswersInv, TypeOK
  <2>3. CASE Initialize
    <3>1. ~initialization_error /\ calls' = calls /\ ended' = ended
      BY <2>3 DEF Initialize, GateInv
    <3>2. QED
      BY <3>1 DEF AnswersInv
  <2>4. CASE RunImmediate
    <3> DEFINE i == Head(immediates)
    <3>1. i \in DOMAIN calls /\ i \in ToSet(immediates)
      BY <2>4 DEF RunImmediate, TypeOK, ToSet
    <3>2. calls[i].at = "held"
      <4>1. post_initialization_callbacks = <<>>
        BY <2>4 DEF RunImmediate, GateInv
      <4>2. Line = immediates
        BY <4>1 DEF Line, TypeOK
      <4>3. QED
        BY <3>1, <4>2 DEF GateInv, HeldOnes
    <3>3. /\ DOMAIN calls' = DOMAIN calls
          /\ calls' = At(i, "queued") \/ \E ok \in BOOLEAN : calls' = Answered(i, ok)
          /\ \A j \in DOMAIN calls : j # i => calls'[j] = calls[j]
      BY <2>4, <3>1, HandleMoves DEF RunImmediate
    <3>4. \A j \in DOMAIN calls' :
            calls'[j].answers = IF calls'[j].at = "answered" THEN 1 ELSE 0
      BY <3>1, <3>2, <3>3, AnswersCount
    <3>5. initialization_error' = initialization_error
      BY <2>4 DEF RunImmediate
    <3>6. CASE EndsFirst(i)
      <4>1. ended' = ended \cup {i} /\ initialization_error /\ Refuse(i)
        BY <2>4, <3>6 DEF RunImmediate, EndsFirst
      <4>2. calls'[i].at = "answered"
        BY <3>1, <4>1, AnsweredType DEF Refuse
      <4>3. QED
        BY <3>3, <3>4, <3>5, <4>1, <4>2 DEF AnswersInv, TypeOK
    <3>7. CASE ~EndsFirst(i)
      <4>1. ended' = ended /\ i \notin ended
        BY <2>4, <3>2, <3>7 DEF RunImmediate, AnswersInv
      <4>2. QED
        BY <3>3, <3>4, <3>5, <4>1 DEF AnswersInv, TypeOK
    <3>8. QED
      BY <3>6, <3>7
  <2>5. CASE EndTransaction
    <3>1. PICK i \in DOMAIN calls, ok \in BOOLEAN :
            calls[i].at = "queued" /\ calls' = Answered(i, ok)
      BY <2>5 DEF EndTransaction
    <3>2. \A j \in DOMAIN calls : j # i => calls'[j] = calls[j]
      BY <3>1, AnsweredType
    <3>3. i \notin ended /\ UNCHANGED <<ended, initialization_error>>
      BY <2>5, <3>1 DEF EndTransaction, gate, AnswersInv
    <3>4. QED
      BY <3>1, <3>2, <3>3, AnswersCount DEF AnswersInv, TypeOK
  <2>6. CASE UNCHANGED vars
    BY <2>6 DEF vars, gate, AnswersInv
  <2>7. QED
    BY <2>1, <2>2, <2>3, <2>4, <2>5, <2>6 DEF Next
<1>3. TypeOK /\ AnswersInv => AnsweredOnce
  <2> SUFFICES ASSUME TypeOK, AnswersInv, NEW i \in DOMAIN calls
               PROVE  /\ Callbacks(i) > 0 <=> calls[i].at = "answered"
                      /\ Callbacks(i) <= IF initialization_error THEN 2 ELSE 1
    BY DEF AnsweredOnce
  <2>1. CASE i \in ended
    BY <2>1 DEF AnswersInv, Callbacks
  <2>2. CASE i \notin ended
    BY <2>2 DEF AnswersInv, Callbacks
  <2>3. QED
    BY <2>1, <2>2
<1>4. QED
  BY <1>1, <1>2, <1>3, TypeCorrect, GateKept, PTL DEF Spec
===============================================================================
