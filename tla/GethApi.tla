------------------------------- MODULE GethApi -------------------------------
(***************************************************************************)
(* The API object of the node (lib/subproviders/geth_api_double.js): it    *)
(* holds requests until the state manager is initialized, and it keeps the *)
(* locks of the accounts, which decide whether a transaction is accepted   *)
(* (queueTransaction of lib/statemanager.js).  Execution of a transaction  *)
(* is one step that may come any time later; ActionQueue has its turns.    *)
(*                                                                         *)
(* A definition just before another with the same parameters, and not used *)
(* by any other, is a fault the code might have: PROJECT.json pairs them,  *)
(* and README.md says which property each must break.                      *)
(***************************************************************************)
EXTENDS Integers, SequencesExt

CONSTANTS
  Addresses,      \* accounts, lower case
  Passwords,
  InitialAccounts,\* made by initialize, without a password
  UnlockedByOption, \* options.unlocked_accounts, indices resolved
  Requests,       \* what clients may ask: [method, from, password]
  Overlapping,    \* asyncRequestProcessing, or the calls of one batch
  MaxRequests     \* bound: requests ever sent

Methods ==
  {"eth_sendTransaction", "personal_sendTransaction", "personal_unlockAccount",
   "personal_lockAccount", "personal_importRawKey", "listen"}

ASSUME AddressesAssumption ==
  InitialAccounts \subseteq Addresses /\ UnlockedByOption \subseteq Addresses
ASSUME RequestsAssumption ==
  Requests \subseteq [method : Methods, from : Addresses, password : Passwords]
ASSUME OverlappingAssumption == Overlapping \in BOOLEAN
ASSUME BoundAssumption == MaxRequests \in Nat

VARIABLES
  initialized,
  initialization_error,
  post_initialization_callbacks,   \* the requests held, first come first
  immediates,                      \* those scheduled when initialize ended
  accounts,                        \* the addresses with a private key here
  personal_accounts,
  account_passwords,               \* the passwords stored, by address
  unlocked_accounts,               \* a value by address; any value unlocks
  calls,                           \* the requests sent, [asks, at, answers, ok]
  granted,   \* history: unlocked from the start, or the password given since the last lock
  ended,     \* history: the held requests that were answered before they were handled
  raced      \* history: locked while a personal_sendTransaction was on its way

gate == <<initialized, initialization_error, post_initialization_callbacks, immediates>>
locks == <<accounts, personal_accounts, account_passwords, unlocked_accounts>>
vars == <<gate, locks, calls, granted, raced, ended>>
-----------------------------------------------------------------------------
\* options.secure locks the initial accounts, but for those the options unlock.
Init ==
  /\ initialized = FALSE /\ initialization_error = FALSE
  /\ post_initialization_callbacks = <<>> /\ immediates = <<>>
  /\ accounts = InitialAccounts /\ personal_accounts = InitialAccounts
  /\ account_passwords = <<>>
  /\ \E secure \in BOOLEAN :
       unlocked_accounts =
         [a \in UnlockedByOption \cup (IF secure THEN {} ELSE InitialAccounts) |-> TRUE]
  /\ calls = <<>>
  /\ granted = DOMAIN unlocked_accounts
  /\ raced = {} /\ ended = {}

With(f, a, value) == [b \in DOMAIN f \cup {a} |-> IF b = a THEN value ELSE f[b]]
Without(f, a) == [b \in DOMAIN f \ {a} |-> f[b]]

Asks(i) == calls[i].asks
From(i) == Asks(i).from
At(i, at) == [calls EXCEPT ![i].at = at]

\* The callback of the request is called.
Answered(i, ok) ==
  [calls EXCEPT ![i].at = "answered", ![i].answers = @ + 1, ![i].ok = ok]
-----------------------------------------------------------------------------
(* The locks.                                                               *)

\* queueTransaction: any value in unlocked_accounts will do, false too.
MaySend(a) == a \in DOMAIN unlocked_accounts

\* personal_unlockAccount: an account without a stored password takes any.
MayUnlock(a, password) ==
  /\ a \in personal_accounts
  /\ a \in DOMAIN account_passwords => account_passwords[a] = password

SendTransaction(i) ==
  /\ Asks(i).method = "eth_sendTransaction"
  /\ calls' = IF MaySend(From(i)) THEN At(i, "queued") ELSE Answered(i, FALSE)
  /\ UNCHANGED <<locks, granted, raced>>

UnlockAccount(i) ==
  /\ Asks(i).method = "personal_unlockAccount"
  /\ LET a == From(i)
     IN  IF MayUnlock(a, Asks(i).password)
           THEN /\ unlocked_accounts' = With(unlocked_accounts, a, TRUE)
                /\ granted' = granted \cup {a}
                /\ calls' = Answered(i, TRUE)
           ELSE calls' = Answered(i, FALSE) /\ UNCHANGED <<unlocked_accounts, granted>>
  /\ UNCHANGED <<accounts, personal_accounts, account_passwords, raced>>

\* It unlocks the account, queues the transaction, and stores false when that ends.
PersonalSendTransaction(i) ==
  /\ Asks(i).method = "personal_sendTransaction"
  /\ LET a == From(i)
     IN  IF MayUnlock(a, Asks(i).password)
           THEN /\ unlocked_accounts' = With(unlocked_accounts, a, TRUE)
                /\ granted' = granted \cup {a}
                /\ calls' = At(i, "queued")
           ELSE calls' = Answered(i, FALSE) /\ UNCHANGED <<unlocked_accounts, granted>>
  /\ UNCHANGED <<accounts, personal_accounts, account_passwords, raced>>

OnItsWay(a) ==
  \E i \in DOMAIN calls : /\ calls[i].at = "queued" /\ From(i) = a
                          /\ Asks(i).method = "personal_sendTransaction"

StoresFalse(a) == With(unlocked_accounts, a, FALSE)
Locked(a) == Without(unlocked_accounts, a)

LockAccount(i) ==
  /\ Asks(i).method = "personal_lockAccount"
  /\ LET a == From(i)
     IN  IF a \in personal_accounts
           THEN /\ unlocked_accounts' = Locked(a)
                /\ granted' = granted \ {a}
                /\ raced' = IF OnItsWay(a) THEN raced \cup {a} ELSE raced
                /\ calls' = Answered(i, TRUE)
           ELSE /\ calls' = Answered(i, FALSE)
                /\ UNCHANGED <<unlocked_accounts, granted, raced>>
  /\ UNCHANGED <<accounts, personal_accounts, account_passwords>>

Listed(a) == personal_accounts \cup {a}

\* An account that is here already gets the new password and stays as it is.
\* personal_newAccount is the same with a key nobody has yet.
AddAccount(i) ==
  /\ Asks(i).method = "personal_importRawKey"
  /\ accounts' = accounts \cup {From(i)}
  /\ personal_accounts' = Listed(From(i))
  /\ account_passwords' = With(account_passwords, From(i), Asks(i).password)
  /\ calls' = Answered(i, TRUE)
  /\ UNCHANGED <<unlocked_accounts, granted, raced>>

Handle(i) ==
  \/ SendTransaction(i) \/ PersonalSendTransaction(i)
  \/ UnlockAccount(i) \/ LockAccount(i) \/ AddAccount(i)

\* A transaction was executed, or put into the pool, or refused.
EndTransaction ==
  /\ \E i \in DOMAIN calls, ok \in BOOLEAN :
       /\ calls[i].at = "queued"
       /\ calls' = Answered(i, ok)
       /\ unlocked_accounts' =
            IF Asks(i).method = "personal_sendTransaction"
              THEN With(unlocked_accounts, From(i), FALSE) ELSE unlocked_accounts
  /\ UNCHANGED <<gate, accounts, personal_accounts, account_passwords, granted, raced, ended>>
-----------------------------------------------------------------------------
(* The gate.                                                                *)

\* Requests come one at a time unless they overlap; listen is not a request.
MayCome(asks) ==
  /\ Len(calls) < MaxRequests
  /\ \/ Overlapping \/ asks.method = "listen"
     \/ \A i \in DOMAIN calls : Asks(i).method # "listen" => calls[i].at = "answered"

Send ==
  \E asks \in Requests :
    /\ MayCome(asks)
    /\ calls' = Append(calls, [asks |-> asks, at |-> "sent", answers |-> 0, ok |-> FALSE])
    /\ UNCHANGED <<gate, locks, granted, raced, ended>>

Refuse(i) ==
  /\ initialization_error
  /\ calls' = Answered(i, FALSE)
  /\ UNCHANGED <<locks, granted, raced>>

Held == ~initialized

Hold(i) ==
  /\ Held
  /\ post_initialization_callbacks' = Append(post_initialization_callbacks, i)
  /\ calls' = At(i, "held")
  /\ UNCHANGED <<initialized, initialization_error, immediates, locks, granted, raced>>

\* Listen is called back when the node is ready.
Listening(i) ==
  /\ Asks(i).method = "listen"
  /\ calls' = Answered(i, TRUE)
  /\ UNCHANGED <<locks, granted, raced>>

\* handleRequest, and waitForInitialization for listen.
handleRequest(i) ==
  \/ Refuse(i) /\ UNCHANGED gate
  \/ ~initialization_error /\ Hold(i)
  \/ ~initialization_error /\ ~Held /\ UNCHANGED gate /\ (Handle(i) \/ Listening(i))

\* The engine passes requests on in the order they were sent in.
Arrive ==
  \E i \in DOMAIN calls :
    /\ calls[i].at = "sent" /\ \A j \in 1..(i - 1) : calls[j].at # "sent"
    /\ handleRequest(i)
    /\ UNCHANGED ended

LastComesFirst == Reverse(post_initialization_callbacks)
ScheduledOnSuccess == IF initialization_error' THEN <<>> ELSE post_initialization_callbacks
Scheduled == post_initialization_callbacks

\* The callback of state.initialize.
Initialize ==
  /\ ~initialized
  /\ initialized' = TRUE /\ initialization_error' \in BOOLEAN
  /\ post_initialization_callbacks' = <<>>
  /\ immediates' = Scheduled
  /\ UNCHANGED <<locks, calls, granted, raced, ended>>

EndsAnyway(i) == Asks(i).method # "listen"
EndsFirst(i) == Asks(i).method # "listen" /\ initialization_error

\* getDelayedHandler: an error is answered, and the request handled all the same.
RunImmediate ==
  /\ immediates # <<>>
  /\ LET i == Head(immediates)
     IN  /\ ended' = IF EndsFirst(i) THEN ended \cup {i} ELSE ended
         /\ \/ Refuse(i)
            \/ ~initialization_error /\ (Handle(i) \/ Listening(i))
  /\ immediates' = Tail(immediates)
  /\ UNCHANGED <<initialized, initialization_error, post_initialization_callbacks>>

Next == Send \/ Arrive \/ Initialize \/ RunImmediate \/ EndTransaction

Spec == Init /\ [][Next]_vars

\* What the event loop holds runs; the state manager calls back, and so does
\* every transaction (EveryCallEnds of ActionQueue).
FairSpec ==
  /\ Spec
  /\ WF_vars(Arrive) /\ WF_vars(Initialize) /\ WF_vars(RunImmediate)
  /\ WF_vars(EndTransaction)
-----------------------------------------------------------------------------
Call == [asks : Requests, at : {"sent", "held", "queued", "answered"},
         answers : Nat, ok : BOOLEAN]

\* The variables have their types.
TypeOK ==
  /\ initialized \in BOOLEAN /\ initialization_error \in BOOLEAN
  /\ post_initialization_callbacks \in Seq(DOMAIN calls)
  /\ immediates \in Seq(DOMAIN calls)
  /\ accounts \subseteq Addresses /\ personal_accounts \subseteq accounts
  /\ DOMAIN account_passwords \subseteq personal_accounts
  /\ \A a \in DOMAIN account_passwords : account_passwords[a] \in Passwords
  /\ DOMAIN unlocked_accounts \subseteq Addresses
  /\ \A a \in DOMAIN unlocked_accounts : unlocked_accounts[a] \in BOOLEAN
  /\ calls \in Seq(Call)
  /\ granted \subseteq Addresses /\ raced \subseteq Addresses
  /\ ended \subseteq DOMAIN calls

(* An account from which a transaction is accepted was unlocked from the    *)
(* start, or its password was given since it was last locked, or it was     *)
(* locked while a personal_sendTransaction of it was on its way, whose end  *)
(* stores a value again (personal_lockAccount, personal_sendTransaction,    *)
(* queueTransaction).                                                       *)
LockedUntilUnlocked == \A a \in Addresses : MaySend(a) => a \in granted \cup raced

(* A request held is in the list of the gate or among the immediates, once, *)
(* and those are in the order in which the requests came                    *)
(* (waitForInitialization, initialize).                                     *)
HeldOnceInOrder ==
  LET line == immediates \o post_initialization_callbacks
  IN  /\ ToSet(line) = {i \in DOMAIN calls : calls[i].at = "held"}
      /\ \A j, k \in DOMAIN line : j < k => line[j] < line[k]

(* Nothing touches the accounts before the node is ready, nor when it       *)
(* failed to start: no request is queued or granted (handleRequest).        *)
NothingBeforeReady ==
  (\E i \in DOMAIN calls : calls[i].at = "queued" \/ calls[i].ok)
    => initialized /\ ~initialization_error

\* How often the callback of a request has been called.
Callbacks(i) == calls[i].answers + IF i \in ended THEN 1 ELSE 0

(* A request is called back when it is answered and not before, and once,   *)
(* unless the start failed: those held then are called back twice           *)
(* (getDelayedHandler, personal_sendTransaction).                           *)
AnsweredOnce ==
  \A i \in DOMAIN calls :
    /\ Callbacks(i) > 0 <=> calls[i].at = "answered"
    /\ Callbacks(i) <= IF initialization_error THEN 2 ELSE 1

(* Every request is answered, whenever it comes in relation to the start,   *)
(* and whether the start succeeds or fails (waitForInitialization).         *)
RequestsAnswered ==
  \A i \in 1..MaxRequests :
    (i \in DOMAIN calls) ~> (i \in DOMAIN calls /\ calls[i].at = "answered")
=============================================================================
