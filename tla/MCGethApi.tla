------------------------------ MODULE MCGethApi ------------------------------
(***************************************************************************)
(* GethApi for TLC.                                                        *)
(***************************************************************************)
EXTENDS GethApi

CONSTANTS main, made, ghost, p1, p2

\* One account made at the start, one that a client may make, and one that the
\* options unlock and nobody has the key of.
Ask(method, from, password) == [method |-> method, from |-> from, password |-> password]

RequestsHere ==
  {Ask("eth_sendTransaction", a, p1) : a \in Addresses}
    \cup {Ask("personal_lockAccount", a, p1) : a \in {main, made}}
    \cup {Ask("personal_unlockAccount", made, p) : p \in Passwords}
    \cup {Ask("personal_sendTransaction", a, p2) : a \in {main, made}}
    \cup {Ask("personal_importRawKey", made, p1), Ask("listen", main, p1)}
=============================================================================
