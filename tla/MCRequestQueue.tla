--------------------------- MODULE MCRequestQueue ---------------------------
(***************************************************************************)
(* RequestQueue for TLC: two single calls, two batches of two, and one of  *)
(* three.                                                                  *)
(***************************************************************************)
EXTENDS RequestQueue

CONSTANTS c1, c2, c3, c4, c5, c6, c7, c8, c9

MCCalls == {c1, c2, c3, c4, c5, c6, c7, c8, c9}

MCPayloads == {<<c1>>, <<c2>>, <<c3, c4>>, <<c5, c6, c7>>, <<c8, c9>>}

\* A single call fails, both calls of one batch, in either order, the second of the
\* batch of three, and none of the last batch.
SomeFail == {c1, c3, c4, c6}

\* A single transaction reverts, and a call before a transaction.
SomeRevert == {c1, c6}
SomeExecute == {c1, c6, c7, c8, c9}

\* The callback of one payload throws, and leaves the queue locked.
OneThrows == {<<c2>>}
=============================================================================
