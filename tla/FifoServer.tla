----------------------------- MODULE FifoServer -----------------------------
(***************************************************************************)
(* What Provider.send promises its callers unless asyncRequestProcessing   *)
(* is set: payloads form one line, in the order they were sent, the first  *)
(* unanswered one is served, and no other until it is answered.            *)
(***************************************************************************)
EXTENDS Integers, Sequences

VARIABLES
  line,      \* every payload sent, in order
  done,      \* how many of them, the first ones, have been answered
  serving    \* the one after those is being served

vars == <<line, done, serving>>

Init == line = <<>> /\ done = 0 /\ serving = FALSE

LineGrows ==
  /\ Len(line') >= Len(line)
  /\ \A i \in DOMAIN line : line'[i] = line[i]

Accept == LineGrows /\ UNCHANGED <<done, serving>>

Serve ==
  /\ ~serving /\ done < Len(line)
  /\ serving' = TRUE
  /\ UNCHANGED <<line, done>>

\* The caller may send more from its callback.
Answer ==
  /\ serving
  /\ serving' = FALSE
  /\ done' = done + 1
  /\ LineGrows

Next == Accept \/ Serve \/ Answer

Spec == Init /\ [][Next]_vars
=============================================================================
