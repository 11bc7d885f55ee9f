------------------------- MODULE IdempotentReceiver -------------------------
(***************************************************************************)
(* What the webhook promises of each event, however often, and by however  *)
(* many deliveries at once, it is received: it is stored once, by one      *)
(* delivery; that delivery alone may answer "accepted", once, before its   *)
(* end; and no event is called processed that is not stored.  Events have  *)
(* nothing to do with each other, and many may change in one step.         *)
(***************************************************************************)
EXTENDS Naturals

CONSTANT Event

VARIABLES
  stage,    \* "absent", "open": its inserter is still to answer, or "closed"
  answers,  \* how often an event was answered "accepted"
  done      \* events known as processed: a delivery of theirs is ignored

vars == <<stage, answers, done>>

Init ==
  /\ stage = [e \in Event |-> "absent"]
  /\ answers = [e \in Event |-> 0]
  /\ done = {}

\* The row is inserted; the inserter may fail at once.
Store(e) ==
  /\ stage[e] = "absent" /\ stage'[e] \in {"open", "closed"}
  /\ answers'[e] = answers[e]

\* Its inserter ends, with the answer or without.
Close(e) ==
  /\ stage[e] = "open" /\ stage'[e] = "closed"
  /\ answers'[e] \in {answers[e], answers[e] + 1}

Same(e) == stage'[e] = stage[e] /\ answers'[e] = answers[e]

Next ==
  /\ \A e \in Event : Store(e) \/ Close(e) \/ Same(e)
  /\ done' \subseteq done \cup {e \in Event : stage[e] # "absent"}

Spec == Init /\ [][Next]_vars
=============================================================================
