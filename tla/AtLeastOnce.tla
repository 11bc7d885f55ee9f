----------------------------- MODULE AtLeastOnce -----------------------------
(***************************************************************************)
(* What the outbox, the broker and the worker together promise of a stored *)
(* event: it is executed at least once or ends in the dead-letter queue,   *)
(* nobody answers for it before it is stored, nobody stops answering for   *)
(* it, and integration_events says of it only what has happened.           *)
(***************************************************************************)
CONSTANT Event

VARIABLES
  told,     \* what integration_events says of each event; "NONE": not stored
  carried,  \* events that a message, an ack after success or the DLQ answers for
  ran,      \* events that were executed
  acked,    \* events with a message acked after success
  buried    \* events in the dead-letter queue

vars == <<told, carried, ran, acked, buried>>

Init ==
  /\ told = [e \in Event |-> "NONE"]
  /\ carried = {} /\ ran = {} /\ acked = {} /\ buried = {}

Tell(e, status) ==
  /\ told' = [told EXCEPT ![e] = status]
  /\ UNCHANGED <<carried, ran, acked, buried>>

Store(e) == told[e] = "NONE" /\ Tell(e, "PENDING")

Carry(e) ==
  /\ told[e] # "NONE"
  /\ carried' = carried \cup {e}
  /\ UNCHANGED <<told, ran, acked, buried>>

\* It is executed once more: a repetition is no step of this module.
Execute(e) ==
  /\ e \in carried
  /\ ran' = ran \cup {e}
  /\ UNCHANGED <<told, carried, acked, buried>>

Ack(e) ==
  /\ e \in ran
  /\ acked' = acked \cup {e}
  /\ UNCHANGED <<told, carried, ran, buried>>

Bury(e) ==
  /\ e \in carried
  /\ buried' = buried \cup {e}
  /\ UNCHANGED <<told, carried, ran, acked>>

\* The last word is the last writer's: each says what is so, not what is newest.
TellTruth(e) ==
  \/ e \in carried /\ Tell(e, "PUBLISHED")
  \/ e \in ran /\ Tell(e, "PROCESSED")
  \/ e \in buried /\ Tell(e, "DEAD_LETTERED")

Next ==
  \E e \in Event :
    Store(e) \/ Carry(e) \/ Execute(e) \/ Ack(e) \/ Bury(e) \/ TellTruth(e)

Spec == Init /\ [][Next]_vars
=============================================================================
