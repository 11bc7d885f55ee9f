------------------------------ MODULE Webhook -------------------------------
(***************************************************************************)
(* BitrixWebhookService.accept: the deliveries of Bitrix24's deal events,  *)
(* their idempotency keys in Valkey, and their rows in integration_events. *)
(*                                                                         *)
(* An event is its fingerprint (event, portal, deal, ts).  Bitrix24 may    *)
(* deliver it any number of times, also at the same time.  A delivery that *)
(* fails validation or has the wrong token changes nothing and is left out.*)
(* Dispatching the row, once stored, is module Delivery's.                 *)
(***************************************************************************)
EXTENDS Naturals

CONSTANTS Event,   \* fingerprints of events
          Req,     \* deliveries handled at the same time
          None,    \* no event
          Faults   \* what may fail: a subset of FaultKind

FaultKind == {"database", "valkey", "crash"}

ASSUME NoneAssumption == None \notin Event
ASSUME FaultsAssumption == Faults \subseteq FaultKind

VARIABLES
  key,       \* cargoflow:webhook:<fingerprint> in Valkey
  stored,    \* events with a row; external_event_id is unique
  req,       \* the deliveries in progress
  accepted,  \* history: how often an event was answered "accepted" (2: more than once)
  orphaned   \* history: events whose claim a crash or a fault of Valkey left behind

history == <<accepted, orphaned>>
vars == <<key, stored, req, history>>

Waiting == [pc |-> "idle", event |-> None]

\* dup...: the answer will be "ignored"; the others may still be "accepted".
Step == {"idle", "claim", "dupLog", "create", "log", "complete", "dispatch",
         "dupComplete", "release"}

TypeOK ==
  /\ key \in [Event -> {"none", "processing", "processed"}]
  /\ stored \subseteq Event
  /\ req \in [Req -> [pc: Step, event: Event \cup {None}]]
  /\ accepted \in [Event -> 0..2]
  /\ orphaned \subseteq Event

Init ==
  /\ key = [e \in Event |-> "none"]
  /\ stored = {}
  /\ req = [r \in Req |-> Waiting]
  /\ accepted = [e \in Event |-> 0]
  /\ orphaned = {}

At(r, pc) == req[r].pc = pc
Goto(r, pc) == req' = [req EXCEPT ![r].pc = pc]
Answered(r) == req' = [req EXCEPT ![r] = Waiting]
SetKey(r, value) == key' = [key EXCEPT ![req[r].event] = value]
KeyIs(r, value) == key[req[r].event] = value

\* A delivery on its way to "accepted": it has inserted the row.
Winner(r) == req[r].pc \in {"log", "complete", "dispatch"}

Claimed(e) == \E r \in Req : req[r].event = e /\ req[r].pc \in {"create", "release"}
Orphans(E) == orphaned' = orphaned \cup E

\* A statement that fails has been executed, or not.
Perhaps(A, v) == A \/ UNCHANGED v

-----------------------------------------------------------------------------
Deliver(r, e) ==
  /\ At(r, "idle")
  /\ req' = [req EXCEPT ![r] = [pc |-> "claim", event |-> e]]
  /\ UNCHANGED <<key, stored, history>>

\* SET key 'processing' EX ttl NX.
Claim(r) ==
  /\ At(r, "claim")
  /\ \/ KeyIs(r, "none") /\ SetKey(r, "processing") /\ Goto(r, "create")
     \/ ~KeyIs(r, "none") /\ Goto(r, "dupLog") /\ UNCHANGED key
  /\ UNCHANGED <<stored, history>>

\* Valkey is away, or its reply was lost: 503.
ClaimFails(r) ==
  /\ At(r, "claim") /\ "valkey" \in Faults
  /\ Perhaps(KeyIs(r, "none") /\ SetKey(r, "processing") /\ Orphans({req[r].event}), <<key, orphaned>>)
  /\ Answered(r)
  /\ UNCHANGED <<stored, accepted>>

\* The IGNORED row of integration_logs, then 202, ignored.
AnswerIgnored(r) ==
  /\ At(r, "dupLog")
  /\ Answered(r)
  /\ UNCHANGED <<key, stored, history>>

\* That row cannot be written: 500.
DupLogFails(r) ==
  /\ At(r, "dupLog") /\ "database" \in Faults
  /\ Answered(r)
  /\ UNCHANGED <<key, stored, history>>

\* Mutant: external_event_id is not unique.
MutantCreateNotUnique(r) ==
  /\ At(r, "create")
  /\ stored' = stored \cup {req[r].event} /\ Goto(r, "log")
  /\ UNCHANGED <<key, history>>

\* The row is inserted, unless the event has one already (P2002).
Create(r) ==
  /\ At(r, "create")
  /\ \/ req[r].event \notin stored /\ stored' = stored \cup {req[r].event} /\ Goto(r, "log")
     \/ req[r].event \in stored /\ Goto(r, "dupComplete") /\ UNCHANGED stored
  /\ UNCHANGED <<key, history>>

CreateFails(r) ==
  /\ At(r, "create") /\ "database" \in Faults
  /\ Perhaps(stored' = stored \cup {req[r].event}, stored)
  /\ Goto(r, "release")
  /\ UNCHANGED <<key, history>>

\* The RECEIVED row of integration_logs.
Log(r) ==
  /\ At(r, "log")
  /\ Goto(r, "complete") \/ ("database" \in Faults /\ Goto(r, "release"))
  /\ UNCHANGED <<key, stored, history>>

\* SET key 'processed' EX ttl.
Complete(r) ==
  /\ At(r, "complete")
  /\ SetKey(r, "processed")
  /\ Goto(r, "dispatch")
  /\ UNCHANGED <<stored, history>>

CompleteFails(r) ==
  /\ At(r, "complete") /\ "valkey" \in Faults
  /\ Perhaps(SetKey(r, "processed"), key)
  /\ Goto(r, "release")
  /\ UNCHANGED <<stored, history>>

\* dispatchById returns: 202, accepted.  It swallows a failed publication,
Dispatched(r) ==
  /\ At(r, "dispatch")
  /\ accepted' = [accepted EXCEPT ![req[r].event] = IF @ < 2 THEN @ + 1 ELSE @]
  /\ Answered(r)
  /\ UNCHANGED <<key, stored, orphaned>>

\* but not a failed query.
DispatchFails(r) ==
  /\ At(r, "dispatch") /\ "database" \in Faults
  /\ Goto(r, "release")
  /\ UNCHANGED <<key, stored, history>>

\* Mutant: a duplicate is dispatched and accepted like the first.
MutantDupDispatches(r) ==
  /\ At(r, "dupComplete")
  /\ SetKey(r, "processed")
  /\ Goto(r, "dispatch")
  /\ UNCHANGED <<stored, history>>

\* After P2002: the key is completed, and the delivery is a duplicate.
DupComplete(r) ==
  /\ At(r, "dupComplete")
  /\ SetKey(r, "processed")
  /\ Goto(r, "dupLog")
  /\ UNCHANGED <<stored, history>>

DupCompleteFails(r) ==
  /\ At(r, "dupComplete") /\ "valkey" \in Faults
  /\ Perhaps(SetKey(r, "processed"), key)
  /\ Answered(r)
  /\ UNCHANGED <<stored, history>>

\* Mutant: the key is marked, not deleted.
MutantReleaseMarks(r) ==
  /\ At(r, "release")
  /\ SetKey(r, "failed")
  /\ Answered(r)
  /\ UNCHANGED <<stored, history>>

\* Mutant: the key of a failed delivery is completed.
MutantReleaseCompletes(r) ==
  /\ At(r, "release")
  /\ SetKey(r, "processed")
  /\ Answered(r)
  /\ UNCHANGED <<stored, history>>

\* Mutant: the key of a failed delivery is kept.
MutantReleaseForgotten(r) ==
  /\ At(r, "release")
  /\ Answered(r)
  /\ UNCHANGED <<key, stored, history>>

\* DEL key, whoever set it last; 500.  A failure of DEL is ignored.
Release(r) ==
  /\ At(r, "release")
  /\ \/ SetKey(r, "none") /\ UNCHANGED orphaned
     \/ "valkey" \in Faults /\ UNCHANGED key /\ Orphans({req[r].event})
  /\ Answered(r)
  /\ UNCHANGED <<stored, accepted>>

\* Mutant: keys that are being processed have no TTL.
MutantExpireProcessed(e) ==
  /\ key[e] = "processed"
  /\ key' = [key EXCEPT ![e] = "none"]
  /\ UNCHANGED <<stored, req, history>>

\* The key's TTL passes, or Valkey restarts without it.
Expire(e) ==
  /\ key[e] # "none"
  /\ key' = [key EXCEPT ![e] = "none"]
  /\ UNCHANGED <<stored, req, history>>

\* The API process dies and starts again: its deliveries get no answer.
ApiRestart ==
  /\ "crash" \in Faults
  /\ req' = [r \in Req |-> Waiting]
  /\ Orphans({e \in Event : Claimed(e)})
  /\ UNCHANGED <<key, stored, accepted>>

-----------------------------------------------------------------------------
Succeed(r) ==
  \/ Claim(r) \/ AnswerIgnored(r) \/ Create(r) \/ Log(r) \/ Complete(r)
  \/ Dispatched(r) \/ DupComplete(r) \/ Release(r)

Fail(r) ==
  \/ ClaimFails(r) \/ DupLogFails(r) \/ CreateFails(r) \/ CompleteFails(r)
  \/ DispatchFails(r) \/ DupCompleteFails(r)

Next ==
  \/ \E r \in Req : Succeed(r) \/ Fail(r) \/ \E e \in Event : Deliver(r, e)
  \/ \E e \in Event : Expire(e)
  \/ ApiRestart

Spec == Init /\ [][Next]_vars

\* Every event is delivered again and again, also when its key is gone; keys
\* expire; and no fault hits every attempt of a statement.
Fairness ==
  \A r \in Req, e \in Event :
    /\ SF_vars(Deliver(r, e)) /\ SF_vars(Deliver(r, e) /\ key[e] = "none")
    /\ SF_vars(Claim(r) /\ req[r].event = e /\ key[e] = "none")
    /\ SF_vars(Create(r) /\ req[r].event = e)
    /\ WF_vars(Succeed(r))
    /\ WF_vars(Expire(e))

FairSpec == Spec /\ Fairness

-----------------------------------------------------------------------------
\* README.md:269: of all deliveries of an event, one at most is accepted,
\* though its key may expire, be released or be lost while they run: the
\* unique external_event_id backs the key up.
AcceptedOnce == \A e \in Event : accepted[e] <= 1

\* A key says "processed" only of an event whose row is stored, whichever
\* delivery wrote it, and whatever failed in between.
ProcessedIsStored == \A e \in Event : key[e] = "processed" => e \in stored

\* A delivery that fails leaves no claim behind: an event whose key is taken is
\* stored, or somebody is about to store it or to release the key, unless the
\* process or Valkey failed with it.  Otherwise every later delivery would be
\* ignored for a day.
NoForgottenClaim ==
  \A e \in Event : key[e] = "processing" => e \in stored \cup orphaned \/ Claimed(e)

\* Deliveries that overlap, fail at any await, lose their keys to one another or
\* to the TTL, and die with the process, are an idempotent receiver: the first
\* to insert an event's row is the only one that may accept it, and once it has
\* ended nobody may, whatever the key says.
Receiver == INSTANCE IdempotentReceiver WITH
  stage <- [e \in Event |->
              IF e \notin stored THEN "absent"
              ELSE IF \E r \in Req : Winner(r) /\ req[r].event = e THEN "open" ELSE "closed"],
  answers <- accepted,
  done <- {e \in Event : key[e] = "processed"}

ImplementsReceiver == Receiver!Spec

\* docs/adr/004-use-redis-for-idempotency.md:25-26, every key has a bounded
\* life: an event that keeps being delivered is stored in the end, even if a
\* crash left its claim behind.
EventuallyStored == \A e \in Event : <>(e \in stored)
=============================================================================
