------------------------------ MODULE DealSync ------------------------------
(***************************************************************************)
(* TripSyncService: one deal of Bitrix24 and the trip made of it, kept     *)
(* alike by the worker's handlers of that deal's messages, under the       *)
(* deal's lock in Valkey (RedisLockService.withLock).                      *)
(*                                                                         *)
(* The requests of the fleet are atomic here (module Fleet has their       *)
(* transactions) and their messages are in the queue at once (module       *)
(* Delivery has their way there).  Every crm.item.update and every move of *)
(* the deal by a manager comes back as ONCRMDEALUPDATE, that is as one     *)
(* more trip.update message without a tripId (module Webhook).  Messages   *)
(* are in no order: ten are handled at a time, and retries fall behind.    *)
(***************************************************************************)
EXTENDS TripLifecycle, Naturals

CONSTANTS Handler,     \* consume() calls in flight about this deal
          Nobody,      \* no lock
          RetryLimit,  \* retries of a message: 3 in the code
          MaxChanges,  \* bound: requests and moves in one behaviour
          MaxMoves,    \* bound: moves of the deal by managers, of those
          MaxFaults,   \* bound: failed steps and worker crashes
          Slow         \* may a handler outlast the 30 s of its lock?

ASSUME NobodyAssumption == Nobody \notin Handler
ASSUME BoundAssumption ==
  /\ RetryLimit \in Nat /\ MaxChanges \in Nat /\ MaxMoves \in Nat /\ MaxFaults \in Nat
ASSUME SlowAssumption == Slow \in BOOLEAN

VARIABLES
  trip,     \* its status, and whether it has a crew
  crew,     \* the status of that crew's vehicle and driver
  deal,     \* the deal's stage; does it name the trip (ext), is it SYNCED without error?
  queue,    \* messages to the worker, ready or waiting for a retry
  dead,     \* is a message in the dead-letter queue?
  lock,     \* cargoflow:lock:deal:<id>: the handler whose token it holds
  handler,  \* the handlers: step, message, and what they read
  lapsed,   \* history: handlers whose lock expired under them
  count     \* changes, moves and faults so far

fleet == <<trip, crew>>
vars == <<fleet, deal, queue, dead, lock, handler, lapsed, count>>

\* BITRIX_STAGE_<status> is configured for every status but CREATED; OTHER is
\* any stage that stands for no status.
Other == "OTHER"
Stage == (TripStatus \ {"CREATED"}) \cup {Other}
DealFields == [stage: Stage, ext: BOOLEAN, synced: BOOLEAN]

\* trip: trip.create or trip.update with a tripId; pull: without; status:
\* trip.status.changed, whose payload names the status.
Message == [kind: {"trip", "pull"}, status: {"NONE"}, attempt: 0..RetryLimit] \cup
           [kind: {"status"}, status: TripStatus \ {"CREATED"}, attempt: 0..RetryLimit]
TripMessage == [kind |-> "trip", status |-> "NONE", attempt |-> 0]
PullMessage == [kind |-> "pull", status |-> "NONE", attempt |-> 0]
StatusMessage(s) == [kind |-> "status", status |-> s, attempt |-> 0]

Free == [pc |-> "free", msg |-> PullMessage, seen |-> Other, marked |-> FALSE]
Critical == {"readTrip", "pushTrip", "pushStatus", "getDeal", "upsert", "mark", "done", "failed"}

TypeOK ==
  /\ trip \in [status: TripStatus \cup {"NONE"}, crew: BOOLEAN]
  /\ crew \in {"AVAILABLE", "IN_TRIP"}
  /\ deal \in DealFields
  /\ queue \in [Message -> Nat]
  /\ dead \in BOOLEAN
  /\ lock \in Handler \cup {Nobody}
  /\ handler \in [Handler -> [pc: {"free", "lock", "error"} \cup Critical, msg: Message,
                              seen: Stage \cup {"CREATED"}, marked: BOOLEAN]]
  /\ lapsed \subseteq Handler
  /\ count \in [changes: 0..MaxChanges, moves: 0..MaxMoves, faults: 0..MaxFaults]

\* A new deal, whose ONCRMDEALADD is under way.
Init ==
  /\ trip = [status |-> "NONE", crew |-> FALSE]
  /\ crew = "AVAILABLE"
  /\ deal = [stage |-> Other, ext |-> FALSE, synced |-> FALSE]
  /\ queue = [m \in Message |-> IF m = PullMessage THEN 1 ELSE 0]
  /\ dead = FALSE
  /\ lock = Nobody
  /\ handler = [h \in Handler |-> Free]
  /\ lapsed = {}
  /\ count = [changes |-> 0, moves |-> 0, faults |-> 0]

Sends(m) == queue' = [queue EXCEPT ![m] = @ + 1]
Change == count.changes < MaxChanges /\ count' = [count EXCEPT !.changes = @ + 1]
Fault == count.faults < MaxFaults /\ count' = [count EXCEPT !.faults = @ + 1]
Goto(h, pc) == handler' = [handler EXCEPT ![h].pc = pc]
At(h, pc) == handler[h].pc = pc

-----------------------------------------------------------------------------
(* Dispatchers in the dashboard, managers in the portal.                   *)

CreateTrip(withCrew) ==
  /\ trip.status = "NONE"
  /\ withCrew => crew = "AVAILABLE"
  /\ Change
  /\ trip' = [status |-> IF withCrew THEN "ASSIGNED" ELSE "CREATED", crew |-> withCrew]
  /\ crew' = IF withCrew THEN "IN_TRIP" ELSE crew
  /\ Sends(TripMessage)
  /\ UNCHANGED <<deal, dead, lock, handler, lapsed>>

AssignVehicle ==
  /\ trip.status = "CREATED" /\ crew = "AVAILABLE"
  /\ Change
  /\ trip' = [status |-> "ASSIGNED", crew |-> TRUE]
  /\ crew' = "IN_TRIP"
  /\ Sends(TripMessage)
  /\ UNCHANGED <<deal, dead, lock, handler, lapsed>>

\* Mutant: cancelling does not free the crew.
MutantUpdateStatusKeepsCrew(s) ==
  /\ trip.status \notin {"NONE", s} /\ canTransition(trip.status, s)
  /\ s = "ASSIGNED" => trip.crew
  /\ Change
  /\ trip' = [trip EXCEPT !.status = s]
  /\ crew' = IF s = "CLOSED" /\ trip.crew THEN "AVAILABLE" ELSE crew
  /\ Sends(StatusMessage(s))
  /\ UNCHANGED <<deal, dead, lock, handler, lapsed>>

UpdateStatus(s) ==
  /\ trip.status \notin {"NONE", s} /\ canTransition(trip.status, s)
  /\ s = "ASSIGNED" => trip.crew
  /\ Change
  /\ trip' = [trip EXCEPT !.status = s]
  /\ crew' = IF s \in FinalStatus /\ trip.crew THEN "AVAILABLE" ELSE crew
  /\ Sends(StatusMessage(s))
  /\ UNCHANGED <<deal, dead, lock, handler, lapsed>>

MoveStage(s) ==
  /\ s # deal.stage
  /\ count.changes < MaxChanges /\ count.moves < MaxMoves
  /\ count' = [count EXCEPT !.changes = @ + 1, !.moves = @ + 1]
  /\ deal' = [deal EXCEPT !.stage = s]
  /\ Sends(PullMessage)
  /\ UNCHANGED <<fleet, dead, lock, handler, lapsed>>

-----------------------------------------------------------------------------
(* The worker.                                                             *)

Consume(h, m) ==
  /\ At(h, "free") /\ queue[m] > 0
  /\ queue' = [queue EXCEPT ![m] = @ - 1]
  /\ handler' = [handler EXCEPT ![h] = [Free EXCEPT !.pc = "lock", !.msg = m]]
  /\ UNCHANGED <<fleet, deal, dead, lock, lapsed, count>>

\* Mutant: SET without NX.
MutantLockTaken(h) ==
  /\ At(h, "lock")
  /\ lock' = h
  /\ Goto(h, CASE handler[h].msg.kind = "status" -> "pushStatus"
               [] handler[h].msg.kind = "trip" -> "readTrip"
               [] OTHER -> "getDeal")
  /\ UNCHANGED <<fleet, deal, queue, dead, lapsed, count>>

\* Mutant: a message whose deal is locked is acked.
MutantBusySkips(h) ==
  /\ At(h, "lock")
  /\ \/ /\ lock = Nobody
        /\ lock' = h
        /\ Goto(h, CASE handler[h].msg.kind = "status" -> "pushStatus"
                     [] handler[h].msg.kind = "trip" -> "readTrip"
                     [] OTHER -> "getDeal")
     \/ lock # Nobody /\ Goto(h, "free") /\ UNCHANGED lock
  /\ UNCHANGED <<fleet, deal, queue, dead, lapsed, count>>

\* SET lock token PX 30000 NX; a busy lock is an error like any other.
TakeLock(h) ==
  /\ At(h, "lock")
  /\ \/ /\ lock = Nobody
        /\ lock' = h
        /\ Goto(h, CASE handler[h].msg.kind = "status" -> "pushStatus"
                     [] handler[h].msg.kind = "trip" -> "readTrip"
                     [] OTHER -> "getDeal")
     \/ lock # Nobody /\ Goto(h, "error") /\ UNCHANGED lock
  /\ UNCHANGED <<fleet, deal, queue, dead, lapsed, count>>

\* pushTripToBitrix: reads the trip,
ReadTrip(h) ==
  /\ At(h, "readTrip")
  /\ handler' = [handler EXCEPT ![h].pc = "pushTrip", ![h].seen = trip.status]
  /\ UNCHANGED <<fleet, deal, queue, dead, lock, lapsed, count>>

\* crm.item.update, and its event.
UpdateDeal(fields) == deal' = fields /\ Sends(PullMessage)

\* and writes the deal's fields, with the stage if the status has one.
DealOfTrip(h) ==
  [stage |-> IF handler[h].seen \in Stage THEN handler[h].seen ELSE deal.stage,
   ext |-> TRUE, synced |-> TRUE]

PushTrip(h) ==
  /\ At(h, "pushTrip")
  /\ UpdateDeal(DealOfTrip(h))
  /\ Goto(h, "done")
  /\ UNCHANGED <<fleet, dead, lock, lapsed, count>>

\* pushStatusToBitrix writes the stage of the message's status.
DealOfStatus(h) == [deal EXCEPT !.stage = handler[h].msg.status, !.synced = TRUE]

PushStatus(h) ==
  /\ At(h, "pushStatus")
  /\ UpdateDeal(DealOfStatus(h))
  /\ Goto(h, "done")
  /\ UNCHANGED <<fleet, dead, lock, lapsed, count>>

\* pullDealFromBitrix: crm.item.get,
GetDeal(h) ==
  /\ At(h, "getDeal")
  /\ handler' = [handler EXCEPT ![h].pc = "upsert", ![h].seen = deal.stage,
                                ![h].marked = deal.ext /\ deal.synced]
  /\ UNCHANGED <<fleet, deal, queue, dead, lock, lapsed, count>>

\* Mutant: the stage is taken for a status.
MutantStatusIsStage(h) == handler[h].seen

\* Mutant: an update, too, defaults to CREATED.
MutantStatusFromDefault(h) ==
  IF handler[h].seen # Other THEN handler[h].seen ELSE "CREATED"

\* statusFromStage; a stage without a status is CREATED in a new trip only.
StatusFromStage(h) ==
  CASE handler[h].seen # Other -> handler[h].seen
    [] handler[h].seen = Other /\ trip.status = "NONE" -> "CREATED"
    [] OTHER -> trip.status

\* Mutant: no check whether the deal is synchronized already.
MutantUpsertAlwaysMarks(h) ==
  /\ At(h, "upsert")
  /\ trip' = [trip EXCEPT !.status = StatusFromStage(h)]
  /\ Goto(h, "mark")
  /\ UNCHANGED <<crew, deal, queue, dead, lock, lapsed, count>>

\* the trip is inserted or updated, with whatever status the stage stands for,
Upsert(h) ==
  /\ At(h, "upsert")
  /\ trip' = [trip EXCEPT !.status = StatusFromStage(h)]
  /\ Goto(h, IF handler[h].marked THEN "done" ELSE "mark")
  /\ UNCHANGED <<crew, deal, queue, dead, lock, lapsed, count>>

\* and the deal is marked, unless it was when it was read.
DealMarked == [deal EXCEPT !.ext = TRUE, !.synced = TRUE]

Mark(h) ==
  /\ At(h, "mark")
  /\ UpdateDeal(DealMarked)
  /\ Goto(h, "done")
  /\ UNCHANGED <<fleet, dead, lock, lapsed, count>>

\* A statement or a call fails: it was not done, or it was and its answer is
\* lost.  A lock that was set unknown to its handler is nobody's to delete.
DoneUnanswered(h) ==
  \/ /\ At(h, "lock") /\ lock = Nobody /\ lock' = h
     /\ UNCHANGED <<trip, deal, queue>>
  \/ /\ At(h, "upsert") /\ trip' = [trip EXCEPT !.status = StatusFromStage(h)]
     /\ UNCHANGED <<deal, queue, lock>>
  \/ /\ \/ At(h, "pushTrip") /\ UpdateDeal(DealOfTrip(h))
        \/ At(h, "pushStatus") /\ UpdateDeal(DealOfStatus(h))
        \/ At(h, "mark") /\ UpdateDeal(DealMarked)
     /\ UNCHANGED <<trip, lock>>

Fails(h) ==
  /\ handler[h].pc \in {"lock"} \cup (Critical \ {"done", "failed"})
  /\ Fault
  /\ DoneUnanswered(h) \/ UNCHANGED <<trip, deal, queue, lock>>
  /\ Goto(h, IF At(h, "lock") THEN "error" ELSE "failed")
  /\ UNCHANGED <<crew, dead, lapsed>>

\* Mutant: the lock is deleted whoever holds it.
MutantReleaseAny(h) ==
  /\ handler[h].pc \in {"done", "failed"}
  /\ lock' = Nobody
  /\ lapsed' = lapsed \ {h}
  /\ handler' = [handler EXCEPT ![h] = IF At(h, "done") THEN Free ELSE [@ EXCEPT !.pc = "error"]]
  /\ UNCHANGED <<fleet, deal, queue, dead, count>>

\* The finally: the lock is deleted if the token is still the handler's; a
\* DEL that fails is swallowed and leaves the lock to its TTL.  Then a message
\* that succeeded is acked.
Release(h) ==
  /\ handler[h].pc \in {"done", "failed"}
  /\ \/ lock' = (IF lock = h THEN Nobody ELSE lock) /\ UNCHANGED count
     \/ Fault /\ UNCHANGED lock
  /\ lapsed' = lapsed \ {h}
  /\ handler' = [handler EXCEPT ![h] = IF At(h, "done") THEN Free ELSE [@ EXCEPT !.pc = "error"]]
  /\ UNCHANGED <<fleet, deal, queue, dead>>

\* Mutant: a message is acked after its last error, and not dead-lettered.
MutantBuriedSilently(h) ==
  LET m == handler[h].msg
  IN /\ At(h, "error")
     /\ \/ m.attempt < RetryLimit /\ Sends([m EXCEPT !.attempt = @ + 1])
        \/ m.attempt = RetryLimit /\ UNCHANGED queue
     /\ handler' = [handler EXCEPT ![h] = Free]
     /\ UNCHANGED <<fleet, deal, dead, lock, lapsed, count>>

\* WorkerService.consume: the message is retried, or dead-lettered.
RetryOrBury(h) ==
  LET m == handler[h].msg
  IN /\ At(h, "error")
     /\ \/ m.attempt < RetryLimit /\ Sends([m EXCEPT !.attempt = @ + 1]) /\ UNCHANGED dead
        \/ m.attempt = RetryLimit /\ dead' = TRUE /\ UNCHANGED queue
     /\ handler' = [handler EXCEPT ![h] = Free]
     /\ UNCHANGED <<fleet, deal, lock, lapsed, count>>

\* The worker dies: the handler's message is delivered again, its lock stays.
Crash(h) ==
  /\ ~At(h, "free")
  /\ Fault
  /\ Sends(handler[h].msg)
  /\ handler' = [handler EXCEPT ![h] = Free]
  /\ lapsed' = lapsed \ {h}
  /\ UNCHANGED <<fleet, deal, dead, lock>>

\* The lock's TTL passes: its holder is gone, or slow.
LockExpires ==
  /\ lock # Nobody
  /\ Slow \/ handler[lock].pc \notin Critical
  /\ lapsed' = IF handler[lock].pc \in Critical THEN lapsed \cup {lock} ELSE lapsed
  /\ lock' = Nobody
  /\ UNCHANGED <<fleet, deal, queue, dead, handler, count>>

-----------------------------------------------------------------------------
Handle(h) ==
  \/ TakeLock(h)
  \/ ReadTrip(h) \/ PushTrip(h) \/ PushStatus(h)
  \/ GetDeal(h) \/ Upsert(h) \/ Mark(h)
  \/ Release(h) \/ RetryOrBury(h)

Next ==
  \/ \E b \in BOOLEAN : CreateTrip(b)
  \/ AssignVehicle
  \/ \E s \in TripStatus : UpdateStatus(s)
  \/ \E s \in Stage : MoveStage(s)
  \/ \E h \in Handler : Handle(h) \/ Fails(h) \/ Crash(h) \/ \E m \in Message : Consume(h, m)
  \/ LockExpires

Spec == Init /\ [][Next]_vars

\* The worker's handlers run on, the broker delivers while there are messages, keys in
\* Valkey expire.  Nobody has to change anything.
Fairness ==
  /\ \A h \in Handler : WF_vars(Handle(h))
  /\ WF_vars(\E h \in Handler, m \in Message : Consume(h, m))
  /\ WF_vars(LockExpires)

FairSpec == Spec /\ Fairness

-----------------------------------------------------------------------------
\* docs/12-redis.md:7, a lock is deleted by its owner alone: while a handler
\* works and its lock has not expired, the lock is its own, even if a handler
\* before it outlasted its lock and deletes it late.
OwnerKeepsLock ==
  \A h \in Handler : handler[h].pc \in Critical /\ h \notin lapsed => lock = h

\* What the lock is for: what pullDealFromBitrix read of the deal is still so
\* when it writes the trip from it.  It takes that no handler outlasts its
\* lock (Slow = FALSE; docs/adr/004-use-redis-for-idempotency.md:25-26) and
\* that no manager, who has no lock, has moved the deal.
ReadIsCurrent ==
  \A h \in Handler :
    At(h, "upsert") /\ count.moves = 0 =>
      handler[h].seen = deal.stage /\ handler[h].marked = (deal.ext /\ deal.synced)

\* trip-sync.service.ts:81-88, a stage that stands for no status leaves the
\* trip's status alone, and canTransition leads nowhere back: no trip that has
\* left CREATED is thrown back to it, by a request or by a deal's event.
NeverCreatedAgain ==
  [][trip.status \notin {"NONE", "CREATED"} => trip'.status # "CREATED"]_vars

Quiet == (\A m \in Message : queue[m] = 0) /\ \A h \in Handler : At(h, "free")

\* trip-sync.service.ts:101, the check that ends the echo: two handlers that
\* both read the deal before it was marked never both mark it.
MarksOnce == \A h \in Handler : At(h, "mark") => ~(deal.ext /\ deal.synced)

\* docs/06-triggers.md:15 and trip-sync.service.ts:101: the worker's updates do
\* not answer their own events for ever.  Once people stop changing things,
\* the worker comes to rest.
EchoEnds == <>[]Quiet

\* At rest the deal's stage and the trip's status agree, whatever was changed
\* on either side and in whatever order messages were handled, retried and
\* redelivered; or a message in the DLQ says why not.
Agree == deal.stage # Other => trip.status = deal.stage
SidesAgree == <>[](dead \/ Agree)

\* Whenever nothing is under way, however often handlers failed, died and found
\* the lock busy, the deal has its trip, names it, and agrees with it; or a
\* message in the DLQ says why not.  No change is handled and yet missed.
RestIsSynced ==
  Quiet => dead \/ (Agree /\ trip.status # "NONE" /\ deal.ext /\ deal.synced)

\* docs/13-fleet-domain.md:13-14: a trip that ends frees its crew.
EndFreesCrew == trip.status \in FinalStatus => ~trip.crew \/ crew = "AVAILABLE"

\* Only a manager's move breaks it: without one the worker never brings a
\* trip to an end that updateStatus has not brought it to before, be its
\* messages late, repeated or handled by two that outlast their locks.
OnlyMovesStrandCrew == count.moves = 0 => EndFreesCrew
=============================================================================
