------------------------------- MODULE Fleet -------------------------------
(***************************************************************************)
(* The fleet ledger of the integration API: TripsService.create,           *)
(* assignVehicle and updateStatus, each an interactive PostgreSQL          *)
(* transaction (READ COMMITTED, Prisma $transaction) over the tables       *)
(* trips, vehicles, drivers and integration_events.                        *)
(*                                                                         *)
(* A transaction is a record of tx: the statement it runs next (pc), the   *)
(* rows it is about, what it has read, and the rows it has written and so  *)
(* keeps locked (held).  Its writes become visible at Commit; until then   *)
(* the other transactions read the committed tables and wait for the rows  *)
(* it holds.                                                               *)
(***************************************************************************)
EXTENDS TripLifecycle

CONSTANTS Deal,     \* Bitrix24 deals; trips.bitrix_deal_id is unique, so a trip is its deal
          Vehicle,  \* ids of vehicles
          Driver,   \* ids of drivers
          Req,      \* requests served at the same time, one transaction each
          Null,     \* SQL NULL, and the id of nothing
          Overlap   \* may two requests about one trip be in progress together?

ASSUME NullAssumption == Null \notin Deal \cup Vehicle \cup Driver
ASSUME OverlapAssumption == Overlap \in BOOLEAN

VARIABLES
  trip,     \* table trips; status "NONE" where the deal has no row yet
  vehicle,  \* table vehicles: status and driver_id
  driver,   \* table drivers: status
  event,    \* the newest integration_events row of each deal written here
  tx        \* the transactions in progress

vars == <<trip, vehicle, driver, event, tx>>

TripRow == [status: TripStatus \cup {"NONE"},
            vehicle: Vehicle \cup {Null}, driver: Driver \cup {Null}]
VehicleRow == [status: VehicleStatus, driver: Driver \cup {Null}]
EventType == {"trip.create", "trip.update", "trip.status.changed"}
\* The payload's previousStatus and status ("NONE": the payload has none).
EventRow == [type: EventType \cup {"none"}, prev: TripStatus \cup {"NONE"},
             status: TripStatus \cup {"NONE"}]

Op == {"none", "create", "assign", "status"}
Statement == {"idle", "readVehicle", "claimVehicle", "linkDriver",
              "claimDriver", "writeTrip", "freeVehicle", "freeDriver", "commit"}
Transaction == [op: Op, pc: Statement, trip: Deal \cup {Null},
                vehicle: Vehicle \cup {Null}, driver: Driver \cup {Null},
                prev: TripStatus \cup {"NONE"}, next: TripStatus \cup {"NONE"},
                held: SUBSET {"trip", "vehicle", "driver"}]

NoTrip == [status |-> "NONE", vehicle |-> Null, driver |-> Null]
NoEvent == [type |-> "none", prev |-> "NONE", status |-> "NONE"]
Idle == [op |-> "none", pc |-> "idle", trip |-> Null, vehicle |-> Null,
         driver |-> Null, prev |-> "NONE", next |-> "NONE", held |-> {}]

\* A database with a fleet and no trips: drivers linked to at most one
\* vehicle (vehicles.driver_id is unique), nobody in a trip.
Init ==
  /\ trip = [d \in Deal |-> NoTrip]
  /\ vehicle \in [Vehicle -> [status: VehicleStatus \ {"IN_TRIP"},
                              driver: Driver \cup {Null}]]
  /\ \A v, w \in Vehicle :
       v # w /\ vehicle[v].driver = vehicle[w].driver => vehicle[v].driver = Null
  /\ driver \in [Driver -> DriverStatus \ {"IN_TRIP"}]
  /\ event = [d \in Deal |-> NoEvent]
  /\ tx = [r \in Req |-> Idle]

-----------------------------------------------------------------------------
(* Row locks and the unique index on vehicles.driver_id.                   *)

\* Another transaction has written, and not yet committed, the row of table
\* k that r is about; an uncommitted INSERT blocks an INSERT of the same
\* unique bitrix_deal_id in the same way.
Locked(r, k) ==
  \E q \in Req \ {r} : k \in tx[q].held /\ tx[q][k] = tx[r][k]

\* Setting driver_id waits for every uncommitted write of a vehicle row that
\* has, or is to have, the same driver.
DriverIndexBusy(r) ==
  \E q \in Req \ {r} :
    /\ "vehicle" \in tx[q].held
    /\ tx[q].vehicle # tx[r].vehicle
    /\ \/ vehicle[tx[q].vehicle].driver = tx[r].driver
       \/ tx[q].op = "create" /\ tx[q].pc # "linkDriver" /\ tx[q].driver = tx[r].driver

DriverLinkedElsewhere(r) ==
  \E w \in Vehicle \ {tx[r].vehicle} : vehicle[w].driver = tx[r].driver

\* The API admits any overlap of requests.  Overlap = FALSE is what its callers
\* would have to ensure: the dashboard disables the buttons of one trip at a
\* time, which TripsPage shows is not enough.
MayBegin(r, d) ==
  /\ tx[r].pc = "idle"
  /\ Overlap \/ \A q \in Req \ {r} : tx[q].trip # d

Becomes(r, t) == tx' = [tx EXCEPT ![r] = t]
Goto(r, pc) == tx' = [tx EXCEPT ![r].pc = pc]
Holds(r, k, pc) == tx' = [tx EXCEPT ![r].held = @ \cup {k}, ![r].pc = pc]
Tables == <<trip, vehicle, driver, event>>

-----------------------------------------------------------------------------
(* First statements: what a request reads before it writes.  A refused     *)
(* first statement (404, 409, 422) changes nothing and is not an action.   *)

\* create without a vehicle: the first statement is the INSERT.
CreateWithoutCrew(r, d) ==
  /\ MayBegin(r, d)
  /\ Becomes(r, [Idle EXCEPT !.op = "create", !.pc = "writeTrip", !.trip = d,
                             !.next = "CREATED"])
  /\ UNCHANGED Tables

\* create with a vehicle and an optional driver (input): reads the vehicle,
\* then resolves the driver.
CreateWithCrew(r, d, v, input) ==
  LET linked == vehicle[v].driver
      resolved == IF input # Null THEN input ELSE linked
  IN /\ MayBegin(r, d)
     /\ vehicle[v].status = "AVAILABLE"
     /\ input # Null /\ linked # Null => input = linked
     /\ resolved # Null
     /\ Becomes(r, [Idle EXCEPT !.op = "create", !.pc = "claimVehicle", !.trip = d,
                                !.vehicle = v, !.driver = resolved, !.next = "ASSIGNED"])
     /\ UNCHANGED Tables

\* assignVehicle: reads the trip,
AssignReadTrip(r, d, v) ==
  /\ MayBegin(r, d)
  /\ trip[d].status = "CREATED"
  /\ Becomes(r, [Idle EXCEPT !.op = "assign", !.pc = "readVehicle", !.trip = d,
                             !.vehicle = v, !.prev = "CREATED", !.next = "ASSIGNED"])
  /\ UNCHANGED Tables

\* and in its second statement the vehicle, whose driver it takes.
Assignable(v) == vehicle[v].status = "AVAILABLE" /\ vehicle[v].driver # Null

AssignReadVehicle(r) ==
  /\ tx[r].pc = "readVehicle"
  /\ Assignable(tx[r].vehicle)
  /\ Becomes(r, [tx[r] EXCEPT !.pc = "claimVehicle", !.driver = vehicle[tx[r].vehicle].driver])
  /\ UNCHANGED Tables

\* Mutant: ASSIGNED is entered without a vehicle.
MutantStatusNoVehicleCheck(r, d, s) ==
  LET current == trip[d]
  IN /\ MayBegin(r, d)
     /\ current.status \notin {"NONE", s}
     /\ canTransition(current.status, s)
     /\ Becomes(r, [Idle EXCEPT !.op = "status", !.pc = "writeTrip", !.trip = d,
                                !.vehicle = current.vehicle, !.driver = current.driver,
                                !.prev = current.status, !.next = s])
     /\ UNCHANGED Tables

\* Mutant: canTransition is not asked.
MutantStatusAnyTransition(r, d, s) ==
  LET current == trip[d]
  IN /\ MayBegin(r, d)
     /\ current.status \notin {"NONE", s}
     /\ s = "ASSIGNED" => current.vehicle # Null
     /\ Becomes(r, [Idle EXCEPT !.op = "status", !.pc = "writeTrip", !.trip = d,
                                !.vehicle = current.vehicle, !.driver = current.driver,
                                !.prev = current.status, !.next = s])
     /\ UNCHANGED Tables

\* updateStatus: reads the trip with its vehicle and driver and checks the
\* transition.  A request for the status the trip has changes nothing.
StatusReadTrip(r, d, s) ==
  LET current == trip[d]
  IN /\ MayBegin(r, d)
     /\ current.status \notin {"NONE", s}
     /\ canTransition(current.status, s)
     /\ s = "ASSIGNED" => current.vehicle # Null
     /\ Becomes(r, [Idle EXCEPT !.op = "status", !.pc = "writeTrip", !.trip = d,
                                !.vehicle = current.vehicle, !.driver = current.driver,
                                !.prev = current.status, !.next = s])
     /\ UNCHANGED Tables

-----------------------------------------------------------------------------
(* Writes.  Each waits until no other transaction holds the row.           *)

\* Mutant: the claim is by id alone, without status = 'AVAILABLE'.
MutantClaimWithoutStatus(r) ==
  /\ tx[r].pc = "claimVehicle"
  /\ ~Locked(r, "vehicle")
  /\ Holds(r, "vehicle",
           IF tx[r].op = "create" /\ vehicle[tx[r].vehicle].driver # tx[r].driver
           THEN "linkDriver" ELSE "claimDriver")
  /\ UNCHANGED Tables

\* UPDATE vehicles SET status = 'IN_TRIP' [, driver_id] WHERE status =
\* 'AVAILABLE', which re-reads the row once it is unlocked.
ClaimVehicle(r) ==
  /\ tx[r].pc = "claimVehicle"
  /\ ~Locked(r, "vehicle")
  /\ vehicle[tx[r].vehicle].status = "AVAILABLE"
  /\ Holds(r, "vehicle",
           IF tx[r].op = "create" /\ vehicle[tx[r].vehicle].driver # tx[r].driver
           THEN "linkDriver" ELSE "claimDriver")
  /\ UNCHANGED Tables

\* Mutant: vehicles.driver_id is not unique.
MutantLinkWithoutIndex(r) ==
  /\ tx[r].pc = "linkDriver"
  /\ Goto(r, "claimDriver")
  /\ UNCHANGED Tables

\* The same UPDATE, where it changes driver_id: the unique index.
LinkDriver(r) ==
  /\ tx[r].pc = "linkDriver"
  /\ ~DriverIndexBusy(r)
  /\ ~DriverLinkedElsewhere(r)
  /\ Goto(r, "claimDriver")
  /\ UNCHANGED Tables

ClaimDriver(r) ==
  /\ tx[r].pc = "claimDriver"
  /\ ~Locked(r, "driver")
  /\ driver[tx[r].driver] = "AVAILABLE"
  /\ Holds(r, "driver", "writeTrip")
  /\ UNCHANGED Tables

\* A trip is inserted only once per deal; an existing one is written by id,
\* whatever has happened to it since it was read.
InsertRefused(r) == tx[r].op = "create" /\ trip[tx[r].trip].status # "NONE"

\* Mutant: only CLOSED frees the crew.
MutantFreesOnClose(r, k) ==
  tx[r].op = "status" /\ tx[r].next = "CLOSED" /\ tx[r][k] # Null

\* What updateStatus frees after it wrote the trip.
Frees(r, k) ==
  tx[r].op = "status" /\ tx[r].next \in FinalStatus /\ tx[r][k] # Null

\* Mutant: the driver is freed before the vehicle.
MutantWriteTripFreesDriver(r) ==
  /\ tx[r].pc = "writeTrip"
  /\ ~Locked(r, "trip") /\ (Frees(r, "driver") => ~Locked(r, "driver"))
  /\ ~InsertRefused(r)
  /\ tx' = [tx EXCEPT ![r].pc = IF Frees(r, "vehicle") THEN "freeVehicle" ELSE "commit",
                     ![r].held = @ \cup {"trip"} \cup (IF Frees(r, "driver") THEN {"driver"} ELSE {})]
  /\ UNCHANGED Tables

WriteTrip(r) ==
  /\ tx[r].pc = "writeTrip"
  /\ ~Locked(r, "trip")
  /\ ~InsertRefused(r)
  /\ Holds(r, "trip", CASE Frees(r, "vehicle") -> "freeVehicle"
                        [] ~Frees(r, "vehicle") /\ Frees(r, "driver") -> "freeDriver"
                        [] OTHER -> "commit")
  /\ UNCHANGED Tables

FreeVehicle(r) ==
  /\ tx[r].pc = "freeVehicle"
  /\ ~Locked(r, "vehicle")
  /\ Holds(r, "vehicle", IF Frees(r, "driver") THEN "freeDriver" ELSE "commit")
  /\ UNCHANGED Tables

FreeDriver(r) ==
  /\ tx[r].pc = "freeDriver"
  /\ ~Locked(r, "driver")
  /\ Holds(r, "driver", "commit")
  /\ UNCHANGED Tables

-----------------------------------------------------------------------------
(* Ends.                                                                   *)

\* The rows as the transaction leaves them.
Booking(r) == tx[r].op \in {"create", "assign"}

TripAfter(r) ==
  IF Booking(r)
  THEN [status |-> tx[r].next, vehicle |-> tx[r].vehicle, driver |-> tx[r].driver]
  ELSE [trip[tx[r].trip] EXCEPT !.status = tx[r].next]

CrewStatus(r) == IF Booking(r) THEN "IN_TRIP" ELSE "AVAILABLE"

\* Mutant: the vehicle's own id is written as its driver_id.
MutantVehicleAfterWrongId(r) ==
  [status |-> CrewStatus(r),
   driver |-> IF tx[r].op = "create" THEN tx[r].vehicle ELSE vehicle[tx[r].vehicle].driver]

VehicleAfter(r) ==
  [status |-> CrewStatus(r),
   driver |-> IF tx[r].op = "create" THEN tx[r].driver ELSE vehicle[tx[r].vehicle].driver]

\* Mutant: previousStatus is taken from the updated row.
MutantEventFromUpdated(r) ==
  CASE tx[r].op = "create" -> [NoEvent EXCEPT !.type = "trip.create"]
    [] tx[r].op = "assign" ->
         [type |-> "trip.update", prev |-> tx[r].prev, status |-> tx[r].next]
    [] OTHER ->
         [type |-> "trip.status.changed", prev |-> tx[r].next, status |-> tx[r].next]

EventOf(r) ==
  CASE tx[r].op = "create" -> [NoEvent EXCEPT !.type = "trip.create"]
    [] tx[r].op = "assign" ->
         [type |-> "trip.update", prev |-> tx[r].prev, status |-> tx[r].next]
    [] OTHER ->
         [type |-> "trip.status.changed", prev |-> tx[r].prev, status |-> tx[r].next]

\* All rows of the transaction, with its integration event, become visible.
Commit(r) ==
  /\ tx[r].pc = "commit"
  /\ trip' = [trip EXCEPT ![tx[r].trip] = TripAfter(r)]
  /\ vehicle' = IF "vehicle" \in tx[r].held
                THEN [vehicle EXCEPT ![tx[r].vehicle] = VehicleAfter(r)] ELSE vehicle
  /\ driver' = IF "driver" \in tx[r].held
               THEN [driver EXCEPT ![tx[r].driver] = CrewStatus(r)] ELSE driver
  /\ event' = [event EXCEPT ![tx[r].trip] = EventOf(r)]
  /\ Becomes(r, Idle)

\* A later statement is refused: 409, and the transaction is rolled back.
Refuse(r) ==
  /\ \/ tx[r].pc = "readVehicle" /\ ~Assignable(tx[r].vehicle)
     \/ tx[r].pc = "claimVehicle" /\ ~Locked(r, "vehicle")
        /\ vehicle[tx[r].vehicle].status # "AVAILABLE"
     \/ tx[r].pc = "linkDriver" /\ ~DriverIndexBusy(r) /\ DriverLinkedElsewhere(r)
     \/ tx[r].pc = "claimDriver" /\ ~Locked(r, "driver")
        /\ driver[tx[r].driver] # "AVAILABLE"
     \/ tx[r].pc = "writeTrip" /\ ~Locked(r, "trip") /\ InsertRefused(r)
  /\ Becomes(r, Idle)
  /\ UNCHANGED Tables

\* Mutant: the claim of the vehicle is outside the transaction.
MutantAbortKeepsVehicle(r) ==
  /\ tx[r].pc # "idle"
  /\ vehicle' = IF "vehicle" \in tx[r].held
                THEN [vehicle EXCEPT ![tx[r].vehicle] = VehicleAfter(r)] ELSE vehicle
  /\ Becomes(r, Idle)
  /\ UNCHANGED <<trip, driver, event>>

\* The transaction is lost: the API or its connection dies, Prisma's
\* transaction timeout passes, or PostgreSQL picks it as a deadlock victim.
Abort(r) ==
  /\ tx[r].pc # "idle"
  /\ Becomes(r, Idle)
  /\ UNCHANGED Tables

Begin(r) ==
  \E d \in Deal :
    \/ CreateWithoutCrew(r, d)
    \/ \E v \in Vehicle, input \in Driver \cup {Null} : CreateWithCrew(r, d, v, input)
    \/ \E v \in Vehicle : AssignReadTrip(r, d, v)
    \/ \E s \in TripStatus : StatusReadTrip(r, d, s)

\* The next statement of a transaction in progress.
Continue(r) ==
  \/ AssignReadVehicle(r)
  \/ ClaimVehicle(r)
  \/ LinkDriver(r)
  \/ ClaimDriver(r)
  \/ WriteTrip(r)
  \/ FreeVehicle(r)
  \/ FreeDriver(r)
  \/ Commit(r)
  \/ Refuse(r)

Next == \E r \in Req : Begin(r) \/ Continue(r) \/ Abort(r)

Spec == Init /\ [][Next]_vars

-----------------------------------------------------------------------------
(* Properties of every interleaving, overlapping requests included.        *)

TypeOK ==
  /\ trip \in [Deal -> TripRow]
  /\ vehicle \in [Vehicle -> VehicleRow]
  /\ driver \in [Driver -> DriverStatus]
  /\ event \in [Deal -> EventRow]
  /\ tx \in [Req -> Transaction]

\* A trip that has left CREATED other than by cancellation has a vehicle and
\* a driver, whatever its requests overlapped with: assignVehicle writes the
\* crew it claimed, and updateStatus enters ASSIGNED only where it read one.
AssignedHasCrew ==
  \A d \in Deal :
    trip[d].status \in ActiveStatus \cup {"CLOSED"} =>
      trip[d].vehicle # Null /\ trip[d].driver # Null

\* A trip gets a vehicle and a driver only if both were AVAILABLE until that
\* very commit, though their status was read, and claimed, several
\* statements before: two requests never both win one vehicle.
BookingTakesFreeCrew ==
  [][\A d \in Deal :
       (trip'[d].vehicle # trip[d].vehicle \/ trip'[d].driver # trip[d].driver) =>
         /\ vehicle[trip'[d].vehicle].status = "AVAILABLE"
         /\ vehicle'[trip'[d].vehicle].status = "IN_TRIP"
         /\ driver[trip'[d].driver] = "AVAILABLE"
         /\ driver'[trip'[d].driver] = "IN_TRIP"]_vars

\* vehicles.driver_id is unique: two requests linking one driver to two
\* vehicles that had none cannot both commit.
OneVehiclePerDriver ==
  \A v, w \in Vehicle :
    v # w /\ vehicle[v].driver # Null => vehicle[v].driver # vehicle[w].driver

-----------------------------------------------------------------------------
(* What a request that overlaps with another about the same trip breaks,   *)
(* and what it does not.                                                   *)

\* What r read of its trip when it began no longer holds: assignVehicle writes
\* the trip by id though it is not CREATED any more, and updateStatus though
\* its status or its crew is another.
Stale(r) ==
  LET now == trip[tx[r].trip]
  IN \/ tx[r].op \in {"assign", "status"} /\ now.status # tx[r].prev
     \/ tx[r].op = "status" /\ <<now.vehicle, now.driver>> # <<tx[r].vehicle, tx[r].driver>>

\* The transactions, serial per trip, implement the atomic ledger: a claim
\* that fails, a rollback or a crash leaves no half of a booking behind.
Ledger == INSTANCE CrewLedger WITH vstatus <- [v \in Vehicle |-> vehicle[v].status],
                                   dstatus <- driver

ImplementsLedger == Ledger!Spec

\* Whatever overlaps, crashes or is refused, one thing alone leaves the atomic
\* ledger, and with it the diagram of docs/13-fleet-domain.md:13: the commit of
\* a request whose trip has changed since it read it, written by id
\* (trips.service.ts:143, :185).  Every other commit is one step of the ledger,
\* from the tables as they are at that moment, and no other statement shows.
OnlyStaleLeaveLedger ==
  [][ [Ledger!Next]_(Ledger!vars) \/ \E r \in Req : Stale(r) /\ Commit(r) ]_vars

\* A change of the trip of d that its request had not seen is overwritten.
Overtaken(d) == \E r \in Req : tx[r].trip = d /\ Stale(r) /\ Commit(r)

\* The integration events of a trip tell its history, on which the consumers of
\* the outbox rely: every change of a trip commits with its event, trip.create
\* the first and only the first; any other names the status the trip enters and
\* a step of the diagram that leads there.  The status it names as the previous
\* one is the one the trip left, unless a request overwrites a change it had
\* not seen; such a request alone may tell of a change that was none.
EventsTellHistory ==
  [][\A d \in Deal :
       /\ trip'[d] # trip[d] =>
            \/ trip[d].status = "NONE" /\ event'[d].type = "trip.create"
            \/ /\ trip[d].status # "NONE" /\ event'[d].type # "trip.create"
               /\ event'[d].status = trip'[d].status
               /\ event'[d].prev # event'[d].status
               /\ canTransition(event'[d].prev, event'[d].status)
               /\ event'[d].prev = trip[d].status \/ Overtaken(d)
       /\ event'[d] # event[d] => trip'[d] # trip[d] \/ Overtaken(d)]_vars

\* docs/13-fleet-domain.md:13: a status moves only along the diagram.  So it
\* does where no commit is stale; requests about one trip that overlap, which
\* the API admits, break it.
StatusFollowsDiagram ==
  [][\A d \in Deal :
       trip[d].status # "NONE" => canTransition(trip[d].status, trip'[d].status)]_vars

\* docs/13-fleet-domain.md:13 and :24: the end of a trip frees its vehicle and
\* its driver, and a vehicle another request took is refused.  So a vehicle or
\* a driver is IN_TRIP exactly while one active trip has it: none is booked
\* twice, left IN_TRIP by an aborted or a finished request, or shown free
\* while it drives.  Needs commits that are not stale (Overlap = FALSE).
CrewConsistent == Ledger!CrewConsistent

-----------------------------------------------------------------------------
(* Circular waits.                                                         *)

\* The lock that the next statement of r waits for.
Waits(r) ==
  \/ tx[r].pc \in {"claimVehicle", "freeVehicle"} /\ Locked(r, "vehicle")
  \/ tx[r].pc = "linkDriver" /\ DriverIndexBusy(r)
  \/ tx[r].pc \in {"claimDriver", "freeDriver"} /\ Locked(r, "driver")
  \/ tx[r].pc = "writeTrip" /\ Locked(r, "trip")

InProgress(r) == tx[r].pc # "idle"

\* r takes its vehicle from the driver it got after r had read it.
Relinks(r) == tx[r].pc = "linkDriver" /\ vehicle[tx[r].vehicle].driver # Null

\* q, which has written the trip that r is to write, is to free a row of its crew.
Ends(q, r) ==
  /\ tx[q].trip = tx[r].trip
  /\ tx[q].pc \in {"freeVehicle", "freeDriver"} /\ tx[r].pc = "writeTrip"

\* create and assignVehicle lock vehicle, driver, trip, and updateStatus locks
\* trip, vehicle, driver; still all of them wait for each other only in two
\* cases.  Two creates overwrite, at the same time, the drivers of vehicles they
\* read without one (trips.service.ts:51-68), and one wants the other's.  Or
\* requests about one trip overlap, and one waits for the crew of the trip that
\* another, with the crew it has claimed, waits to write: one read a stale trip.
SomeoneGoesOn ==
  (\E r \in Req : InProgress(r)) =>
    \/ \E r \in Req : InProgress(r) /\ ~Waits(r)
    \/ \E q, r \in Req : q # r /\ Relinks(q) /\ Relinks(r)
                           /\ vehicle[tx[q].vehicle].driver = tx[r].driver
    \/ Overlap /\ \E q, r \in Req : Ends(q, r)
=============================================================================
