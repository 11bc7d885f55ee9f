----------------------------- MODULE CrewLedger -----------------------------
(***************************************************************************)
(* What the fleet domain promises, one atomic step per accepted request: a *)
(* trip is opened, gets a free vehicle and a free driver, advances one     *)
(* stage at a time, and at its end gives both back.                        *)
(***************************************************************************)
EXTENDS TripLifecycle

CONSTANTS Deal, Vehicle, Driver, Null

VARIABLES
  trip,      \* status and crew of each deal's trip; "NONE": not opened
  vstatus,   \* status of each vehicle
  dstatus    \* status of each driver

vars == <<trip, vstatus, dstatus>>

TypeOK ==
  /\ trip \in [Deal -> [status: TripStatus \cup {"NONE"},
                        vehicle: Vehicle \cup {Null}, driver: Driver \cup {Null}]]
  /\ vstatus \in [Vehicle -> VehicleStatus]
  /\ dstatus \in [Driver -> DriverStatus]

Init ==
  /\ trip = [d \in Deal |-> [status |-> "NONE", vehicle |-> Null, driver |-> Null]]
  /\ vstatus \in [Vehicle -> VehicleStatus \ {"IN_TRIP"}]
  /\ dstatus \in [Driver -> DriverStatus \ {"IN_TRIP"}]

\* A trip without a crew.
Open(d) ==
  /\ trip[d].status = "NONE"
  /\ trip' = [trip EXCEPT ![d].status = "CREATED"]
  /\ UNCHANGED <<vstatus, dstatus>>

\* A trip, new or open, gets a free vehicle and a free driver.
Book(d, v, p) ==
  /\ trip[d].status \in {"NONE", "CREATED"}
  /\ vstatus[v] = "AVAILABLE"
  /\ dstatus[p] = "AVAILABLE"
  /\ trip' = [trip EXCEPT ![d] = [status |-> "ASSIGNED", vehicle |-> v, driver |-> p]]
  /\ vstatus' = [vstatus EXCEPT ![v] = "IN_TRIP"]
  /\ dstatus' = [dstatus EXCEPT ![p] = "IN_TRIP"]

\* One stage ahead.
Ahead == {<<"ASSIGNED", "LOADING">>, <<"LOADING", "IN_TRANSIT">>,
          <<"IN_TRANSIT", "DELIVERED">>}

Advance(d, s) ==
  /\ <<trip[d].status, s>> \in Ahead
  /\ trip' = [trip EXCEPT ![d].status = s]
  /\ UNCHANGED <<vstatus, dstatus>>

\* Closed after delivery, or cancelled before it; the crew, if any, is free.
Ending == {<<"DELIVERED", "CLOSED">>}
            \cup ({"CREATED", "ASSIGNED", "LOADING", "IN_TRANSIT"} \X {"CANCELLED"})

End(d, s) ==
  /\ <<trip[d].status, s>> \in Ending
  /\ trip' = [trip EXCEPT ![d].status = s]
  /\ vstatus' = [v \in Vehicle |-> IF v = trip[d].vehicle THEN "AVAILABLE" ELSE vstatus[v]]
  /\ dstatus' = [p \in Driver |-> IF p = trip[d].driver THEN "AVAILABLE" ELSE dstatus[p]]

Next ==
  \E d \in Deal :
    \/ Open(d)
    \/ \E v \in Vehicle, p \in Driver : Book(d, v, p)
    \/ \E s \in TripStatus : Advance(d, s) \/ End(d, s)

Spec == Init /\ [][Next]_vars

-----------------------------------------------------------------------------
Active(d) == trip[d].status \in ActiveStatus

\* A trip has a crew from its assignment on, and none before.
CrewKnown ==
  \A d \in Deal :
    /\ Active(d) => trip[d].vehicle \in Vehicle /\ trip[d].driver \in Driver
    /\ trip[d].status \in {"NONE", "CREATED"} =>
         trip[d].vehicle = Null /\ trip[d].driver = Null

\* A vehicle or a driver is IN_TRIP exactly while some active trip has it.
CrewBusy ==
  /\ \A v \in Vehicle : vstatus[v] = "IN_TRIP" <=> \E d \in Deal : Active(d) /\ trip[d].vehicle = v
  /\ \A p \in Driver : dstatus[p] = "IN_TRIP" <=> \E d \in Deal : Active(d) /\ trip[d].driver = p

\* No two active trips share a vehicle or a driver.
CrewExclusive ==
  \A d, e \in Deal :
    Active(d) /\ Active(e) /\ d # e =>
      trip[d].vehicle # trip[e].vehicle /\ trip[d].driver # trip[e].driver

\* What the three write paths of TripsService keep true together: no vehicle
\* or driver is booked twice, left IN_TRIP with no trip, or shown free while
\* a trip has it.
CrewConsistent == CrewKnown /\ CrewBusy /\ CrewExclusive
=============================================================================
