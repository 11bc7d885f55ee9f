----------------------------- MODULE FleetProofs -----------------------------
(***************************************************************************)
(* What the transactions of the fleet ledger guarantee under any           *)
(* interleaving (Overlap = TRUE included), for any number of deals,        *)
(* vehicles, drivers and requests.                                         *)
(*                                                                         *)
(* The inductive invariant says where a transaction can be (Shape), that a *)
(* row has one holder (RowsExclusive), that what a transaction checked     *)
(* about a row it holds is still so (ClaimsHold), and that a trip about    *)
(* to enter a crewed status has its crew already (CrewAhead).              *)
(***************************************************************************)
EXTENDS Fleet, TLAPS

\* A transaction that books a vehicle and a driver, by statement.
BookingShape(t) ==
  /\ t.op \in {"create", "assign"} /\ t.trip \in Deal
  /\ t.vehicle \in Vehicle /\ t.next = "ASSIGNED"
  /\ \/ t.pc = "readVehicle" /\ t.op = "assign" /\ t.held = {}
     \/ /\ t.driver \in Driver
        /\ \/ t.pc = "claimVehicle" /\ t.held = {}
           \/ t.pc = "linkDriver" /\ t.op = "create" /\ t.held = {"vehicle"}
           \/ t.pc = "claimDriver" /\ t.held = {"vehicle"}
           \/ t.pc = "writeTrip" /\ t.held = {"vehicle", "driver"}
           \/ t.pc = "commit" /\ t.held = {"vehicle", "driver", "trip"}

\* A transaction that creates a trip without a crew.
OpeningShape(t) ==
  /\ t.op = "create" /\ t.trip \in Deal
  /\ t.vehicle = Null /\ t.driver = Null /\ t.next = "CREATED"
  /\ \/ t.pc = "writeTrip" /\ t.held = {}
     \/ t.pc = "commit" /\ t.held = {"trip"}

\* A transaction that changes a status.
StatusShape(t) ==
  /\ t.op = "status" /\ t.trip \in Deal /\ t.next \in TripStatus
  /\ \/ t.pc = "writeTrip" /\ t.held = {}
     \/ t.pc = "freeVehicle" /\ t.held = {"trip"} /\ t.vehicle \in Vehicle
     \/ t.pc = "freeDriver" /\ t.driver \in Driver /\ t.held \in {{"trip"}, {"trip", "vehicle"}}
     \/ t.pc = "commit" /\ "trip" \in t.held
  /\ "vehicle" \in t.held => t.vehicle \in Vehicle
  /\ "driver" \in t.held => t.driver \in Driver

Shape(r) ==
  \/ tx[r] = Idle
  \/ BookingShape(tx[r])
  \/ OpeningShape(tx[r])
  \/ StatusShape(tx[r])

RowsExclusive ==
  \A q, r \in Req : \A k \in {"trip", "vehicle", "driver"} :
    q # r /\ k \in tx[q].held /\ k \in tx[r].held => tx[q][k] # tx[r][k]

ClaimsHold(r) ==
  /\ Booking(r) /\ "vehicle" \in tx[r].held => vehicle[tx[r].vehicle].status = "AVAILABLE"
  /\ Booking(r) /\ "driver" \in tx[r].held => driver[tx[r].driver] = "AVAILABLE"
  /\ tx[r].op = "create" /\ "trip" \in tx[r].held => trip[tx[r].trip].status = "NONE"

Crewed(d) == trip[d].vehicle # Null /\ trip[d].driver # Null

CrewAhead(r) ==
  tx[r].op = "status" =>
    /\ trip[tx[r].trip].status # "NONE"
    /\ tx[r].next \in ActiveStatus \cup {"CLOSED"} => Crewed(tx[r].trip)

CrewPaired ==
  \A d \in Deal :
    /\ trip[d].vehicle = Null <=> trip[d].driver = Null
    /\ trip[d].status = "NONE" => trip[d].vehicle = Null

TxInv(r) == Shape(r) /\ ClaimsHold(r) /\ CrewAhead(r)

Inv ==
  /\ TypeOK
  /\ \A r \in Req : TxInv(r)
  /\ RowsExclusive
  /\ CrewPaired
  /\ AssignedHasCrew

-----------------------------------------------------------------------------
USE NullAssumption

\* The tables begin with no trips and no transactions.
LEMMA InitInv == Init => Inv
<1> SUFFICES ASSUME Init PROVE Inv OBVIOUS
<1>1. TypeOK
  <2>1. NoTrip \in TripRow BY DEF NoTrip, TripRow
  <2>2. NoEvent \in EventRow BY DEF NoEvent, EventRow
  <2>3. Idle \in Transaction BY DEF Idle, Transaction, Op, Statement
  <2>4. vehicle \in [Vehicle -> VehicleRow] BY DEF Init, VehicleRow, VehicleStatus
  <2> QED BY <2>1, <2>2, <2>3, <2>4 DEF Init, TypeOK
<1>2. \A r \in Req : TxInv(r) BY DEF Init, TxInv, Shape, ClaimsHold, CrewAhead, Booking, Idle
<1>3. RowsExclusive BY DEF Init, RowsExclusive, Idle
<1>4. CrewPaired /\ AssignedHasCrew
  BY DEF Init, CrewPaired, AssignedHasCrew, NoTrip, ActiveStatus
<1> QED BY <1>1, <1>2, <1>3, <1>4 DEF Inv

\* A step that changes one transaction and no table keeps the invariant, if
\* the transaction it leaves fits it and shares no held row.
LEMMA StepInv ==
  ASSUME Inv, NEW r \in Req, NEW t \in Transaction, Becomes(r, t), UNCHANGED Tables,
         TxInv(r)',
         \A q \in Req \ {r} : \A k \in {"trip", "vehicle", "driver"} :
           k \in t.held /\ k \in tx[q].held => tx[q][k] # t[k]
  PROVE  Inv'
<1>1. tx'[r] = t /\ \A q \in Req \ {r} : tx'[q] = tx[q] BY DEF Inv, TypeOK, Becomes
<1>2. TypeOK' BY DEF Inv, TypeOK, Becomes, Tables
<1>3. \A q \in Req : TxInv(q)'
  <2> SUFFICES ASSUME NEW q \in Req \ {r} PROVE TxInv(q)' OBVIOUS
  <2> QED BY <1>1 DEF Inv, TxInv, Shape, ClaimsHold, CrewAhead, Crewed, Booking, Tables
<1>4. RowsExclusive' BY <1>1 DEF Inv, RowsExclusive
<1>5. CrewPaired' /\ AssignedHasCrew' BY DEF Inv, CrewPaired, AssignedHasCrew, Tables
<1> QED BY <1>2, <1>3, <1>4, <1>5 DEF Inv

\* A transaction that ends, or begins without a row, holds nothing to share.
LEMMA EndTxInv ==
  ASSUME Inv, NEW r \in Req, Becomes(r, Idle), UNCHANGED Tables PROVE Inv'
<1>1. Idle \in Transaction BY DEF Idle, Transaction, Op, Statement
<1>2. tx'[r] = Idle BY DEF Inv, TypeOK, Becomes
<1>3. TxInv(r)' BY <1>2 DEF TxInv, Shape, ClaimsHold, CrewAhead, Booking, Idle
<1>4. Idle.held = {} BY DEF Idle
<1> QED BY <1>1, <1>3, <1>4, StepInv

-----------------------------------------------------------------------------
(* First statements.                                                       *)

LEMMA CreateWithoutCrewInv ==
  ASSUME Inv, NEW r \in Req, NEW d \in Deal, CreateWithoutCrew(r, d) PROVE Inv'
<1> DEFINE t == [Idle EXCEPT !.op = "create", !.pc = "writeTrip", !.trip = d, !.next = "CREATED"]
<1>1. t \in Transaction BY DEF Idle, Transaction, Op, Statement, TripStatus
<1>2. Becomes(r, t) /\ UNCHANGED Tables BY DEF CreateWithoutCrew
<1>3. tx'[r] = t BY <1>2 DEF Inv, TypeOK, Becomes
<1>4. OpeningShape(t) /\ t.held = {} /\ t.op = "create" BY DEF OpeningShape, Idle
<1>5. TxInv(r)' BY <1>3, <1>4 DEF TxInv, Shape, ClaimsHold, CrewAhead
<1> QED BY <1>1, <1>2, <1>4, <1>5, StepInv

LEMMA CreateWithCrewInv ==
  ASSUME Inv, NEW r \in Req, NEW d \in Deal, NEW v \in Vehicle, NEW input \in Driver \cup {Null},
         CreateWithCrew(r, d, v, input)
  PROVE  Inv'
<1> DEFINE p == IF input # Null THEN input ELSE vehicle[v].driver
           t == [Idle EXCEPT !.op = "create", !.pc = "claimVehicle", !.trip = d,
                             !.vehicle = v, !.driver = p, !.next = "ASSIGNED"]
<1>1. p \in Driver BY DEF Inv, TypeOK, VehicleRow, CreateWithCrew
<1> HIDE DEF p
<1>2. t \in Transaction BY <1>1 DEF Idle, Transaction, Op, Statement, TripStatus
<1>3. Becomes(r, t) /\ UNCHANGED Tables BY DEF CreateWithCrew, p
<1>4. tx'[r] = t BY <1>3 DEF Inv, TypeOK, Becomes
<1>5. BookingShape(t) /\ t.held = {} /\ t.op = "create" BY <1>1 DEF BookingShape, Idle
<1>6. TxInv(r)' BY <1>4, <1>5 DEF TxInv, Shape, ClaimsHold, CrewAhead
<1> QED BY <1>2, <1>3, <1>5, <1>6, StepInv

LEMMA AssignReadTripInv ==
  ASSUME Inv, NEW r \in Req, NEW d \in Deal, NEW v \in Vehicle, AssignReadTrip(r, d, v)
  PROVE  Inv'
<1> DEFINE t == [Idle EXCEPT !.op = "assign", !.pc = "readVehicle", !.trip = d,
                             !.vehicle = v, !.prev = "CREATED", !.next = "ASSIGNED"]
<1>1. t \in Transaction BY DEF Idle, Transaction, Op, Statement, TripStatus
<1>2. Becomes(r, t) /\ UNCHANGED Tables BY DEF AssignReadTrip
<1>3. tx'[r] = t BY <1>2 DEF Inv, TypeOK, Becomes
<1>4. BookingShape(t) /\ t.held = {} /\ t.op = "assign" BY DEF BookingShape, Idle
<1>5. TxInv(r)' BY <1>3, <1>4 DEF TxInv, Shape, ClaimsHold, CrewAhead
<1> QED BY <1>1, <1>2, <1>4, <1>5, StepInv

\* A status request that was admitted found the crew the new status needs:
\* either the trip had it in its old status, or the request was refused
\* without a vehicle.
LEMMA StatusReadTripInv ==
  ASSUME Inv, NEW r \in Req, NEW d \in Deal, NEW s \in TripStatus, StatusReadTrip(r, d, s)
  PROVE  Inv'
<1> DEFINE t == [Idle EXCEPT !.op = "status", !.pc = "writeTrip", !.trip = d,
                             !.vehicle = trip[d].vehicle, !.driver = trip[d].driver,
                             !.prev = trip[d].status, !.next = s]
<1>1. trip[d] \in TripRow BY DEF Inv, TypeOK
<1>2. t \in Transaction BY <1>1 DEF Idle, Transaction, Op, Statement, TripRow
<1>3. Becomes(r, t) /\ UNCHANGED Tables BY DEF StatusReadTrip
<1>4. tx'[r] = t BY <1>3 DEF Inv, TypeOK, Becomes
<1>5. /\ StatusShape(t) /\ t.held = {} /\ t.op = "status" /\ t.trip = d /\ t.next = s
  BY DEF StatusShape, Idle
<1>6. trip[d].status # "NONE" BY DEF StatusReadTrip
<1>7. s \in ActiveStatus \cup {"CLOSED"} => Crewed(d)
  <2> SUFFICES ASSUME s \in ActiveStatus \cup {"CLOSED"} PROVE Crewed(d) OBVIOUS
  <2>1. CASE s = "ASSIGNED" BY <2>1 DEF StatusReadTrip, Inv, CrewPaired, Crewed
  <2>2. CASE s # "ASSIGNED"
    <3>1. trip[d].status \in TripStatus BY <1>1, <1>6 DEF TripRow
    <3>2. s \in allowedTransitions[trip[d].status] BY DEF StatusReadTrip, canTransition
    <3>3. trip[d].status \in ActiveStatus
      BY <2>2, <3>1, <3>2 DEF allowedTransitions, ActiveStatus, TripStatus
    <3> QED BY <3>3 DEF Inv, AssignedHasCrew, Crewed
  <2> QED BY <2>1, <2>2
<1>8. TxInv(r)'
  BY <1>3, <1>4, <1>5, <1>6, <1>7 DEF TxInv, Shape, ClaimsHold, CrewAhead, Crewed, Booking, Tables
<1> QED BY <1>2, <1>3, <1>5, <1>8, StepInv

-----------------------------------------------------------------------------
(* Later statements: each leaves the tables alone and takes at most one    *)
(* row, which it found free.                                               *)

\* Taking a row nobody holds keeps its holder unique.
LEMMA HoldsInv ==
  ASSUME Inv, NEW r \in Req, NEW k \in {"trip", "vehicle", "driver"}, NEW pc \in Statement,
         ~Locked(r, k), Holds(r, k, pc), UNCHANGED Tables, TxInv(r)'
  PROVE  Inv'
<1> DEFINE t == [tx[r] EXCEPT !.held = @ \cup {k}, !.pc = pc]
<1>1. tx[r] \in Transaction BY DEF Inv, TypeOK
<1>2. t \in Transaction BY <1>1 DEF Transaction
<1>3. Becomes(r, t) BY DEF Becomes, Holds
<1>4. t.held = tx[r].held \cup {k} /\ \A j \in {"trip", "vehicle", "driver"} : t[j] = tx[r][j]
  BY <1>1 DEF Transaction
<1>5. \A q \in Req \ {r} : \A j \in {"trip", "vehicle", "driver"} :
        j \in t.held /\ j \in tx[q].held => tx[q][j] # t[j]
  BY <1>4 DEF Locked, Inv, RowsExclusive
<1> QED BY <1>2, <1>3, <1>5, StepInv

LEMMA AssignReadVehicleInv ==
  ASSUME Inv, NEW r \in Req, AssignReadVehicle(r) PROVE Inv'
<1> DEFINE p == vehicle[tx[r].vehicle].driver
           t == [tx[r] EXCEPT !.pc = "claimVehicle", !.driver = p]
<1>1. tx[r] \in Transaction BY DEF Inv, TypeOK
<1>2. tx[r].pc = "readVehicle" /\ Becomes(r, t) /\ UNCHANGED Tables BY DEF AssignReadVehicle
<1>3. BookingShape(tx[r])
  BY <1>2 DEF Inv, TxInv, Shape, OpeningShape, StatusShape, Idle
<1>4. p \in Driver
  BY <1>3 DEF BookingShape, AssignReadVehicle, Assignable, Inv, TypeOK, VehicleRow
<1>5. t \in Transaction BY <1>1, <1>4 DEF Transaction, Statement
<1>6. tx'[r] = t BY <1>2 DEF Inv, TypeOK, Becomes
<1>7. BookingShape(t) /\ t.held = {} /\ t.op = "assign"
  BY <1>1, <1>2, <1>3, <1>4 DEF BookingShape, Transaction
<1>8. TxInv(r)' BY <1>6, <1>7 DEF TxInv, Shape, ClaimsHold, CrewAhead
<1> QED BY <1>2, <1>5, <1>7, <1>8, StepInv

LEMMA ClaimVehicleInv ==
  ASSUME Inv, NEW r \in Req, ClaimVehicle(r) PROVE Inv'
<1>1. tx[r] \in Transaction BY DEF Inv, TypeOK
<1>2. PICK pc \in Statement :
        /\ (pc = "linkDriver" /\ tx[r].op = "create") \/ pc = "claimDriver"
        /\ Holds(r, "vehicle", pc)
  BY DEF ClaimVehicle, Statement
<1>3. UNCHANGED Tables /\ tx[r].pc = "claimVehicle" /\ ~Locked(r, "vehicle")
      /\ vehicle[tx[r].vehicle].status = "AVAILABLE"
  BY DEF ClaimVehicle
<1>4. BookingShape(tx[r]) /\ tx[r].held = {}
  BY <1>3 DEF Inv, TxInv, Shape, BookingShape, OpeningShape, StatusShape, Idle
<1>5. tx'[r] = [tx[r] EXCEPT !.held = {"vehicle"}, !.pc = pc]
  BY <1>1, <1>2, <1>4 DEF Inv, TypeOK, Holds
<1>6. BookingShape(tx'[r]) /\ tx'[r].held = {"vehicle"} /\ tx'[r].vehicle = tx[r].vehicle
  BY <1>1, <1>2, <1>3, <1>4, <1>5 DEF BookingShape, Transaction
<1>7. TxInv(r)'
  BY <1>3, <1>6 DEF TxInv, Shape, BookingShape, ClaimsHold, CrewAhead, Booking, Tables
<1> QED BY <1>2, <1>3, <1>7, HoldsInv

LEMMA LinkDriverInv ==
  ASSUME Inv, NEW r \in Req, LinkDriver(r) PROVE Inv'
<1> DEFINE t == [tx[r] EXCEPT !.pc = "claimDriver"]
<1>1. tx[r] \in Transaction BY DEF Inv, TypeOK
<1>2. tx[r].pc = "linkDriver" /\ Becomes(r, t) /\ UNCHANGED Tables
  BY DEF LinkDriver, Goto, Becomes
<1>3. BookingShape(tx[r]) BY <1>2 DEF Inv, TxInv, Shape, OpeningShape, StatusShape, Idle
<1>4. t \in Transaction BY <1>1 DEF Transaction, Statement
<1>5. tx'[r] = t BY <1>2 DEF Inv, TypeOK, Becomes
<1>6. /\ BookingShape(t) /\ t.held = tx[r].held /\ t.op = tx[r].op
      /\ \A k \in {"trip", "vehicle", "driver"} : t[k] = tx[r][k]
  BY <1>1, <1>2, <1>3 DEF BookingShape, Transaction
<1>7. TxInv(r)'
  BY <1>2, <1>5, <1>6 DEF Inv, TxInv, Shape, BookingShape, ClaimsHold, CrewAhead, Booking, Tables
<1>8. \A q \in Req \ {r} : \A k \in {"trip", "vehicle", "driver"} :
        k \in t.held /\ k \in tx[q].held => tx[q][k] # t[k]
  BY <1>6 DEF Inv, RowsExclusive
<1> QED BY <1>2, <1>4, <1>7, <1>8, StepInv

LEMMA ClaimDriverInv ==
  ASSUME Inv, NEW r \in Req, ClaimDriver(r) PROVE Inv'
<1>1. tx[r] \in Transaction BY DEF Inv, TypeOK
<1>2. /\ Holds(r, "driver", "writeTrip") /\ UNCHANGED Tables /\ tx[r].pc = "claimDriver"
      /\ ~Locked(r, "driver") /\ driver[tx[r].driver] = "AVAILABLE"
  BY DEF ClaimDriver
<1>3. BookingShape(tx[r]) /\ tx[r].held = {"vehicle"}
  BY <1>2 DEF Inv, TxInv, Shape, BookingShape, OpeningShape, StatusShape, Idle
<1>4. tx'[r] = [tx[r] EXCEPT !.held = {"vehicle", "driver"}, !.pc = "writeTrip"]
  BY <1>1, <1>2, <1>3 DEF Inv, TypeOK, Holds
<1>5. /\ BookingShape(tx'[r]) /\ tx'[r].held = {"vehicle", "driver"} /\ tx'[r].op = tx[r].op
      /\ tx'[r].vehicle = tx[r].vehicle /\ tx'[r].driver = tx[r].driver
  BY <1>1, <1>2, <1>3, <1>4 DEF BookingShape, Transaction
<1>6. ClaimsHold(r) BY DEF Inv, TxInv
<1>7. TxInv(r)'
  BY <1>2, <1>3, <1>5, <1>6 DEF TxInv, Shape, BookingShape, ClaimsHold, CrewAhead, Booking, Tables
<1>8. "writeTrip" \in Statement BY DEF Statement
<1> QED BY <1>2, <1>7, <1>8, HoldsInv

\* Which statement follows the write of the trip.
AfterTrip(r) ==
  CASE Frees(r, "vehicle") -> "freeVehicle"
    [] ~Frees(r, "vehicle") /\ Frees(r, "driver") -> "freeDriver"
    [] OTHER -> "commit"

LEMMA WriteTripInv ==
  ASSUME Inv, NEW r \in Req, WriteTrip(r) PROVE Inv'
<1> DEFINE pc == AfterTrip(r)
<1>1. tx[r] \in Transaction BY DEF Inv, TypeOK
<1>2. /\ Holds(r, "trip", pc) /\ UNCHANGED Tables /\ tx[r].pc = "writeTrip"
      /\ ~Locked(r, "trip") /\ ~InsertRefused(r)
  BY DEF WriteTrip, AfterTrip
<1>3. pc \in Statement BY DEF AfterTrip, Statement
<1> HIDE DEF pc
<1>4. tx'[r] = [tx[r] EXCEPT !.held = @ \cup {"trip"}, !.pc = pc]
  BY <1>2 DEF Inv, TypeOK, Holds
<1>5. /\ tx'[r].held = tx[r].held \cup {"trip"} /\ tx'[r].pc = pc
      /\ tx'[r].op = tx[r].op /\ tx'[r].trip = tx[r].trip /\ tx'[r].next = tx[r].next
      /\ tx'[r].vehicle = tx[r].vehicle /\ tx'[r].driver = tx[r].driver
  BY <1>1, <1>4 DEF Transaction
<1>6. Shape(r)'
  <2>1. CASE BookingShape(tx[r])
    <3>1. pc = "commit" BY <2>1 DEF pc, AfterTrip, Frees, BookingShape
    <3> QED BY <1>2, <1>5, <2>1, <3>1 DEF BookingShape, Shape
  <2>2. CASE OpeningShape(tx[r])
    <3>1. pc = "commit" BY <2>2 DEF pc, AfterTrip, Frees, OpeningShape
    <3> QED BY <1>2, <1>5, <2>2, <3>1 DEF OpeningShape, Shape
  <2>3. CASE StatusShape(tx[r])
    <3>1. tx[r].held = {} BY <1>2, <2>3 DEF StatusShape
    <3>2. \/ pc = "freeVehicle" /\ tx[r].vehicle # Null
          \/ pc = "freeDriver" /\ tx[r].driver # Null
          \/ pc = "commit"
      BY DEF pc, AfterTrip, Frees
    <3>3. StatusShape(tx'[r]) BY <1>1, <1>5, <2>3, <3>1, <3>2 DEF StatusShape, Transaction
    <3> QED BY <3>3 DEF Shape
  <2> QED BY <1>2, <2>1, <2>2, <2>3 DEF Inv, TxInv, Shape, Idle
<1>7. ClaimsHold(r)' /\ CrewAhead(r)'
  BY <1>2, <1>5 DEF Inv, TxInv, ClaimsHold, CrewAhead, Crewed, Booking, InsertRefused, Tables
<1> QED BY <1>2, <1>3, <1>6, <1>7, HoldsInv DEF TxInv

\* Freeing writes rows a status request holds; ClaimsHold asks nothing of it.
LEMMA FreeVehicleInv ==
  ASSUME Inv, NEW r \in Req, FreeVehicle(r) PROVE Inv'
<1> DEFINE pc == IF Frees(r, "driver") THEN "freeDriver" ELSE "commit"
<1>1. tx[r] \in Transaction BY DEF Inv, TypeOK
<1>2. /\ Holds(r, "vehicle", pc) /\ UNCHANGED Tables /\ tx[r].pc = "freeVehicle"
      /\ ~Locked(r, "vehicle")
  BY DEF FreeVehicle
<1>3. pc \in Statement BY DEF Statement
<1>4. StatusShape(tx[r]) /\ tx[r].held = {"trip"} /\ tx[r].vehicle \in Vehicle
  BY <1>2 DEF Inv, TxInv, Shape, BookingShape, OpeningShape, StatusShape, Idle
<1>5. (pc = "freeDriver" /\ tx[r].driver \in Driver) \/ pc = "commit"
  BY <1>1 DEF Frees, Transaction
<1> HIDE DEF pc
<1>6. tx'[r] = [tx[r] EXCEPT !.held = {"trip", "vehicle"}, !.pc = pc]
  BY <1>1, <1>2, <1>4 DEF Inv, TypeOK, Holds
<1>7. /\ StatusShape(tx'[r]) /\ tx'[r].op = "status"
      /\ tx'[r].trip = tx[r].trip /\ tx'[r].next = tx[r].next
  BY <1>1, <1>4, <1>5, <1>6 DEF StatusShape, Transaction
<1>8. TxInv(r)'
  BY <1>2, <1>4, <1>7 DEF Inv, TxInv, Shape, StatusShape, ClaimsHold, CrewAhead, Crewed, Booking, Tables
<1> QED BY <1>2, <1>3, <1>8, HoldsInv

LEMMA FreeDriverInv ==
  ASSUME Inv, NEW r \in Req, FreeDriver(r) PROVE Inv'
<1>1. tx[r] \in Transaction BY DEF Inv, TypeOK
<1>2. /\ Holds(r, "driver", "commit") /\ UNCHANGED Tables /\ tx[r].pc = "freeDriver"
      /\ ~Locked(r, "driver")
  BY DEF FreeDriver
<1>3. StatusShape(tx[r]) /\ tx[r].driver \in Driver /\ "trip" \in tx[r].held
  BY <1>2 DEF Inv, TxInv, Shape, BookingShape, OpeningShape, StatusShape, Idle
<1>4. tx'[r] = [tx[r] EXCEPT !.held = @ \cup {"driver"}, !.pc = "commit"]
  BY <1>2 DEF Inv, TypeOK, Holds
<1>5. /\ StatusShape(tx'[r]) /\ tx'[r].op = "status"
      /\ tx'[r].trip = tx[r].trip /\ tx'[r].next = tx[r].next
  BY <1>1, <1>3, <1>4 DEF StatusShape, Transaction
<1>6. TxInv(r)'
  BY <1>2, <1>3, <1>5 DEF Inv, TxInv, Shape, StatusShape, ClaimsHold, CrewAhead, Crewed, Booking, Tables
<1>7. "commit" \in Statement BY DEF Statement
<1> QED BY <1>2, <1>6, <1>7, HoldsInv

-----------------------------------------------------------------------------
(* Commit: the one step that changes the tables.                           *)

\* What a transaction about to commit is: it holds the rows it writes.
CommitShape(t) ==
  /\ t.trip \in Deal /\ "trip" \in t.held /\ t.next \in TripStatus
  /\ "vehicle" \in t.held => t.vehicle \in Vehicle
  /\ "driver" \in t.held => t.driver \in Driver
  /\ \/ /\ t.op \in {"create", "assign"} /\ t.next = "ASSIGNED"
        /\ t.held = {"trip", "vehicle", "driver"}
     \/ /\ t.op = "create" /\ t.next = "CREATED" /\ t.held = {"trip"}
        /\ t.vehicle = Null /\ t.driver = Null
     \/ t.op = "status"

LEMMA CommitRows ==
  ASSUME Inv, NEW r \in Req, Commit(r)
  PROVE  /\ CommitShape(tx[r])
         /\ tx'[r] = Idle /\ \A q \in Req \ {r} : tx'[q] = tx[q]
         /\ trip'[tx[r].trip] = TripAfter(r)
         /\ \A e \in Deal \ {tx[r].trip} : trip'[e] = trip[e]
         /\ \A v \in Vehicle : ~("vehicle" \in tx[r].held /\ v = tx[r].vehicle) => vehicle'[v] = vehicle[v]
         /\ \A p \in Driver : ~("driver" \in tx[r].held /\ p = tx[r].driver) => driver'[p] = driver[p]
<1>1. tx[r].pc = "commit" BY DEF Commit
<1>2. CommitShape(tx[r])
  <2>1. CASE BookingShape(tx[r])
    BY <1>1, <2>1 DEF BookingShape, CommitShape, TripStatus
  <2>2. CASE OpeningShape(tx[r])
    BY <1>1, <2>2 DEF OpeningShape, CommitShape, TripStatus
  <2>3. CASE StatusShape(tx[r])
    BY <1>1, <2>3 DEF StatusShape, CommitShape
  <2> QED BY <1>1, <2>1, <2>2, <2>3 DEF Inv, TxInv, Shape, Idle
<1>3. tx'[r] = Idle /\ \A q \in Req \ {r} : tx'[q] = tx[q]
  BY DEF Commit, Becomes, Inv, TypeOK
<1>4. /\ trip'[tx[r].trip] = TripAfter(r)
      /\ \A e \in Deal \ {tx[r].trip} : trip'[e] = trip[e]
  BY <1>2 DEF Commit, CommitShape, Inv, TypeOK
<1>5. \A v \in Vehicle : ~("vehicle" \in tx[r].held /\ v = tx[r].vehicle) => vehicle'[v] = vehicle[v]
  BY DEF Commit, Inv, TypeOK
<1>6. \A p \in Driver : ~("driver" \in tx[r].held /\ p = tx[r].driver) => driver'[p] = driver[p]
  BY DEF Commit, Inv, TypeOK
<1> QED BY <1>2, <1>3, <1>4, <1>5, <1>6

LEMMA CommitTypeOK == ASSUME Inv, NEW r \in Req, Commit(r) PROVE TypeOK'
<1>1. tx[r] \in Transaction /\ CommitShape(tx[r]) BY CommitRows DEF Inv, TypeOK
<1>2. TripAfter(r) \in TripRow
  <2>1. trip[tx[r].trip] \in TripRow BY <1>1 DEF CommitShape, Inv, TypeOK
  <2> QED BY <1>1, <2>1 DEF TripAfter, TripRow, CommitShape, Transaction
<1>3. trip' \in [Deal -> TripRow] BY <1>2 DEF Commit, Inv, TypeOK
<1>4. vehicle' \in [Vehicle -> VehicleRow]
  <2>1. CASE "vehicle" \in tx[r].held
    <3>1. tx[r].vehicle \in Vehicle BY <1>1, <2>1 DEF CommitShape
    <3>2. vehicle[tx[r].vehicle] \in VehicleRow BY <3>1 DEF Inv, TypeOK
    <3>3. VehicleAfter(r) \in VehicleRow
      BY <1>1, <3>2 DEF VehicleAfter, CrewStatus, VehicleRow, VehicleStatus, Transaction
    <3> QED BY <3>3 DEF Commit, Inv, TypeOK
  <2>2. CASE "vehicle" \notin tx[r].held BY <2>2 DEF Commit, Inv, TypeOK
  <2> QED BY <2>1, <2>2
<1>5. driver' \in [Driver -> DriverStatus]
  BY DEF Commit, Inv, TypeOK, CrewStatus, DriverStatus
<1>6. event' \in [Deal -> EventRow]
  <2>1. EventOf(r) \in EventRow
    BY <1>1 DEF EventOf, NoEvent, EventRow, EventType, Transaction
  <2> QED BY <2>1 DEF Commit, Inv, TypeOK
<1>7. tx' \in [Req -> Transaction]
  <2>1. Idle \in Transaction BY DEF Idle, Transaction, Op, Statement
  <2> QED BY <2>1 DEF Commit, Becomes, Inv, TypeOK
<1> QED BY <1>3, <1>4, <1>5, <1>6, <1>7 DEF TypeOK

LEMMA CommitInv == ASSUME Inv, NEW r \in Req, Commit(r) PROVE Inv'
<1>0. PICK d \in Deal : d = tx[r].trip BY CommitRows DEF CommitShape
<1>1. CommitShape(tx[r]) BY CommitRows
<1>2. trip[d] \in TripRow /\ tx[r] \in Transaction BY DEF Inv, TypeOK
<1>3. /\ trip'[d] = TripAfter(r)
      /\ \A e \in Deal \ {d} : trip'[e] = trip[e]
      /\ tx'[r] = Idle /\ \A q \in Req \ {r} : tx'[q] = tx[q]
  BY <1>0, CommitRows
<1>4. Booking(r) => \/ tx[r].next = "ASSIGNED" /\ Crewed(d)'
                    \/ /\ tx[r].next = "CREATED" /\ trip[d].status = "NONE"
                       /\ trip'[d].vehicle = Null /\ trip'[d].driver = Null
  <2>1. tx[r].op = "create" => trip[d].status = "NONE"
    BY <1>0, <1>1 DEF Inv, TxInv, ClaimsHold, CommitShape
  <2> QED BY <1>0, <1>1, <1>3, <2>1 DEF CommitShape, TripAfter, Booking, Crewed
<1>5. ~Booking(r) => /\ trip'[d].vehicle = trip[d].vehicle /\ trip'[d].driver = trip[d].driver
                     /\ trip'[d].status = tx[r].next
  BY <1>0, <1>2, <1>3 DEF TripAfter, TripRow
<1>6. trip'[d].status = tx[r].next /\ tx[r].next # "NONE"
  <2>1. tx[r].next # "NONE"
    <3>1. tx[r].next \in TripStatus BY <1>1 DEF CommitShape
    <3>2. "NONE" \notin TripStatus BY DEF TripStatus
    <3> QED BY <3>1, <3>2
  <2>2. CASE Booking(r) BY <1>3, <2>1, <2>2 DEF TripAfter
  <2> QED BY <1>5, <2>1, <2>2
<1>7. CrewPaired' BY <1>3, <1>4, <1>5, <1>6 DEF Inv, CrewPaired, Crewed
<1>8. AssignedHasCrew'
  <2>1. trip'[d].status \in ActiveStatus \cup {"CLOSED"} => Crewed(d)'
    <3>1. CASE Booking(r) BY <1>4, <1>6, <3>1 DEF ActiveStatus
    <3>2. CASE ~Booking(r)
      <4>1. CrewAhead(r) /\ tx[r].op = "status"
        BY <1>1, <3>2 DEF Inv, TxInv, CommitShape, Booking
      <4> QED BY <1>0, <1>5, <1>6, <3>2, <4>1 DEF CrewAhead, Crewed
    <3> QED BY <3>1, <3>2
  <2> QED BY <1>3, <2>1 DEF Inv, AssignedHasCrew, Crewed
<1>9. ASSUME NEW q \in Req PROVE TxInv(q)'
  <2>1. CASE q = r
    BY <1>3, <2>1 DEF TxInv, Shape, ClaimsHold, CrewAhead, Booking, Idle
  <2>2. CASE q # r
    <3>1. tx'[q] = tx[q] BY <1>3, <2>2
    <3>2. Shape(q)' BY <3>1 DEF Inv, TxInv, Shape
    <3>3. ClaimsHold(q)'
      <4>1. "vehicle" \in tx[q].held /\ tx[q].vehicle \in Vehicle =>
              vehicle'[tx[q].vehicle] = vehicle[tx[q].vehicle]
        BY <2>2, CommitRows DEF Inv, RowsExclusive
      <4>2. "driver" \in tx[q].held /\ tx[q].driver \in Driver =>
              driver'[tx[q].driver] = driver[tx[q].driver]
        BY <2>2, CommitRows DEF Inv, RowsExclusive
      <4>3. "trip" \in tx[q].held => tx[q].trip # d
        BY <1>0, <1>1, <2>2 DEF Inv, RowsExclusive, CommitShape
      <4>4. /\ Booking(q) /\ "vehicle" \in tx[q].held => tx[q].vehicle \in Vehicle
            /\ Booking(q) /\ "driver" \in tx[q].held => tx[q].driver \in Driver
            /\ "trip" \in tx[q].held => tx[q].trip \in Deal
        BY DEF Inv, TxInv, Shape, BookingShape, OpeningShape, StatusShape, Idle, Booking
      <4> QED BY <1>3, <3>1, <4>1, <4>2, <4>3, <4>4 DEF Inv, TxInv, ClaimsHold, Booking
    <3>4. CrewAhead(q)'
      <4> SUFFICES ASSUME tx[q].op = "status" PROVE CrewAhead(q)'
        BY <3>1 DEF CrewAhead
      <4>1. CrewAhead(q) /\ tx[q].trip \in Deal
        BY DEF Inv, TxInv, Shape, BookingShape, OpeningShape, StatusShape, Idle
      <4>2. CASE tx[q].trip # d BY <1>3, <3>1, <4>1, <4>2 DEF CrewAhead, Crewed
      <4>3. CASE tx[q].trip = d
        BY <1>4, <1>5, <1>6, <3>1, <4>1, <4>3 DEF CrewAhead, Crewed
      <4> QED BY <4>2, <4>3
    <3> QED BY <3>2, <3>3, <3>4 DEF TxInv
  <2> QED BY <2>1, <2>2
<1>10. RowsExclusive' BY <1>3 DEF Inv, RowsExclusive, Idle
<1> QED BY <1>7, <1>8, <1>9, <1>10, CommitTypeOK DEF Inv

-----------------------------------------------------------------------------
(* The specification.                                                      *)

\* Every step of Fleet keeps the invariant.
LEMMA NextInv == Inv /\ [Next]_vars => Inv'
<1> SUFFICES ASSUME Inv, [Next]_vars PROVE Inv' OBVIOUS
<1>1. CASE UNCHANGED vars
  BY <1>1 DEF Inv, TypeOK, TxInv, Shape, ClaimsHold, CrewAhead, Crewed, Booking,
              RowsExclusive, CrewPaired, AssignedHasCrew, vars
<1>2. ASSUME NEW r \in Req, Begin(r) PROVE Inv'
  BY <1>2, CreateWithoutCrewInv, CreateWithCrewInv, AssignReadTripInv, StatusReadTripInv
  DEF Begin
<1>3. ASSUME NEW r \in Req, Continue(r) PROVE Inv'
  <2>1. ASSUME Refuse(r) PROVE Inv' BY <2>1, EndTxInv DEF Refuse
  <2> QED BY <1>3, <2>1, AssignReadVehicleInv, ClaimVehicleInv, LinkDriverInv, ClaimDriverInv,
             WriteTripInv, FreeVehicleInv, FreeDriverInv, CommitInv DEF Continue
<1>4. ASSUME NEW r \in Req, Abort(r) PROVE Inv' BY <1>4, EndTxInv DEF Abort
<1> QED BY <1>1, <1>2, <1>3, <1>4 DEF Next

LEMMA Invariance == Spec => []Inv
BY InitInv, NextInv, PTL DEF Spec

\* The tables and the transactions stay well typed.
THEOREM TypeCorrect == Spec => []TypeOK
<1>1. Inv => TypeOK BY DEF Inv
<1> QED BY <1>1, Invariance, PTL

\* No interleaving of requests, crashes and refusals brings a trip into a
\* crewed status without a vehicle and a driver.
THEOREM CrewAlways == Spec => []AssignedHasCrew
<1>1. Inv => AssignedHasCrew BY DEF Inv
<1> QED BY <1>1, Invariance, PTL

\* The commit that gives a trip its crew finds both still AVAILABLE: the
\* claims made earlier in the transaction protect what they checked.
LEMMA CommitTakesFreeCrew ==
  ASSUME Inv, NEW r \in Req, Commit(r), NEW d \in Deal,
         trip'[d].vehicle # trip[d].vehicle \/ trip'[d].driver # trip[d].driver
  PROVE  /\ vehicle[trip'[d].vehicle].status = "AVAILABLE"
         /\ vehicle'[trip'[d].vehicle].status = "IN_TRIP"
         /\ driver[trip'[d].driver] = "AVAILABLE"
         /\ driver'[trip'[d].driver] = "IN_TRIP"
<1>1. d = tx[r].trip /\ trip'[d] = TripAfter(r) BY CommitRows
<1>2. CommitShape(tx[r]) /\ ClaimsHold(r) /\ CrewPaired BY CommitRows DEF Inv, TxInv
<1>3. trip[d] \in TripRow BY DEF Inv, TypeOK
<1>4. Booking(r) BY <1>1, <1>3 DEF TripAfter, TripRow
<1>5. trip'[d].vehicle = tx[r].vehicle /\ trip'[d].driver = tx[r].driver
  BY <1>1, <1>4 DEF TripAfter
<1>6. tx[r].held = {"trip", "vehicle", "driver"}
  <2> SUFFICES ASSUME tx[r].op = "create", tx[r].next = "CREATED", tx[r].held = {"trip"},
                      tx[r].vehicle = Null, tx[r].driver = Null
               PROVE  FALSE
    BY <1>2, <1>4 DEF CommitShape, Booking
  <2>1. trip[d].status = "NONE" BY <1>1, <1>2 DEF ClaimsHold
  <2>2. trip[d].vehicle = Null /\ trip[d].driver = Null BY <1>2, <2>1 DEF CrewPaired
  <2> QED BY <1>5, <2>2
<1>7. tx[r].vehicle \in Vehicle /\ tx[r].driver \in Driver BY <1>2, <1>6 DEF CommitShape
<1>8. vehicle'[tx[r].vehicle].status = "IN_TRIP" /\ driver'[tx[r].driver] = "IN_TRIP"
  BY <1>4, <1>6, <1>7 DEF Commit, VehicleAfter, CrewStatus, Inv, TypeOK
<1> QED BY <1>2, <1>4, <1>5, <1>6, <1>8 DEF ClaimsHold

\* Two requests never both win a vehicle or a driver: whichever commits a
\* booking, the vehicle and the driver were free until then (BookingTakesFreeCrew).
THEOREM BookingSafe == Spec => BookingTakesFreeCrew
<1> DEFINE Step ==
      \A d \in Deal :
        (trip'[d].vehicle # trip[d].vehicle \/ trip'[d].driver # trip[d].driver) =>
          /\ vehicle[trip'[d].vehicle].status = "AVAILABLE"
          /\ vehicle'[trip'[d].vehicle].status = "IN_TRIP"
          /\ driver[trip'[d].driver] = "AVAILABLE"
          /\ driver'[trip'[d].driver] = "IN_TRIP"
<1>1. ASSUME Inv, [Next]_vars PROVE [Step]_vars
  <2> SUFFICES ASSUME Next PROVE Step BY <1>1
  <2>1. ASSUME NEW r \in Req, Commit(r) PROVE Step BY <1>1, <2>1, CommitTakesFreeCrew
  <2>2. CASE UNCHANGED trip BY <2>2
  <2>3. ASSUME NEW r \in Req, Begin(r) \/ Abort(r) PROVE UNCHANGED trip
    BY <2>3 DEF Begin, Abort, CreateWithoutCrew, CreateWithCrew, AssignReadTrip,
                StatusReadTrip, Tables
  <2>4. ASSUME NEW r \in Req, Continue(r), ~Commit(r) PROVE UNCHANGED trip
    BY <2>4 DEF Continue, AssignReadVehicle, ClaimVehicle, LinkDriver, ClaimDriver,
                WriteTrip, FreeVehicle, FreeDriver, Refuse, Tables
  <2> QED BY <2>1, <2>2, <2>3, <2>4 DEF Next
<1> QED BY <1>1, Invariance, PTL DEF Spec, BookingTakesFreeCrew
=============================================================================
