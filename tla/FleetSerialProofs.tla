------------------------- MODULE FleetSerialProofs --------------------------
(***************************************************************************)
(* More of the fleet ledger, for any number of deals, vehicles, drivers    *)
(* and requests: a driver never gets two vehicles; only the commit of a    *)
(* request that read its trip before it changed leaves the atomic ledger,  *)
(* and the events tell the history.  Where no commit is stale, as when the *)
(* requests about one trip come one by one, the transactions implement the *)
(* ledger and crews stay consistent.                                       *)
(***************************************************************************)
EXTENDS FleetProofs

-----------------------------------------------------------------------------
(* What the steps that change no table do to their transaction.            *)

\* What a request checked of the statuses it read, it remembers.
Checked(t) ==
  /\ t.op = "assign" => t.prev = "CREATED"
  /\ t.op = "status" =>
       /\ t.prev # "NONE" /\ t.next # t.prev /\ canTransition(t.prev, t.next)
       /\ t.next = "ASSIGNED" => t.vehicle # Null

\* What it read still holds: it is not Stale.
Current(t) ==
  /\ t.op \in {"assign", "status"} => trip[t.trip].status = t.prev
  /\ t.op = "status" => trip[t.trip].vehicle = t.vehicle /\ trip[t.trip].driver = t.driver

Read(t) == Checked(t) /\ Current(t)

Others(r) == \A q \in Req \ {r} : tx'[q] = tx[q]

LEMMA Begins ==
  ASSUME Inv, NEW r \in Req, Begin(r)
  PROVE  /\ tx'[r].held = {} /\ Read(tx'[r]) /\ MayBegin(r, tx'[r].trip)
         /\ UNCHANGED Tables /\ Others(r)
<1> DEFINE G(t) == t.held = {} /\ Read(t) /\ MayBegin(r, t.trip)
<1>1. ASSUME NEW t, G(t), Becomes(r, t), UNCHANGED Tables
      PROVE  G(tx'[r]) /\ UNCHANGED Tables /\ Others(r)
  <2>1. tx'[r] = t /\ Others(r) BY <1>1 DEF Becomes, Others, Inv, TypeOK
  <2> HIDE DEF G
  <2> QED BY <1>1, <2>1
<1>2. ASSUME NEW d \in Deal, CreateWithoutCrew(r, d)
      PROVE  G(tx'[r]) /\ UNCHANGED Tables /\ Others(r)
  <2> DEFINE t == [Idle EXCEPT !.op = "create", !.pc = "writeTrip", !.trip = d,
                               !.next = "CREATED"]
  <2>1. G(t) BY <1>2 DEF CreateWithoutCrew, Idle, Read, Checked, Current
  <2>2. Becomes(r, t) /\ UNCHANGED Tables BY <1>2 DEF CreateWithoutCrew
  <2> HIDE DEF G, t
  <2> QED BY <1>1, <2>1, <2>2
<1>3. ASSUME NEW d \in Deal, NEW v \in Vehicle, NEW input \in Driver \cup {Null},
             CreateWithCrew(r, d, v, input)
      PROVE  G(tx'[r]) /\ UNCHANGED Tables /\ Others(r)
  <2> DEFINE p == IF input # Null THEN input ELSE vehicle[v].driver
             t == [Idle EXCEPT !.op = "create", !.pc = "claimVehicle", !.trip = d,
                               !.vehicle = v, !.driver = p, !.next = "ASSIGNED"]
  <2>1. Becomes(r, t) /\ UNCHANGED Tables BY <1>3 DEF CreateWithCrew
  <2> HIDE DEF p
  <2>2. G(t) BY <1>3 DEF CreateWithCrew, Idle, Read, Checked, Current
  <2> HIDE DEF G, t
  <2> QED BY <1>1, <2>1, <2>2
<1>4. ASSUME NEW d \in Deal, NEW v \in Vehicle, AssignReadTrip(r, d, v)
      PROVE  G(tx'[r]) /\ UNCHANGED Tables /\ Others(r)
  <2> DEFINE t == [Idle EXCEPT !.op = "assign", !.pc = "readVehicle", !.trip = d,
                               !.vehicle = v, !.prev = "CREATED", !.next = "ASSIGNED"]
  <2>1. G(t) BY <1>4 DEF AssignReadTrip, Idle, Read, Checked, Current
  <2>2. Becomes(r, t) /\ UNCHANGED Tables BY <1>4 DEF AssignReadTrip
  <2> HIDE DEF G, t
  <2> QED BY <1>1, <2>1, <2>2
<1>5. ASSUME NEW d \in Deal, NEW s \in TripStatus, StatusReadTrip(r, d, s)
      PROVE  G(tx'[r]) /\ UNCHANGED Tables /\ Others(r)
  <2> DEFINE t == [Idle EXCEPT !.op = "status", !.pc = "writeTrip", !.trip = d,
                               !.vehicle = trip[d].vehicle, !.driver = trip[d].driver,
                               !.prev = trip[d].status, !.next = s]
  <2>1. G(t) BY <1>5 DEF StatusReadTrip, Idle, Read, Checked, Current
  <2>2. Becomes(r, t) /\ UNCHANGED Tables BY <1>5 DEF StatusReadTrip
  <2> HIDE DEF G, t
  <2> QED BY <1>1, <2>1, <2>2
<1> HIDE DEF G
<1>6. G(tx'[r]) /\ UNCHANGED Tables /\ Others(r) BY <1>2, <1>3, <1>4, <1>5 DEF Begin
<1> QED BY <1>6 DEF G

\* The end of a request without a commit.
LEMMA Stops ==
  ASSUME Inv, NEW r \in Req, Abort(r) \/ Refuse(r)
  PROVE  tx'[r] = Idle /\ UNCHANGED Tables /\ Others(r)
BY DEF Abort, Refuse, Becomes, Others, Inv, TypeOK

\* A statement in the middle of a request.
Middle(r) ==
  \/ AssignReadVehicle(r) \/ ClaimVehicle(r) \/ LinkDriver(r) \/ ClaimDriver(r)
  \/ WriteTrip(r) \/ FreeVehicle(r) \/ FreeDriver(r)

LEMMA Goes ==
  ASSUME Inv, NEW r \in Req, Middle(r)
  PROVE  /\ tx'[r].op = tx[r].op /\ tx'[r].trip = tx[r].trip /\ tx'[r].vehicle = tx[r].vehicle
         /\ tx'[r].prev = tx[r].prev /\ tx'[r].next = tx[r].next
         /\ tx[r].pc # "readVehicle" => tx'[r].driver = tx[r].driver
         /\ UNCHANGED Tables /\ Others(r) /\ tx[r].trip \in Deal
<1>1. tx[r] \in Transaction BY DEF Inv, TypeOK
<1>2. CASE AssignReadVehicle(r)
  BY <1>1, <1>2 DEF AssignReadVehicle, Becomes, Others, Inv, TypeOK, TxInv, Shape,
                    BookingShape, OpeningShape, StatusShape, Idle, Transaction
<1>3. CASE LinkDriver(r)
  BY <1>1, <1>3 DEF LinkDriver, Goto, Others, Inv, TypeOK, TxInv, Shape,
                    BookingShape, OpeningShape, StatusShape, Idle, Transaction
<1>4. ASSUME NEW k, NEW pc, Holds(r, k, pc), UNCHANGED Tables, tx[r].pc \notin {"idle", "readVehicle"}
      PROVE  /\ tx'[r].op = tx[r].op /\ tx'[r].trip = tx[r].trip
             /\ tx'[r].vehicle = tx[r].vehicle /\ tx'[r].driver = tx[r].driver
             /\ tx'[r].prev = tx[r].prev /\ tx'[r].next = tx[r].next
             /\ UNCHANGED Tables /\ Others(r) /\ tx[r].trip \in Deal
  BY <1>1, <1>4 DEF Holds, Others, Inv, TypeOK, TxInv, Shape,
                    BookingShape, OpeningShape, StatusShape, Idle, Transaction
<1>5. CASE ClaimVehicle(r) \/ ClaimDriver(r) \/ WriteTrip(r) \/ FreeVehicle(r) \/ FreeDriver(r)
  BY <1>4, <1>5 DEF ClaimVehicle, ClaimDriver, WriteTrip, FreeVehicle, FreeDriver
<1> QED BY <1>2, <1>3, <1>5 DEF Middle

-----------------------------------------------------------------------------
(* One vehicle per driver.                                                 *)

\* A creation that has passed the unique index: its vehicle's row, not yet
\* committed, names the driver.
Linked(r) == tx[r].op = "create" /\ "vehicle" \in tx[r].held /\ tx[r].pc # "linkDriver"

LinkInv ==
  /\ OneVehiclePerDriver
  /\ \A r \in Req : Linked(r) =>
       \A w \in Vehicle \ {tx[r].vehicle} : vehicle[w].driver # tx[r].driver
  /\ \A q, r \in Req : q # r /\ Linked(q) /\ Linked(r) => tx[q].driver # tx[r].driver

LEMMA InitLink == Init => LinkInv
BY DEF Init, LinkInv, OneVehiclePerDriver, Linked, Idle

\* A transaction that does not pass the index, and does not commit, moves.
LEMMA MoveLink ==
  ASSUME Inv, LinkInv, NEW r \in Req, UNCHANGED vehicle,
         \A q \in Req \ {r} : tx'[q] = tx[q],
         Linked(r)' => /\ Linked(r)
                       /\ tx'[r].vehicle = tx[r].vehicle /\ tx'[r].driver = tx[r].driver
  PROVE  LinkInv'
BY DEF LinkInv, OneVehiclePerDriver, Linked

\* Who passes the index finds the driver at no other vehicle, and at no other
\* creation that has passed it.
LEMMA PassLink ==
  ASSUME Inv, LinkInv, NEW r \in Req, UNCHANGED vehicle,
         \A q \in Req \ {r} : tx'[q] = tx[q],
         tx'[r].vehicle = tx[r].vehicle, tx'[r].driver = tx[r].driver,
         \A w \in Vehicle \ {tx[r].vehicle} : vehicle[w].driver # tx[r].driver,
         \A q \in Req \ {r} : Linked(q) => tx[q].driver # tx[r].driver
  PROVE  LinkInv'
BY DEF LinkInv, OneVehiclePerDriver, Linked

LEMMA ClaimVehicleLink == ASSUME Inv, LinkInv, NEW r \in Req, ClaimVehicle(r) PROVE LinkInv'
<1>1. tx[r] \in Transaction /\ tx[r].pc = "claimVehicle" /\ UNCHANGED vehicle
  BY DEF Inv, TypeOK, ClaimVehicle, Tables
<1>2. PICK pc \in Statement :
        /\ Holds(r, "vehicle", pc)
        /\ (tx[r].op = "create" /\ pc # "linkDriver") =>
             (vehicle[tx[r].vehicle].driver = tx[r].driver)
  BY DEF ClaimVehicle, Statement
<1>3. /\ tx'[r].vehicle = tx[r].vehicle /\ tx'[r].driver = tx[r].driver
      /\ tx'[r].op = tx[r].op /\ tx'[r].pc = pc
      /\ \A q \in Req \ {r} : tx'[q] = tx[q]
  BY <1>1, <1>2 DEF Inv, TypeOK, Holds, Transaction
<1>4. BookingShape(tx[r]) /\ tx[r].vehicle \in Vehicle /\ tx[r].driver \in Driver
  BY <1>1 DEF Inv, TxInv, Shape, BookingShape, OpeningShape, StatusShape, Idle
<1>5. CASE tx[r].op = "create" /\ pc # "linkDriver"
  <2>0. vehicle[tx[r].vehicle].driver = tx[r].driver BY ONLY <1>2, <1>5
  <2>1. vehicle[tx[r].vehicle].driver = tx[r].driver /\ tx[r].driver # Null
    BY <2>0, <1>4, NullAssumption
  <2>2. \A w \in Vehicle \ {tx[r].vehicle} : vehicle[w].driver # tx[r].driver
    BY <1>4, <2>1 DEF LinkInv, OneVehiclePerDriver
  <2>3. \A q \in Req \ {r} : Linked(q) => tx[q].vehicle # tx[r].vehicle
    BY DEF ClaimVehicle, Locked, Linked
  <2>4. \A q \in Req \ {r} : Linked(q) => tx[q].driver # tx[r].driver
    BY <1>4, <2>1, <2>3 DEF LinkInv
  <2> QED BY <1>1, <1>3, <2>2, <2>4, PassLink
<1>6. CASE ~(tx[r].op = "create" /\ pc # "linkDriver")
  <2>1. ~Linked(r)' BY <1>3, <1>6 DEF Linked
  <2> QED BY <1>1, <1>3, <2>1, MoveLink
<1> QED BY <1>5, <1>6

LEMMA LinkDriverLink == ASSUME Inv, LinkInv, NEW r \in Req, LinkDriver(r) PROVE LinkInv'
<1>1. tx[r] \in Transaction /\ UNCHANGED vehicle BY DEF Inv, TypeOK, LinkDriver, Tables
<1>2. /\ tx'[r].vehicle = tx[r].vehicle /\ tx'[r].driver = tx[r].driver
      /\ \A q \in Req \ {r} : tx'[q] = tx[q]
  BY <1>1 DEF Inv, TypeOK, LinkDriver, Goto, Transaction
<1>3. \A w \in Vehicle \ {tx[r].vehicle} : vehicle[w].driver # tx[r].driver
  BY DEF LinkDriver, DriverLinkedElsewhere
<1>4. BookingShape(tx[r]) /\ tx[r].held = {"vehicle"}
  BY DEF LinkDriver, Inv, TxInv, Shape, BookingShape, OpeningShape, StatusShape, Idle
<1>5. \A q \in Req \ {r} : Linked(q) => tx[q].driver # tx[r].driver
  <2> SUFFICES ASSUME NEW q \in Req \ {r}, Linked(q) PROVE tx[q].driver # tx[r].driver
    OBVIOUS
  <2>1. tx[q].vehicle # tx[r].vehicle BY <1>4 DEF Linked, Inv, RowsExclusive
  <2> QED BY <2>1 DEF Linked, LinkDriver, DriverIndexBusy
<1> QED BY <1>1, <1>2, <1>3, <1>5, PassLink

\* The driver of a creation that commits is at no other vehicle.
LEMMA CommitLink == ASSUME Inv, LinkInv, NEW r \in Req, Commit(r) PROVE LinkInv'
<1> DEFINE v == tx[r].vehicle
           wrote == "vehicle" \in tx[r].held
<1>1. /\ CommitShape(tx[r]) /\ tx'[r] = Idle
      /\ \A q \in Req \ {r} : tx'[q] = tx[q]
      /\ \A w \in Vehicle : ~(wrote /\ w = v) => vehicle'[w] = vehicle[w]
  BY CommitRows
<1>2. ~Linked(r)' BY <1>1 DEF Linked, Idle
<1>3. CASE wrote /\ tx[r].op = "create"
  <2>1. v \in Vehicle /\ vehicle'[v].driver = tx[r].driver
    BY <1>1, <1>3 DEF Commit, VehicleAfter, CommitShape, Inv, TypeOK
  <2>2. Linked(r) BY <1>3 DEF Linked, Commit
  <2> QED BY <1>1, <1>2, <2>1, <2>2 DEF LinkInv, OneVehiclePerDriver, Linked
<1>4. CASE ~(wrote /\ tx[r].op = "create")
  <2>1. \A w \in Vehicle : vehicle'[w].driver = vehicle[w].driver
    BY <1>1, <1>4 DEF Commit, VehicleAfter, CommitShape, Inv, TypeOK
  <2> QED BY <1>1, <1>2, <2>1 DEF LinkInv, OneVehiclePerDriver, Linked
<1> QED BY <1>3, <1>4

\* Every step of Fleet keeps a driver at one vehicle.
LEMMA NextLink == Inv /\ LinkInv /\ [Next]_vars => LinkInv'
<1> SUFFICES ASSUME Inv, LinkInv, [Next]_vars PROVE LinkInv' OBVIOUS
<1>1. CASE UNCHANGED vars BY <1>1 DEF LinkInv, OneVehiclePerDriver, Linked, vars
<1>2. ASSUME NEW r \in Req, Begin(r) \/ Abort(r) \/ Refuse(r) PROVE LinkInv'
  <2>1. tx'[r].held = {} /\ Others(r) /\ UNCHANGED vehicle
    BY <1>2, Begins, Stops DEF Idle, Tables
  <2> QED BY <2>1, MoveLink DEF Linked, Others
<1>3. ASSUME NEW r \in Req, Middle(r), ~ClaimVehicle(r), ~LinkDriver(r) PROVE LinkInv'
  <2>1. /\ tx'[r].op = tx[r].op /\ tx'[r].vehicle = tx[r].vehicle
        /\ tx[r].pc # "readVehicle" => tx'[r].driver = tx[r].driver
        /\ Others(r) /\ UNCHANGED vehicle
    BY <1>3, Goes DEF Tables
  <2>2. CASE AssignReadVehicle(r)
    <3>1. tx[r].op = "assign"
      BY <2>2 DEF AssignReadVehicle, Inv, TxInv, Shape, BookingShape, OpeningShape,
                  StatusShape, Idle
    <3> QED BY <2>1, <3>1, MoveLink DEF Linked, Others
  <2>3. CASE ClaimDriver(r) \/ WriteTrip(r) \/ FreeVehicle(r) \/ FreeDriver(r)
    <3>1. /\ tx[r].pc \notin {"linkDriver", "readVehicle"}
          /\ tx'[r].held \cap {"vehicle"} = tx[r].held \cap {"vehicle"} \/ tx[r].op # "create"
      BY <2>3 DEF ClaimDriver, WriteTrip, FreeVehicle, FreeDriver, Holds, Inv, TypeOK,
                  Transaction, TxInv, Shape, BookingShape, OpeningShape, StatusShape, Idle
    <3> QED BY <2>1, <3>1, MoveLink DEF Linked, Others
  <2> QED BY <1>3, <2>2, <2>3 DEF Middle
<1>4. ASSUME NEW r \in Req, Continue(r) PROVE LinkInv'
  BY <1>2, <1>3, <1>4, ClaimVehicleLink, LinkDriverLink, CommitLink DEF Continue, Middle
<1> QED BY <1>1, <1>2, <1>4 DEF Next

\* Two requests that link one driver to two vehicles never both commit
\* (OneVehiclePerDriver): the index keeps out what an uncommitted row names.
THEOREM OneVehicleEach == Spec => []OneVehiclePerDriver
<1>1. LinkInv => OneVehiclePerDriver BY DEF LinkInv
<1> QED BY InitLink, NextLink, <1>1, Invariance, PTL DEF Spec

-----------------------------------------------------------------------------
(* What holds of requests whatever overlaps with them.                     *)

\* The trip that a request read is still there.
Known(r) == tx[r].op \in {"assign", "status"} => trip[tx[r].trip].status # "NONE"

\* A status request that is past the write of the trip frees what it found.
Freeing(r) ==
  /\ tx[r].op = "status" /\ tx[r].pc = "freeVehicle" => Frees(r, "vehicle")
  /\ tx[r].op = "status" /\ tx[r].pc = "freeDriver" => Frees(r, "driver")
  /\ tx[r].op = "status" /\ tx[r].pc \in {"freeDriver", "commit"} =>
       ("vehicle" \in tx[r].held <=> Frees(r, "vehicle"))
  /\ tx[r].op = "status" /\ tx[r].pc = "commit" =>
       ("driver" \in tx[r].held <=> Frees(r, "driver"))

CreatedBare ==
  \A d \in Deal : trip[d].status \in {"NONE", "CREATED"} =>
    trip[d].vehicle = Null /\ trip[d].driver = Null

OpenInv ==
  /\ \A r \in Req : Checked(tx[r]) /\ Known(r) /\ Freeing(r)
  /\ CreatedBare

LEMMA InitOpen == Init => OpenInv
BY DEF Init, OpenInv, Checked, Known, Freeing, CreatedBare, Idle, NoTrip

LEMMA StepOpen ==
  ASSUME Inv, OpenInv, NEW r \in Req, UNCHANGED Tables, Others(r),
         Checked(tx'[r]), Known(r)', Freeing(r)'
  PROVE  OpenInv'
<1>1. \A q \in Req : Checked(tx[q])' /\ Known(q)' /\ Freeing(q)'
  BY DEF OpenInv, Others, Tables, Checked, Known, Freeing, Frees
<1>2. CreatedBare' BY DEF OpenInv, CreatedBare, Tables
<1> QED BY <1>1, <1>2 DEF OpenInv

LEMMA BeginOpen == ASSUME Inv, OpenInv, NEW r \in Req, Begin(r) PROVE OpenInv'
<1>1. /\ tx'[r].held = {} /\ Read(tx'[r]) /\ UNCHANGED Tables /\ Others(r)
  BY Begins
<1>2. Inv' BY NextInv DEF Next
<1>3. Freeing(r)'
  BY <1>1, <1>2 DEF Inv, TxInv, Shape, BookingShape, OpeningShape, StatusShape, Idle, Freeing
<1>4. Known(r)' BY <1>1 DEF Known, Read, Checked, Current, Tables
<1> QED BY <1>1, <1>3, <1>4, StepOpen DEF Read

LEMMA StopOpen ==
  ASSUME Inv, OpenInv, NEW r \in Req, Abort(r) \/ Refuse(r) PROVE OpenInv'
<1>1. tx'[r] = Idle /\ UNCHANGED Tables /\ Others(r) BY Stops
<1>2. Checked(tx'[r]) /\ Known(r)' /\ Freeing(r)' BY <1>1 DEF Checked, Known, Freeing, Idle
<1> QED BY <1>1, <1>2, StepOpen

LEMMA MiddleOpen ==
  ASSUME Inv, OpenInv, NEW r \in Req, Middle(r) PROVE OpenInv'
<1>1. /\ tx'[r].op = tx[r].op /\ tx'[r].trip = tx[r].trip /\ tx'[r].vehicle = tx[r].vehicle
      /\ tx'[r].prev = tx[r].prev /\ tx'[r].next = tx[r].next
      /\ tx[r].pc # "readVehicle" => tx'[r].driver = tx[r].driver
      /\ UNCHANGED Tables /\ Others(r) /\ tx[r].trip \in Deal
  BY Goes
<1>2. tx[r].op = "status" => tx[r].pc # "readVehicle"
  BY DEF Inv, TxInv, Shape, BookingShape, OpeningShape, StatusShape, Idle
<1>3. Checked(tx'[r]) /\ Known(r)' BY <1>1 DEF OpenInv, Checked, Known, Tables
<1>4. Freeing(r)'
  <2> SUFFICES ASSUME tx[r].op = "status" PROVE Freeing(r)'
    BY <1>1 DEF Freeing
  <2>1. WriteTrip(r) \/ FreeVehicle(r) \/ FreeDriver(r)
    BY DEF Middle, AssignReadVehicle, ClaimVehicle, LinkDriver, ClaimDriver, Inv, TxInv, Shape,
           BookingShape, OpeningShape, StatusShape, Idle
  <2>2. StatusShape(tx[r]) /\ tx[r] \in Transaction
    BY DEF Inv, TypeOK, TxInv, Shape, BookingShape, OpeningShape, Idle
  <2>3. \A k : Frees(r, k)' <=> (tx[r].next \in FinalStatus /\ tx'[r][k] # Null)
    BY <1>1 DEF Frees
  <2>4. CASE WriteTrip(r)
    <3>1. tx'[r].held = {"trip"} BY <2>2, <2>4 DEF WriteTrip, Holds, StatusShape, Inv, TypeOK
    <3>2. tx'[r].pc = CASE Frees(r, "vehicle") -> "freeVehicle"
                        [] ~Frees(r, "vehicle") /\ Frees(r, "driver") -> "freeDriver"
                        [] OTHER -> "commit"
      BY <2>2, <2>4 DEF WriteTrip, Holds, Inv, TypeOK, Transaction
    <3>3. /\ tx'[r].pc = "freeVehicle" => Frees(r, "vehicle")
          /\ tx'[r].pc = "freeDriver" => ~Frees(r, "vehicle") /\ Frees(r, "driver")
          /\ tx'[r].pc = "commit" => ~Frees(r, "vehicle") /\ ~Frees(r, "driver")
      BY <3>2
    <3> QED BY <1>1, <1>2, <3>1, <3>3 DEF Freeing, Frees
  <2>5. CASE FreeVehicle(r)
    <3>1. /\ tx'[r].held = {"trip", "vehicle"} /\ Frees(r, "vehicle")
          /\ tx'[r].pc = IF Frees(r, "driver") THEN "freeDriver" ELSE "commit"
      BY <2>2, <2>5 DEF FreeVehicle, Holds, StatusShape, Inv, TypeOK, Transaction, OpenInv, Freeing
    <3> QED BY <1>1, <1>2, <3>1 DEF Freeing, Frees
  <2>6. CASE FreeDriver(r)
    <3>1. /\ tx'[r].held = tx[r].held \cup {"driver"} /\ tx'[r].pc = "commit"
          /\ Frees(r, "driver")
          /\ "vehicle" \in tx[r].held <=> Frees(r, "vehicle")
      BY <2>2, <2>6 DEF FreeDriver, Holds, StatusShape, Inv, TypeOK, Transaction, OpenInv, Freeing
    <3> QED BY <1>1, <1>2, <3>1 DEF Freeing, Frees
  <2> QED BY <2>1, <2>4, <2>5, <2>6
<1> QED BY <1>1, <1>3, <1>4, StepOpen

LEMMA CommitOpen == ASSUME Inv, OpenInv, NEW r \in Req, Commit(r) PROVE OpenInv'
<1> DEFINE d == tx[r].trip
<1>1. /\ CommitShape(tx[r]) /\ tx'[r] = Idle
      /\ \A q \in Req \ {r} : tx'[q] = tx[q]
      /\ d \in Deal /\ trip'[d] = TripAfter(r)
      /\ \A e \in Deal \ {d} : trip'[e] = trip[e]
  BY CommitRows DEF CommitShape
<1>2. trip'[d].status = tx[r].next /\ tx[r].next # "NONE"
  BY <1>1 DEF TripAfter, CommitShape, Inv, TypeOK, TripRow, TripStatus
<1>3. ASSUME NEW q \in Req PROVE Checked(tx[q])' /\ Known(q)' /\ Freeing(q)'
  <2>1. CASE q = r BY <1>1, <2>1 DEF Checked, Known, Freeing, Idle
  <2>2. CASE q # r
    <3>1. Checked(tx[q])' /\ Freeing(q)' BY <1>1, <2>2 DEF OpenInv, Checked, Freeing, Frees
    <3>2. Known(q)'
      <4>1. tx[q].op \in {"assign", "status"} => tx[q].trip \in Deal
        BY DEF Inv, TxInv, Shape, BookingShape, OpeningShape, StatusShape, Idle
      <4> QED BY <1>1, <1>2, <2>2, <4>1 DEF OpenInv, Known
    <3> QED BY <3>1, <3>2
  <2> QED BY <2>1, <2>2
<1>4. CreatedBare'
  <2>1. ASSUME trip'[d].status \in {"NONE", "CREATED"}
        PROVE  trip'[d].vehicle = Null /\ trip'[d].driver = Null
    <3>1. tx[r].op # "status"
      <4>1. tx[r].prev \in TripStatus \cup {"NONE"} BY DEF Inv, TypeOK, Transaction
      <4> QED BY <1>2, <2>1, <4>1 DEF OpenInv, Checked, canTransition, allowedTransitions, TripStatus
    <3>2. trip[d] \in TripRow BY <1>1 DEF Inv, TypeOK
    <3> QED BY <1>1, <2>1, <3>1, <3>2 DEF TripAfter, Booking, CommitShape, TripRow
  <2> QED BY <1>1, <2>1 DEF OpenInv, CreatedBare
<1> QED BY <1>3, <1>4 DEF OpenInv

LEMMA NextOpen == Inv /\ OpenInv /\ [Next]_vars => OpenInv'
<1> SUFFICES ASSUME Inv, OpenInv, [Next]_vars PROVE OpenInv' OBVIOUS
<1>1. CASE UNCHANGED vars
  BY <1>1 DEF OpenInv, Checked, Known, Freeing, Frees, CreatedBare, vars
<1>2. ASSUME NEW r \in Req, Continue(r) PROVE OpenInv'
  BY <1>2, MiddleOpen, StopOpen, CommitOpen DEF Continue, Middle
<1> QED BY <1>1, <1>2, BeginOpen, StopOpen DEF Next

LEMMA OpenInvariance == Spec => [](Inv /\ OpenInv)
<1>1. Inv /\ OpenInv /\ [Next]_vars => OpenInv' BY NextOpen
<1> QED BY InitOpen, Invariance, <1>1, PTL DEF Spec

-----------------------------------------------------------------------------
(* Requests about one trip come one by one: no commit is stale.            *)

OneByOne == \A q, r \in Req : q # r /\ tx[q] # Idle => tx[q].trip # tx[r].trip

SerialInv == OneByOne /\ \A r \in Req : Current(tx[r])

LEMMA InitSerial == Init => SerialInv
BY DEF Init, SerialInv, OneByOne, Current, Idle

\* No table changes: what was read stays read.
LEMMA StepSerial ==
  ASSUME Inv, SerialInv, NEW r \in Req, UNCHANGED Tables, Others(r), Current(tx'[r]),
         \A q \in Req \ {r} : tx'[r] # Idle \/ tx[q] # Idle => tx[q].trip # tx'[r].trip
  PROVE  SerialInv'
<1>1. OneByOne' BY DEF SerialInv, OneByOne, Others
<1>2. \A q \in Req : Current(tx[q])' BY DEF SerialInv, Others, Tables, Current
<1> QED BY <1>1, <1>2 DEF SerialInv

LEMMA BeginSerial ==
  ASSUME ~Overlap, Inv, SerialInv, NEW r \in Req, Begin(r) PROVE SerialInv'
<1>1. /\ Read(tx'[r]) /\ MayBegin(r, tx'[r].trip)
      /\ UNCHANGED Tables /\ Others(r)
  BY Begins
<1>2. \A q \in Req \ {r} : tx[q].trip # tx'[r].trip BY <1>1 DEF MayBegin
<1> QED BY <1>1, <1>2, StepSerial DEF Read

LEMMA StopSerial ==
  ASSUME Inv, SerialInv, NEW r \in Req, Abort(r) \/ Refuse(r) PROVE SerialInv'
<1>1. tx'[r] = Idle /\ UNCHANGED Tables /\ Others(r) BY Stops
<1>2. Current(tx'[r]) BY <1>1 DEF Current, Idle
<1>3. \A q \in Req \ {r} : tx[q] # Idle => tx[q].trip # tx'[r].trip
  <2>1. \A q \in Req : tx[q] # Idle => tx[q].trip \in Deal
    BY DEF Inv, TxInv, Shape, BookingShape, OpeningShape, StatusShape
  <2>2. tx'[r].trip = Null BY <1>1 DEF Idle
  <2> QED BY <2>1, <2>2, NullAssumption
<1> QED BY <1>1, <1>2, <1>3, StepSerial

LEMMA MiddleSerial ==
  ASSUME Inv, SerialInv, NEW r \in Req, Middle(r) PROVE SerialInv'
<1>1. /\ tx'[r].op = tx[r].op /\ tx'[r].trip = tx[r].trip /\ tx'[r].vehicle = tx[r].vehicle
      /\ tx'[r].prev = tx[r].prev
      /\ tx[r].pc # "readVehicle" => tx'[r].driver = tx[r].driver
      /\ UNCHANGED Tables /\ Others(r) /\ tx[r].trip \in Deal
  BY Goes
<1>2. tx[r].op = "status" => tx[r].pc # "readVehicle"
  BY DEF Inv, TxInv, Shape, BookingShape, OpeningShape, StatusShape, Idle
<1>3. Current(tx'[r]) BY <1>1, <1>2 DEF SerialInv, Current
<1>4. \A q \in Req \ {r} : tx'[r] # Idle \/ tx[q] # Idle => tx[q].trip # tx'[r].trip
  BY <1>1, NullAssumption DEF SerialInv, OneByOne, Idle
<1> QED BY <1>1, <1>3, <1>4, StepSerial

\* The commit of a request leaves the trips of the others alone.
LEMMA CommitSerial ==
  ASSUME Inv, SerialInv, NEW r \in Req, Commit(r) PROVE SerialInv'
<1> DEFINE d == tx[r].trip
<1>1. /\ tx'[r] = Idle /\ \A q \in Req \ {r} : tx'[q] = tx[q]
      /\ \A e \in Deal \ {d} : trip'[e] = trip[e]
  BY CommitRows
<1>2. OneByOne' BY <1>1, NullAssumption DEF SerialInv, OneByOne, Idle, Inv, TxInv, Shape,
                                           BookingShape, OpeningShape, StatusShape
<1>3. ASSUME NEW q \in Req PROVE Current(tx[q])'
  <2>1. CASE q = r BY <1>1, <2>1 DEF Current, Idle
  <2>2. CASE q # r
    <3>1. tx[q] = Idle \/ (tx[q].trip \in Deal /\ tx[q].trip # d)
      BY <2>2 DEF SerialInv, OneByOne, Inv, TxInv, Shape, BookingShape, OpeningShape, StatusShape
    <3> QED BY <1>1, <2>2, <3>1 DEF SerialInv, Current, Idle
  <2> QED BY <2>1, <2>2
<1> QED BY <1>2, <1>3 DEF SerialInv

LEMMA NextSerial == ~Overlap /\ Inv /\ SerialInv /\ [Next]_vars => SerialInv'
<1> SUFFICES ASSUME ~Overlap, Inv, SerialInv, [Next]_vars PROVE SerialInv' OBVIOUS
<1>1. CASE UNCHANGED vars BY <1>1 DEF SerialInv, OneByOne, Current, vars
<1>2. ASSUME NEW r \in Req, Continue(r) PROVE SerialInv'
  BY <1>2, MiddleSerial, StopSerial, CommitSerial DEF Continue, Middle
<1> QED BY <1>1, <1>2, BeginSerial, StopSerial DEF Next

LEMMA SerialInvariance == ASSUME ~Overlap PROVE Spec => []SerialInv
<1>1. Inv /\ SerialInv /\ [Next]_vars => SerialInv' BY NextSerial
<1> QED BY InitSerial, Invariance, <1>1, PTL DEF Spec

-----------------------------------------------------------------------------
(* Refinement: a commit that is not stale is a step of the ledger, all     *)
(* else stutters.                                                          *)

VStatus == [v \in Vehicle |-> vehicle[v].status]

LEMMA InitRefines == Init => Ledger!Init
BY DEF Init, Ledger!Init, NoTrip, VehicleStatus, DriverStatus, Ledger!VehicleStatus,
       Ledger!DriverStatus

\* The rows a commit leaves, seen as statuses.
LEMMA CommitStatuses ==
  ASSUME Inv, NEW r \in Req, Commit(r)
  PROVE  /\ "vehicle" \in tx[r].held =>
              VStatus' = [VStatus EXCEPT ![tx[r].vehicle] = CrewStatus(r)]
         /\ "vehicle" \notin tx[r].held => VStatus' = VStatus
         /\ "driver" \in tx[r].held =>
              driver' = [driver EXCEPT ![tx[r].driver] = CrewStatus(r)]
         /\ "driver" \notin tx[r].held => driver' = driver
<1>1. CommitShape(tx[r]) BY CommitRows
<1>2. /\ vehicle \in [Vehicle -> VehicleRow] /\ driver \in [Driver -> DriverStatus]
      /\ "vehicle" \in tx[r].held => tx[r].vehicle \in Vehicle
      /\ "driver" \in tx[r].held => tx[r].driver \in Driver
  BY <1>1 DEF CommitShape, Inv, TypeOK
<1>3. ASSUME "vehicle" \in tx[r].held
      PROVE  VStatus' = [VStatus EXCEPT ![tx[r].vehicle] = CrewStatus(r)]
  <2>1. vehicle' = [vehicle EXCEPT ![tx[r].vehicle] = VehicleAfter(r)] BY <1>3 DEF Commit
  <2>2. VehicleAfter(r).status = CrewStatus(r) BY DEF VehicleAfter
  <2>3. \A w \in Vehicle :
          vehicle'[w].status = IF w = tx[r].vehicle THEN CrewStatus(r) ELSE vehicle[w].status
    BY <1>2, <1>3, <2>1, <2>2
  <2>4. VStatus' = [w \in Vehicle |-> IF w = tx[r].vehicle THEN CrewStatus(r) ELSE vehicle[w].status]
    BY <2>3 DEF VStatus
  <2>5. [VStatus EXCEPT ![tx[r].vehicle] = CrewStatus(r)]
          = [w \in Vehicle |-> IF w = tx[r].vehicle THEN CrewStatus(r) ELSE vehicle[w].status]
    BY DEF VStatus
  <2> QED BY <2>4, <2>5
<1>4. "vehicle" \notin tx[r].held => VStatus' = VStatus BY DEF Commit, VStatus
<1>5. /\ "driver" \in tx[r].held => driver' = [driver EXCEPT ![tx[r].driver] = CrewStatus(r)]
      /\ "driver" \notin tx[r].held => driver' = driver
  BY DEF Commit
<1> QED BY <1>3, <1>4, <1>5

\* A creation without a crew opens the trip.
LEMMA OpenRefines ==
  ASSUME Inv, OpenInv, NEW r \in Req, Commit(r), tx[r].op = "create", tx[r].vehicle = Null,
         NEW d \in Deal, d = tx[r].trip
  PROVE  Ledger!Open(d)
<1>1. /\ tx[r].next = "CREATED" /\ tx[r].held = {"trip"} /\ tx[r].driver = Null
  BY CommitRows, NullAssumption DEF CommitShape
<1>2. trip[d].status = "NONE" /\ trip[d].vehicle = Null /\ trip[d].driver = Null
  BY <1>1 DEF Inv, TxInv, ClaimsHold, OpenInv, CreatedBare
<1>3. trip[d] = [status |-> "NONE", vehicle |-> Null, driver |-> Null]
  BY <1>1, <1>2 DEF Inv, TypeOK, TripRow
<1>4. TripAfter(r) = [trip[d] EXCEPT !.status = "CREATED"]
  BY <1>1, <1>3 DEF TripAfter, Booking
<1>5. trip' = [trip EXCEPT ![d].status = "CREATED"] BY <1>4 DEF Commit
<1>6. VStatus' = VStatus /\ driver' = driver BY <1>1, CommitStatuses
<1> QED BY <1>2, <1>5, <1>6 DEF Ledger!Open, VStatus

\* A creation with a crew, or an assignment, books it.
LEMMA BookRefines ==
  ASSUME Inv, OpenInv, NEW r \in Req, Commit(r), ~Stale(r), Booking(r), tx[r].vehicle # Null,
         NEW d \in Deal, NEW v \in Vehicle, NEW p \in Driver,
         d = tx[r].trip, v = tx[r].vehicle, p = tx[r].driver
  PROVE  Ledger!Book(d, v, p)
<1>1. /\ tx[r].next = "ASSIGNED"
      /\ tx[r].held = {"vehicle", "driver", "trip"}
  BY CommitRows DEF CommitShape, Booking
<1>2. trip[d].status \in {"NONE", "CREATED"}
  BY <1>1 DEF Booking, Inv, TxInv, ClaimsHold, OpenInv, Checked, Stale
<1>3. VStatus[v] = "AVAILABLE" /\ driver[p] = "AVAILABLE"
  BY <1>1 DEF Inv, TxInv, ClaimsHold, VStatus
<1>4. trip' = [trip EXCEPT ![d] = [status |-> "ASSIGNED", vehicle |-> v, driver |-> p]]
  BY <1>1 DEF Commit, TripAfter
<1>5. VStatus' = [VStatus EXCEPT ![v] = "IN_TRIP"] /\ driver' = [driver EXCEPT ![p] = "IN_TRIP"]
  BY <1>1, CommitStatuses DEF CrewStatus
<1> QED BY <1>1, <1>2, <1>3, <1>4, <1>5 DEF Ledger!Book, VStatus

\* A change of status advances the trip or ends it, and frees its crew with
\* the end only.
LEMMA StatusRefines ==
  ASSUME Inv, OpenInv, NEW r \in Req, Commit(r), ~Stale(r), tx[r].op = "status",
         NEW d \in Deal, NEW s \in TripStatus, d = tx[r].trip, s = tx[r].next
  PROVE  Ledger!Advance(d, s) \/ Ledger!End(d, s)
<1>1. d \in Deal /\ s \in TripStatus OBVIOUS
<1>2. /\ tx[r].prev = trip[d].status /\ tx[r].vehicle = trip[d].vehicle
      /\ tx[r].driver = trip[d].driver /\ s # tx[r].prev /\ canTransition(tx[r].prev, s)
      /\ s = "ASSIGNED" => tx[r].vehicle # Null
  BY DEF OpenInv, Checked, Stale
<1>3. trip[d].status \in TripStatus /\ trip[d] \in TripRow
  BY <1>1 DEF Inv, TypeOK, TxInv, CrewAhead, TripRow
<1>4. trip' = [trip EXCEPT ![d].status = s] BY <1>1 DEF Commit, TripAfter, Booking
<1>5. /\ "vehicle" \in tx[r].held <=> (s \in FinalStatus /\ trip[d].vehicle # Null)
      /\ "driver" \in tx[r].held <=> (s \in FinalStatus /\ trip[d].driver # Null)
  BY <1>2 DEF OpenInv, Freeing, Frees, Commit
<1>6. CASE s \notin FinalStatus
  <2>1. s # "ASSIGNED" BY <1>1, <1>2, <1>3 DEF canTransition, allowedTransitions, TripStatus,
                                              OpenInv, CreatedBare
  <2>2. <<trip[d].status, s>> \in {<<"ASSIGNED", "LOADING">>, <<"LOADING", "IN_TRANSIT">>,
                                  <<"IN_TRANSIT", "DELIVERED">>}
    BY <1>2, <1>3, <1>6, <2>1 DEF canTransition, allowedTransitions, TripStatus, FinalStatus
  <2>3. VStatus' = VStatus /\ driver' = driver BY <1>5, <1>6, CommitStatuses
  <2> QED BY <1>4, <2>2, <2>3 DEF Ledger!Advance, Ledger!Ahead, VStatus
<1>7. CASE s \in FinalStatus
  <2>1. \/ trip[d].status = "DELIVERED" /\ s = "CLOSED"
        \/ trip[d].status \in {"CREATED", "ASSIGNED", "LOADING", "IN_TRANSIT"} /\ s = "CANCELLED"
    BY <1>2, <1>3, <1>7 DEF canTransition, allowedTransitions, TripStatus, FinalStatus
  <2>2. <<trip[d].status, s>> \in Ledger!Ending BY <2>1 DEF Ledger!Ending
  <2>3. VStatus' = [v \in Vehicle |-> IF v = trip[d].vehicle THEN "AVAILABLE" ELSE VStatus[v]]
    <3>1. CASE trip[d].vehicle = Null
      BY <1>5, <3>1, CommitStatuses, NullAssumption DEF VStatus
    <3>2. CASE trip[d].vehicle # Null
      <4>1. CrewStatus(r) = "AVAILABLE" BY DEF CrewStatus, Booking
      <4>2. "vehicle" \in tx[r].held /\ tx[r].vehicle = trip[d].vehicle BY <1>2, <1>5, <1>7, <3>2
      <4>3. VStatus' = [VStatus EXCEPT ![trip[d].vehicle] = "AVAILABLE"]
        BY <4>1, <4>2, CommitStatuses
      <4> QED BY <4>3 DEF VStatus
    <3> QED BY <3>1, <3>2
  <2>4. driver' = [p \in Driver |-> IF p = trip[d].driver THEN "AVAILABLE" ELSE driver[p]]
    <3>1. driver = [p \in Driver |-> driver[p]] BY DEF Inv, TypeOK
    <3>2. CASE trip[d].driver = Null
      BY <1>5, <3>1, <3>2, CommitStatuses, NullAssumption
    <3>3. CASE trip[d].driver # Null
      <4>1. CrewStatus(r) = "AVAILABLE" BY DEF CrewStatus, Booking
      <4>2. "driver" \in tx[r].held /\ tx[r].driver = trip[d].driver BY <1>2, <1>5, <1>7, <3>3
      <4>3. driver' = [driver EXCEPT ![trip[d].driver] = "AVAILABLE"]
        BY <4>1, <4>2, CommitStatuses
      <4> QED BY <3>1, <4>3
    <3> QED BY <3>2, <3>3
  <2> QED BY <1>4, <2>2, <2>3, <2>4 DEF Ledger!End, VStatus
<1> QED BY <1>6, <1>7

\* Every step of Fleet but a stale commit is a step of the ledger or leaves it
\* as it is.
StaleCommit == \E r \in Req : Stale(r) /\ Commit(r)

LEMMA NextRefines ==
  Inv /\ OpenInv /\ [Next]_vars => [Ledger!Next]_(Ledger!vars) \/ StaleCommit
<1> SUFFICES ASSUME Inv, OpenInv, [Next]_vars, ~StaleCommit PROVE [Ledger!Next]_(Ledger!vars)
  OBVIOUS
<1>1. CASE UNCHANGED Tables BY <1>1 DEF Tables, Ledger!vars
<1>2. CASE UNCHANGED vars BY <1>1, <1>2 DEF vars, Tables
<1>3. ASSUME NEW r \in Req, Commit(r) PROVE Ledger!Next
  <2>1. CommitShape(tx[r]) /\ ~Stale(r) BY <1>3, CommitRows DEF StaleCommit
  <2>2. PICK d \in Deal, s \in TripStatus : d = tx[r].trip /\ s = tx[r].next
    BY <2>1 DEF CommitShape, TripStatus
  <2>3. CASE tx[r].op = "create" /\ tx[r].vehicle = Null
    <3>1. Ledger!Open(d) BY <1>3, <2>2, <2>3, OpenRefines
    <3> QED BY <3>1 DEF Ledger!Next
  <2>4. CASE Booking(r) /\ tx[r].vehicle # Null
    <3>1. PICK v \in Vehicle, p \in Driver : v = tx[r].vehicle /\ p = tx[r].driver
      BY <2>1, <2>4 DEF CommitShape, Booking
    <3>2. Ledger!Book(d, v, p) BY <1>3, <2>1, <2>2, <2>4, <3>1, BookRefines
    <3> QED BY <3>2 DEF Ledger!Next
  <2>5. CASE tx[r].op = "status"
    <3>1. Ledger!Advance(d, s) \/ Ledger!End(d, s) BY <1>3, <2>1, <2>2, <2>5, StatusRefines
    <3>2. s \in Ledger!TripStatus BY DEF TripStatus, Ledger!TripStatus
    <3> QED BY <3>1, <3>2 DEF Ledger!Next
  <2> QED BY <2>1, <2>3, <2>4, <2>5, NullAssumption DEF CommitShape, Booking
<1>4. ASSUME NEW r \in Req, Begin(r) \/ Middle(r) \/ Abort(r) \/ Refuse(r) PROVE UNCHANGED Tables
  BY <1>4, Begins, Goes, Stops
<1> QED BY <1>1, <1>2, <1>3, <1>4 DEF Next, Continue, Middle

\* Under any overlap, and of any number of requests, it takes the commit of one
\* that read its trip before it changed to leave the ledger
\* (OnlyStaleLeaveLedger).
THEOREM OnlyStaleLeave == Spec => OnlyStaleLeaveLedger
<1>1. Inv /\ OpenInv /\ [Next]_vars =>
        [[Ledger!Next]_(Ledger!vars) \/ \E r \in Req : Stale(r) /\ Commit(r)]_vars
  BY NextRefines DEF StaleCommit
<1> QED BY <1>1, OpenInvariance, PTL DEF Spec, OnlyStaleLeaveLedger

\* So where no commit is stale, the transactions implement the ledger.
LEMMA FreshRefines == Spec /\ [][~StaleCommit]_vars => ImplementsLedger
<1>1. Inv /\ OpenInv /\ [Next]_vars /\ [~StaleCommit]_vars => [Ledger!Next]_(Ledger!vars)
  <2>1. UNCHANGED vars => UNCHANGED Ledger!vars BY DEF vars, Ledger!vars
  <2> QED BY <2>1, NextRefines
<1> QED BY <1>1, InitRefines, OpenInvariance, PTL DEF Spec, ImplementsLedger, Ledger!Spec

\* Requests about one trip that come one by one have no stale commit.
LEMMA SerialFresh == ASSUME ~Overlap PROVE Spec => [][~StaleCommit]_vars
<1>1. SerialInv /\ [Next]_vars => [~StaleCommit]_vars BY DEF SerialInv, Current, StaleCommit, Stale
<1> QED BY <1>1, SerialInvariance, PTL DEF Spec

\* The transactions, where the requests about one trip do not overlap,
\* implement the atomic ledger: crashes, refusals and the interleaving with
\* requests about other trips show nothing of the steps between.
THEOREM LedgerImplemented == ASSUME ~Overlap PROVE Spec => ImplementsLedger
<1> QED BY FreshRefines, SerialFresh, PTL

LP == INSTANCE CrewLedgerProofs
        WITH vstatus <- [v \in Vehicle |-> vehicle[v].status], dstatus <- driver

\* However requests overlap, crews stay consistent (CrewConsistent) until one
\* commits though its trip has changed since it read it: crashes, refusals and
\* requests about other trips never put them wrong.
THEOREM CrewsConsistentUnlessStale == Spec /\ [][~StaleCommit]_vars => []CrewConsistent
<1>1. Null \notin Vehicle \cup Driver BY NullAssumption
<1>2. LP!Spec => []LP!CrewConsistent BY <1>1, LP!LedgerConsistent
<1>3. Ledger!Init => LP!Init BY DEF Ledger!Init, LP!Init, Ledger!VehicleStatus, Ledger!DriverStatus, LP!VehicleStatus,
            LP!DriverStatus
<1>4. [Ledger!Next]_(Ledger!vars) => [LP!Next]_(LP!vars)
  BY DEF Ledger!Next, Ledger!vars, Ledger!Open, Ledger!Book, Ledger!Advance, Ledger!Ahead,
         Ledger!End, Ledger!Ending, LP!Next, LP!vars, LP!Open, LP!Book, LP!Advance, LP!Ahead,
         LP!End, LP!Ending, Ledger!TripStatus, LP!TripStatus
<1>5. LP!CrewConsistent => CrewConsistent
  BY DEF CrewConsistent, Ledger!CrewConsistent, Ledger!CrewKnown, Ledger!CrewBusy,
         Ledger!CrewExclusive, Ledger!Active, LP!CrewConsistent, LP!CrewKnown, LP!CrewBusy,
         LP!CrewExclusive, LP!Active, Ledger!ActiveStatus, LP!ActiveStatus
<1> QED BY <1>2, <1>3, <1>4, <1>5, FreshRefines, PTL DEF ImplementsLedger, Ledger!Spec, LP!Spec

\* And they do where the requests about one trip come one by one.
THEOREM CrewsConsistent == ASSUME ~Overlap PROVE Spec => []CrewConsistent
<1> QED BY CrewsConsistentUnlessStale, SerialFresh, PTL

-----------------------------------------------------------------------------
(* What the events say, under any overlap.                                 *)

\* A commit changes one trip and leaves one event, which names what its
\* transaction had read, and checked, before.
LEMMA CommitHistory ==
  ASSUME Inv, OpenInv, NEW r \in Req, Commit(r)
  PROVE  LET d == tx[r].trip
         IN  /\ d \in Deal
             /\ \A e \in Deal \ {d} : trip'[e] = trip[e] /\ event'[e] = event[e]
             /\ trip[d].status = "NONE" <=> tx[r].op = "create"
             /\ event'[d].type = "trip.create" <=> tx[r].op = "create"
             /\ tx[r].op # "create" =>
                  /\ event'[d].prev = tx[r].prev /\ event'[d].status = trip'[d].status
                  /\ event'[d].prev # event'[d].status
                  /\ canTransition(event'[d].prev, event'[d].status)
                  /\ ~Stale(r) => tx[r].prev = trip[d].status
<1> DEFINE d == tx[r].trip
<1>1. /\ CommitShape(tx[r]) /\ d \in Deal /\ trip'[d] = TripAfter(r) /\ event'[d] = EventOf(r)
      /\ \A e \in Deal \ {d} : trip'[e] = trip[e] /\ event'[e] = event[e]
  BY CommitRows DEF Commit, CommitShape, Inv, TypeOK
<1>2. trip'[d].status = tx[r].next BY <1>1 DEF TripAfter, CommitShape, Inv, TypeOK, TripRow
<1>3. /\ event'[d].type = "trip.create" <=> tx[r].op = "create"
      /\ tx[r].op # "create" => event'[d].prev = tx[r].prev /\ event'[d].status = tx[r].next
  BY <1>1 DEF EventOf, NoEvent
<1>4. CASE tx[r].op = "create"
  <2>1. trip[d].status = "NONE" BY <1>1, <1>4 DEF CommitShape, Inv, TxInv, ClaimsHold
  <2> QED BY <1>1, <1>3, <1>4, <2>1
<1>5. CASE tx[r].op = "assign"
  <2>1. tx[r].next = "ASSIGNED" /\ tx[r].prev = "CREATED"
    BY <1>1, <1>5 DEF CommitShape, OpenInv, Checked
  <2>2. canTransition("CREATED", "ASSIGNED") BY DEF canTransition, allowedTransitions
  <2>3. trip[d].status # "NONE" /\ (~Stale(r) => tx[r].prev = trip[d].status)
    BY <1>5 DEF OpenInv, Known, Stale
  <2> QED BY <1>1, <1>2, <1>3, <1>5, <2>1, <2>2, <2>3
<1>6. CASE tx[r].op = "status"
  <2>1. tx[r].next # tx[r].prev /\ canTransition(tx[r].prev, tx[r].next)
    BY <1>6 DEF OpenInv, Checked
  <2>2. trip[d].status # "NONE" /\ (~Stale(r) => tx[r].prev = trip[d].status)
    BY <1>6 DEF OpenInv, Known, Stale
  <2> QED BY <1>1, <1>2, <1>3, <1>6, <2>1, <2>2
<1> QED BY <1>1, <1>4, <1>5, <1>6 DEF CommitShape

LEMMA QuietTrips ==
  ASSUME Inv, Next, \A r \in Req : ~Commit(r) PROVE UNCHANGED <<trip, event>>
BY Begins, Goes, Stops DEF Next, Continue, Middle, Tables

\* Whatever overlaps, every change of a trip leaves its event, the event is a
\* step of the diagram into the status the trip has then, and it lies about the
\* status the trip left, or tells of no change, only where a request overwrites
\* what it had not seen (EventsTellHistory).
THEOREM HistoryTold == Spec => EventsTellHistory
<1> DEFINE Told(d) ==
             /\ trip'[d] # trip[d] =>
                  \/ trip[d].status = "NONE" /\ event'[d].type = "trip.create"
                  \/ /\ trip[d].status # "NONE" /\ event'[d].type # "trip.create"
                     /\ event'[d].status = trip'[d].status
                     /\ event'[d].prev # event'[d].status
                     /\ canTransition(event'[d].prev, event'[d].status)
                     /\ event'[d].prev = trip[d].status \/ Overtaken(d)
             /\ event'[d] # event[d] => trip'[d] # trip[d] \/ Overtaken(d)
<1>1. ASSUME Inv, OpenInv, [Next]_vars PROVE [\A d \in Deal : Told(d)]_vars
  <2> SUFFICES ASSUME Next, NEW d \in Deal PROVE Told(d) BY <1>1
  <2>1. CASE UNCHANGED <<trip, event>> BY <2>1
  <2>2. ASSUME NEW r \in Req, Commit(r), d = tx[r].trip PROVE Told(d)
    <3>1. /\ trip[d].status = "NONE" <=> tx[r].op = "create"
          /\ event'[d].type = "trip.create" <=> tx[r].op = "create"
          /\ tx[r].op # "create" =>
               /\ event'[d].prev = tx[r].prev /\ event'[d].status = trip'[d].status
               /\ event'[d].prev # event'[d].status
               /\ canTransition(event'[d].prev, event'[d].status)
               /\ ~Stale(r) => tx[r].prev = trip[d].status
      BY <1>1, <2>2, CommitHistory
    <3>2. Stale(r) => Overtaken(d) BY <2>2 DEF Overtaken
    <3>3. CASE tx[r].op = "create"
      <4> HIDE DEF Told
      <4>1. CommitShape(tx[r]) /\ trip'[d] = TripAfter(r) BY <1>1, <2>2, CommitRows
      <4>2. trip'[d].status = tx[r].next BY <3>3, <4>1 DEF TripAfter, Booking
      <4>3. tx[r].next # "NONE" BY <4>1 DEF CommitShape, TripStatus
      <4> USE DEF Told
      <4> QED BY <3>1, <3>3, <4>2, <4>3
    <3>4. CASE tx[r].op # "create"
      <4>1. event'[d].status = trip'[d].status /\ event'[d].prev # event'[d].status
        BY <3>1, <3>4
      <4>2. event'[d].prev = trip[d].status \/ Overtaken(d) BY <3>1, <3>2, <3>4
      <4>3. event'[d] # event[d] => trip'[d] # trip[d] \/ Overtaken(d) BY <4>1, <4>2
      <4> QED BY <3>1, <3>4, <4>1, <4>2, <4>3
    <3> QED BY <3>3, <3>4
  <2>3. ASSUME NEW r \in Req, Commit(r), d # tx[r].trip PROVE Told(d)
    BY <1>1, <2>3, CommitHistory
  <2> QED BY <1>1, <2>1, <2>2, <2>3, QuietTrips
<1> QED BY <1>1, OpenInvariance, PTL DEF Spec, EventsTellHistory

\* The newest event of a trip, unless it is its creation, names the status that
\* the trip has, and one from which the diagram leads there.
NewestEventLegal ==
  \A d \in Deal : event[d].type \in {"trip.update", "trip.status.changed"} =>
    /\ event[d].status = trip[d].status
    /\ event[d].prev # event[d].status /\ canTransition(event[d].prev, event[d].status)

LEMMA NextNews == ASSUME Inv, OpenInv, NewestEventLegal, [Next]_vars PROVE NewestEventLegal'
<1>1. CASE UNCHANGED <<trip, event>> BY <1>1 DEF NewestEventLegal
<1>2. ASSUME NEW r \in Req, Commit(r) PROVE NewestEventLegal'
  BY <1>2, CommitHistory DEF NewestEventLegal
<1> QED BY <1>1, <1>2, QuietTrips DEF vars

\* Whatever overlaps, and though statuses may then leave the diagram
\* (StatusFollowsDiagram needs commits that are not stale), the newest event of
\* a trip names the trip's status as it is, and as the end of a step of the
\* diagram: it takes the event before it to see that the step was not taken.
THEOREM EventsLookLegal == Spec => []NewestEventLegal
<1>1. Init => NewestEventLegal BY DEF Init, NewestEventLegal, NoEvent
<1>2. Inv /\ OpenInv /\ NewestEventLegal /\ [Next]_vars => NewestEventLegal' BY NextNews
<1> QED BY <1>1, <1>2, OpenInvariance, PTL DEF Spec

-----------------------------------------------------------------------------
(* Circular waits.                                                         *)

WaitsForTrip(r) == tx[r].pc = "writeTrip" /\ Locked(r, "trip")
AllWait == \A r \in Req : InProgress(r) => Waits(r) /\ ~WaitsForTrip(r)

LEMMA HolderInProgress ==
  ASSUME Inv, NEW r \in Req, NEW k \in tx[r].held PROVE InProgress(r)
BY DEF InProgress, Inv, TxInv, Shape, BookingShape, OpeningShape, StatusShape, Idle

\* Where nobody waits for a trip, who has its driver waits for nothing more.
LEMMA LastLock ==
  ASSUME Inv, AllWait, NEW r \in Req PROVE "driver" \notin tx[r].held
<1> SUFFICES ASSUME "driver" \in tx[r].held PROVE FALSE OBVIOUS
<1>1. Waits(r) /\ ~WaitsForTrip(r) BY HolderInProgress DEF AllWait
<1>2. tx[r].pc \in {"writeTrip", "commit"}
  BY DEF Inv, TxInv, Shape, BookingShape, OpeningShape, StatusShape, Idle
<1> QED BY <1>1, <1>2 DEF Waits, WaitsForTrip

\* Where everyone waits, who holds a vehicle and waits is linking its driver.
LEMMA VehicleHolder ==
  ASSUME Inv, AllWait, NEW r \in Req, "vehicle" \in tx[r].held
  PROVE  tx[r].pc = "linkDriver" /\ DriverIndexBusy(r)
<1>1. Waits(r) /\ ~WaitsForTrip(r) BY HolderInProgress DEF AllWait
<1>2. tx[r].pc \in {"linkDriver", "claimDriver", "writeTrip", "freeDriver", "commit"}
  BY DEF Inv, TxInv, Shape, BookingShape, OpeningShape, StatusShape, Idle
<1>3. ~Locked(r, "driver") BY LastLock DEF Locked
<1> QED BY <1>1, <1>2, <1>3 DEF Waits, WaitsForTrip

\* Its driver is then in the vehicle of another that links one.
LEMMA Relinker ==
  ASSUME Inv, AllWait, NEW r \in Req, "vehicle" \in tx[r].held
  PROVE  \E q \in Req \ {r} : /\ "vehicle" \in tx[q].held /\ Relinks(q)
                              /\ vehicle[tx[q].vehicle].driver = tx[r].driver
<1>1. tx[r].pc = "linkDriver" /\ DriverIndexBusy(r) BY VehicleHolder
<1>2. tx[r].driver \in Driver
  BY <1>1 DEF Inv, TxInv, Shape, BookingShape, OpeningShape, StatusShape, Idle
<1>3. PICK q \in Req \ {r} :
        /\ "vehicle" \in tx[q].held
        /\ \/ vehicle[tx[q].vehicle].driver = tx[r].driver
           \/ tx[q].pc # "linkDriver"
  BY <1>1 DEF DriverIndexBusy
<1>4. tx[q].pc = "linkDriver" BY <1>3, VehicleHolder
<1>5. vehicle[tx[q].vehicle].driver = tx[r].driver BY <1>3, <1>4
<1>6. tx[r].driver # Null BY <1>2, NullAssumption
<1>7. Relinks(q) BY <1>4, <1>5, <1>6 DEF Relinks
<1> QED BY <1>3, <1>5, <1>7

\* Who waits, waits for one that holds a vehicle.
LEMMA WaitsForVehicle ==
  ASSUME Inv, AllWait, NEW r \in Req, InProgress(r)
  PROVE  \E q \in Req : "vehicle" \in tx[q].held
<1>1. Waits(r) /\ ~WaitsForTrip(r) BY DEF AllWait
<1>2. ~Locked(r, "driver") BY LastLock DEF Locked
<1> QED BY <1>1, <1>2 DEF Waits, WaitsForTrip, Locked, DriverIndexBusy

\* Where everyone waits, a trip is waited for only while another ends it: who
\* books has the trip last.
LEMMA TripHolder ==
  ASSUME Inv, \A p \in Req : InProgress(p) => Waits(p), NEW r \in Req, WaitsForTrip(r)
  PROVE  \E q \in Req \ {r} : Ends(q, r)
<1>1. PICK q \in Req \ {r} : "trip" \in tx[q].held /\ tx[q].trip = tx[r].trip
  BY DEF WaitsForTrip, Locked
<1>2. Waits(q) BY <1>1, HolderInProgress
<1>3. tx[q].pc \in {"freeVehicle", "freeDriver", "commit"}
  BY <1>1 DEF Inv, TxInv, Shape, BookingShape, OpeningShape, StatusShape, Idle
<1> QED BY <1>1, <1>2, <1>3 DEF Ends, Waits, WaitsForTrip

LEMMA WhoGoesOn ==
  ASSUME Inv, \A p \in Req : InProgress(p) => Waits(p), NEW r \in Req, InProgress(r)
  PROVE  \/ \E p, q \in Req : /\ p # q /\ Relinks(p) /\ Relinks(q)
                            /\ vehicle[tx[p].vehicle].driver = tx[q].driver
         \/ \E p \in Req : \E q \in Req \ {p} : Ends(q, p)
<1>1. CASE \E p \in Req : WaitsForTrip(p) BY <1>1, TripHolder
<1>2. CASE \A p \in Req : ~WaitsForTrip(p)
  <2>1. AllWait BY <1>2 DEF AllWait
  <2>2. PICK p \in Req : "vehicle" \in tx[p].held BY <2>1, WaitsForVehicle
  <2>3. PICK q \in Req : "vehicle" \in tx[q].held /\ Relinks(q) BY <2>1, <2>2, Relinker
  <2> QED BY <2>1, <2>3, Relinker
<1> QED BY <1>1, <1>2

\* The locks are taken in two orders (a creation's trip comes last, a status
\* change's first), and still all wait for each other only where two
\* creations exchange the drivers of their vehicles, or requests about one trip
\* overlap: of any number of requests, under any overlap (SomeoneGoesOn).
THEOREM NoOtherDeadlock == Spec => []SomeoneGoesOn
<1>1. ASSUME Overlap, Inv PROVE SomeoneGoesOn BY <1>1, WhoGoesOn DEF SomeoneGoesOn
<1>2. ASSUME Inv, SerialInv PROVE SomeoneGoesOn
  <2>1. ASSUME NEW p \in Req, NEW q \in Req \ {p} PROVE ~Ends(q, p)
    BY <1>2 DEF Ends, SerialInv, OneByOne, Idle
  <2> QED BY <1>2, <2>1, WhoGoesOn DEF SomeoneGoesOn
<1>3. CASE Overlap
  <2>1. Inv => SomeoneGoesOn BY <1>1, <1>3
  <2> QED BY <2>1, Invariance, PTL
<1>4. CASE ~Overlap
  <2>1. Inv /\ SerialInv => SomeoneGoesOn BY <1>2
  <2>2. Spec => []SerialInv BY <1>4, SerialInvariance
  <2> QED BY <2>1, <2>2, Invariance, PTL
<1> QED BY <1>3, <1>4
=============================================================================
