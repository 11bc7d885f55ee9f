-------------------------- MODULE CrewLedgerProofs --------------------------
(***************************************************************************)
(* The ledger keeps its crews consistent for any sets of deals, vehicles   *)
(* and drivers.  TypeOK and CrewConsistent together are inductive.         *)
(***************************************************************************)
EXTENDS CrewLedger, TLAPS

Inv == TypeOK /\ CrewConsistent

USE DEF CrewConsistent, CrewKnown, CrewBusy, CrewExclusive, Active, ActiveStatus,
        TripStatus, VehicleStatus, DriverStatus

\* No trip is active and nobody is IN_TRIP in an initial state.
LEMMA InitInv == Init => Inv
BY DEF Init, Inv, TypeOK

\* Opening a trip changes neither the active trips nor any crew.
LEMMA OpenInv == ASSUME Inv, NEW d \in Deal, Open(d) PROVE Inv'
<1>1. TypeOK' BY DEF Inv, TypeOK, Open
<1>2. /\ trip'[d] = [trip[d] EXCEPT !.status = "CREATED"]
      /\ \A e \in Deal \ {d} : trip'[e] = trip[e]
      /\ vstatus' = vstatus /\ dstatus' = dstatus
  BY DEF Inv, TypeOK, Open
<1>3. \A e \in Deal : Active(e)' <=> Active(e)
  BY <1>2 DEF Inv, TypeOK, Open
<1>4. \A e \in Deal : trip'[e].vehicle = trip[e].vehicle /\ trip'[e].driver = trip[e].driver
  BY <1>2 DEF Inv, TypeOK
<1>5. CrewKnown' BY <1>2, <1>3, <1>4 DEF Inv, TypeOK, Open
<1>6. CrewBusy' BY <1>2, <1>3, <1>4 DEF Inv
<1>7. CrewExclusive' BY <1>3, <1>4 DEF Inv
<1> QED BY <1>1, <1>5, <1>6, <1>7 DEF Inv

\* Booking adds one active trip and marks exactly its vehicle and driver.
LEMMA BookInv ==
  ASSUME Inv, NEW d \in Deal, NEW v \in Vehicle, NEW p \in Driver, Book(d, v, p)
  PROVE  Inv'
<1>1. TypeOK' BY DEF Inv, TypeOK, Book
<1>2. /\ trip'[d] = [status |-> "ASSIGNED", vehicle |-> v, driver |-> p]
      /\ \A e \in Deal \ {d} : trip'[e] = trip[e]
      /\ vstatus'[v] = "IN_TRIP" /\ \A w \in Vehicle \ {v} : vstatus'[w] = vstatus[w]
      /\ dstatus'[p] = "IN_TRIP" /\ \A q \in Driver \ {p} : dstatus'[q] = dstatus[q]
  BY DEF Inv, TypeOK, Book
<1>3. ~Active(d) /\ Active(d)' /\ \A e \in Deal \ {d} : Active(e)' <=> Active(e)
  BY <1>2 DEF Book
<1>4. \A e \in Deal : Active(e) => trip[e].vehicle # v /\ trip[e].driver # p
  <2>1. vstatus[v] # "IN_TRIP" /\ dstatus[p] # "IN_TRIP" BY DEF Book
  <2> QED BY <2>1 DEF Inv
<1>5. CrewKnown' BY <1>2, <1>3 DEF Inv
<1>6. CrewBusy' BY <1>2, <1>3 DEF Inv
<1>7. CrewExclusive' BY <1>2, <1>3, <1>4 DEF Inv
<1> QED BY <1>1, <1>5, <1>6, <1>7 DEF Inv

\* Advancing keeps a trip active and its crew the same.
LEMMA AdvanceInv ==
  ASSUME Inv, NEW d \in Deal, NEW s \in TripStatus, Advance(d, s) PROVE Inv'
<1>1. TypeOK' BY DEF Inv, TypeOK, Advance
<1>2. /\ Active(d) /\ s \in ActiveStatus
      /\ \A e \in Deal : trip'[e].vehicle = trip[e].vehicle /\ trip'[e].driver = trip[e].driver
      /\ trip'[d].status = s /\ \A e \in Deal \ {d} : trip'[e] = trip[e]
      /\ vstatus' = vstatus /\ dstatus' = dstatus
  BY DEF Inv, TypeOK, Advance, Ahead
<1>3. \A e \in Deal : Active(e)' <=> Active(e) BY <1>2
<1>4. CrewKnown' BY <1>2, <1>3 DEF Inv
<1>5. CrewBusy' BY <1>2, <1>3 DEF Inv
<1>6. CrewExclusive' BY <1>2, <1>3 DEF Inv
<1> QED BY <1>1, <1>4, <1>5, <1>6 DEF Inv

\* Ending a trip frees its crew, which no other active trip has.
LEMMA EndInv ==
  ASSUME Null \notin Vehicle \cup Driver, Inv,
         NEW d \in Deal, NEW s \in TripStatus, End(d, s)
  PROVE  Inv'
<1>1. TypeOK' BY DEF Inv, TypeOK, End
<1>2. /\ trip[d].status \in ActiveStatus \cup {"CREATED"}
      /\ s \in {"CLOSED", "CANCELLED"}
  BY DEF End, Ending
<1>3. /\ \A e \in Deal : trip'[e].vehicle = trip[e].vehicle /\ trip'[e].driver = trip[e].driver
      /\ trip'[d].status = s /\ \A e \in Deal \ {d} : trip'[e] = trip[e]
      /\ \A v \in Vehicle :
           vstatus'[v] = IF v = trip[d].vehicle THEN "AVAILABLE" ELSE vstatus[v]
      /\ \A p \in Driver :
           dstatus'[p] = IF p = trip[d].driver THEN "AVAILABLE" ELSE dstatus[p]
  BY DEF Inv, TypeOK, End
<1>4. ~Active(d)' /\ \A e \in Deal \ {d} : Active(e)' <=> Active(e) BY <1>2, <1>3
<1>5. CrewKnown' BY <1>2, <1>3, <1>4 DEF Inv
<1>6. CrewBusy'
  <2>1. CASE trip[d].status = "CREATED"
    <3>1. trip[d].vehicle = Null /\ trip[d].driver = Null BY <2>1 DEF Inv
    <3>2. (\A v \in Vehicle : vstatus'[v] = vstatus[v]) /\ (\A p \in Driver : dstatus'[p] = dstatus[p])
      BY <1>3, <3>1
    <3>3. ~Active(d) BY <2>1
    <3> QED BY <1>3, <1>4, <3>2, <3>3 DEF Inv
  <2>2. CASE Active(d)
    <3>1. \A e \in Deal \ {d} :
            Active(e) => trip[e].vehicle # trip[d].vehicle /\ trip[e].driver # trip[d].driver
      BY <2>2 DEF Inv
    <3> QED BY <1>3, <1>4, <2>2, <3>1 DEF Inv
  <2> QED BY <1>2, <2>1, <2>2
<1>7. CrewExclusive' BY <1>3, <1>4 DEF Inv
<1> QED BY <1>1, <1>5, <1>6, <1>7 DEF Inv

\* Every step of the ledger keeps the invariant.
LEMMA NextInv == Null \notin Vehicle \cup Driver /\ Inv /\ [Next]_vars => Inv'
<1> SUFFICES ASSUME Null \notin Vehicle \cup Driver, Inv, [Next]_vars PROVE Inv' OBVIOUS
<1>1. CASE UNCHANGED vars BY <1>1 DEF Inv, TypeOK, vars
<1>2. ASSUME NEW d \in Deal, Open(d) PROVE Inv' BY <1>2, OpenInv
<1>3. ASSUME NEW d \in Deal, NEW v \in Vehicle, NEW p \in Driver, Book(d, v, p) PROVE Inv'
  BY <1>3, BookInv
<1>4. ASSUME NEW d \in Deal, NEW s \in TripStatus, Advance(d, s) PROVE Inv' BY <1>4, AdvanceInv
<1>5. ASSUME NEW d \in Deal, NEW s \in TripStatus, End(d, s) PROVE Inv' BY <1>5, EndInv
<1> QED BY <1>1, <1>2, <1>3, <1>4, <1>5 DEF Next

\* The crews stay consistent whatever the size of the fleet and the number of
\* deals, as long as NULL is no vehicle and no driver.
THEOREM LedgerConsistent ==
  ASSUME Null \notin Vehicle \cup Driver PROVE Spec => []CrewConsistent
<1>1. Inv /\ [Next]_vars => Inv' BY NextInv
<1>2. Inv => CrewConsistent BY DEF Inv
<1> QED BY InitInv, <1>1, <1>2, PTL DEF Spec
=============================================================================
