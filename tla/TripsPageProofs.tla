--------------------------- MODULE TripsPageProofs --------------------------
(***************************************************************************)
(* Proofs about TripsPage, for any trips, any number of clicks and any     *)
(* changes made by others.                                                 *)
(***************************************************************************)
EXTENDS TripsPage, TLAPS

\* A request for the next stage is about a trip, and names the stage after the
\* one shown.
Aimed ==
  \A c \in Call :
    call[c].op = "status" /\ call[c].target # "CANCELLED" =>
      /\ call[c].trip \in Trip
      /\ call[c].seen \in DOMAIN nextStatus /\ call[c].target = nextStatus[call[c].seen]

\* Who awaits a table that has been read was executed before.
ReadAfter ==
  load.on /\ load.table # Null =>
    \A c \in Call : call[c].phase \in {"refresh", "loaded"} => c \in known.load

Inv == TypeOK /\ DisabledForAReason /\ Aimed /\ ReadAfter /\ OwnChangeShown

LEMMA nextStatusType ==
  /\ DOMAIN nextStatus = {"ASSIGNED", "LOADING", "IN_TRANSIT", "DELIVERED"}
  /\ \A s \in DOMAIN nextStatus : nextStatus[s] \in TripStatus
BY DEF nextStatus, TripStatus

\* A call and the parts of it that only a click sets.
LEMMA CallType ==
  ASSUME TypeOK, NEW c \in Call
  PROVE  /\ call[c] \in CallState
         /\ \A phase \in Phase : [call[c] EXCEPT !.phase = phase] \in CallState
<1>1. call[c] \in CallState
  BY DEF TypeOK
<1> QED
  BY <1>1 DEF CallState

-----------------------------------------------------------------------------
(* Steps that only move handlers on.                                       *)

\* Each call keeps what it is, and pending calls stay pending.
Onward ==
  /\ marker' = marker /\ saving' = saving
  /\ \A c \in Call :
       /\ call'[c].op = call[c].op /\ call'[c].trip = call[c].trip
       /\ call'[c].seen = call[c].seen /\ call'[c].target = call[c].target
       /\ Pending(c)' <=> Pending(c)

LEMMA OnwardKeeps ==
  ASSUME Inv, Onward
  PROVE  DisabledForAReason' /\ Aimed'
<1>1. Aimed'
  BY DEF Inv, Aimed, Onward
<1>2. DisabledForAReason'
  <2>1. marker' # Null =>
          \E c \in Call : Pending(c)' /\ call'[c].op \in {"assign", "status"} /\ call'[c].trip = marker'
    BY DEF Inv, DisabledForAReason, Onward
  <2>2. saving' <=> \E c \in Call : Pending(c)' /\ call'[c].op = "create"
    BY Zenon DEF Inv, DisabledForAReason, Onward
  <2>3. \A b, c \in Call :
          Pending(b)' /\ Pending(c)' /\ call'[b].op = "create" /\ call'[c].op = "create" => b = c
    BY DEF Inv, DisabledForAReason, Onward
  <2> QED
    BY <2>1, <2>2, <2>3, Zenon DEF DisabledForAReason, Pending
<1> QED
  BY <1>1, <1>2

\* One call goes to another pending phase.
LEMMA MovesOn ==
  ASSUME Inv, NEW c \in Call, Pending(c), NEW phase \in Phase \ {"new", "ended"},
         call' = [call EXCEPT ![c].phase = phase]
  PROVE  /\ call' \in [Call -> CallState]
         /\ \A b \in Call : b # c => call'[b] = call[b]
         /\ call'[c].phase = phase
         /\ marker' = marker /\ saving' = saving => Onward
<1> DEFINE new == [call[c] EXCEPT !.phase = phase]
<1>1. new \in CallState /\ call[c] \in CallState
  BY CallType DEF Inv
<1>2. call' = [call EXCEPT ![c] = new] /\ call \in [Call -> CallState]
  BY DEF Inv, TypeOK
<1>3. /\ new.phase = phase /\ new.op = call[c].op /\ new.trip = call[c].trip
      /\ new.seen = call[c].seen /\ new.target = call[c].target
  BY <1>1 DEF CallState
<1> HIDE DEF new
<1>4. call' \in [Call -> CallState] /\ call'[c] = new /\ \A b \in Call : b # c => call'[b] = call[b]
  BY <1>1, <1>2
<1>5. Pending(c)'
  BY <1>3, <1>4 DEF Pending
<1>6. \A b \in Call : b # c => (Pending(b)' <=> Pending(b))
  BY <1>4 DEF Pending
<1> QED
  BY <1>3, <1>4, <1>5, <1>6 DEF Onward

LEMMA ApiInv ==
  ASSUME Inv, NEW c \in Call, Execute(c) \/ Decline(c) \/ LoseAnswer(c)
  PROVE  Inv'
<1>1. PICK phase \in {"ok", "refused"} : call' = [call EXCEPT ![c].phase = phase]
  BY DEF Execute, Decline, LoseAnswer
<1>2. /\ UNCHANGED <<moves, shown, load, marker, saving, known>>
      /\ Pending(c) /\ call[c].phase \in {"sent", "ok"}
  BY DEF Execute, Decline, LoseAnswer, Pending
<1>3. /\ call' \in [Call -> CallState] /\ call'[c].phase = phase /\ Onward
      /\ \A b \in Call : b # c => call'[b] = call[b]
  BY <1>1, <1>2, MovesOn DEF Phase
<1>4. row' \in Table
  <2>1. CASE Execute(c)
    <3>1. call[c].target \in Status
      BY CallType DEF Inv, CallState
    <3> QED
      BY <2>1, <3>1 DEF Execute, Inv, TypeOK, Table
  <2>2. CASE Decline(c) \/ LoseAnswer(c)
    BY <2>2 DEF Decline, LoseAnswer, Inv, TypeOK
  <2> QED
    BY <2>1, <2>2
<1>5. TypeOK'
  BY <1>2, <1>3, <1>4 DEF Inv, TypeOK
<1>6. ReadAfter' /\ OwnChangeShown'
  BY <1>1, <1>2, <1>3 DEF Inv, ReadAfter, OwnChangeShown
<1> QED
  BY <1>3, <1>5, <1>6, OnwardKeeps DEF Inv

LEMMA AnswerOkInv ==
  ASSUME Inv, NEW c \in Call, AnswerOk(c)
  PROVE  Inv'
<1>1. call' = [call EXCEPT ![c].phase = "refresh"] /\ Pending(c)
  BY DEF AnswerOk, Pending
<1>2. /\ call' \in [Call -> CallState] /\ call'[c].phase = "refresh" /\ Onward
      /\ \A b \in Call : b # c => call'[b] = call[b]
  BY <1>1, MovesOn DEF AnswerOk, Phase
<1>3. /\ load' = [on |-> TRUE, table |-> Null] /\ known'.shown = known.shown
      /\ known' \in [shown: SUBSET Call, load: SUBSET Call]
  BY DEF AnswerOk, StartLoad, Inv, TypeOK
<1>4. TypeOK'
  BY <1>2, <1>3 DEF AnswerOk, Inv, TypeOK
<1>5. ReadAfter' /\ OwnChangeShown'
  BY <1>2, <1>3 DEF AnswerOk, Inv, ReadAfter, OwnChangeShown
<1> QED
  BY <1>2, <1>4, <1>5, OnwardKeeps DEF Inv

LEMMA UntouchedOnward ==
  ASSUME UNCHANGED <<marker, saving, call>>
  PROVE  Onward
BY DEF Onward, Pending

LEMMA ReadTripsInv ==
  ASSUME Inv, ReadTrips
  PROVE  Inv'
<1>1. /\ known'.load = Executed /\ known'.shown = known.shown
      /\ known' \in [shown: SUBSET Call, load: SUBSET Call]
  BY DEF ReadTrips, Inv, TypeOK, Executed
<1>2. load' \in [on: BOOLEAN, table: Table \cup {Null}]
  BY DEF ReadTrips, Inv, TypeOK
<1>3. TypeOK'
  BY <1>1, <1>2 DEF ReadTrips, Inv, TypeOK
<1>4. ReadAfter'
  BY <1>1 DEF ReadTrips, ReadAfter, Executed
<1>5. OwnChangeShown'
  BY <1>1 DEF ReadTrips, OwnChangeShown, Inv
<1>6. Onward
  BY UntouchedOnward DEF ReadTrips
<1> QED
  BY <1>3, <1>4, <1>5, <1>6, OnwardKeeps DEF Inv

LEMMA OtherMovesInv ==
  ASSUME Inv, NEW t \in Trip, NEW s \in Foreign, OtherMoves(t, s)
  PROVE  Inv'
<1>1. row' \in Table
  BY ForeignAssumption DEF OtherMoves, Inv, TypeOK, Table, Status
<1>2. moves' \in 0..MaxMoves
  BY BoundAssumption DEF OtherMoves, Inv, TypeOK
<1>3. TypeOK'
  BY <1>1, <1>2 DEF OtherMoves, Inv, TypeOK
<1>4. ReadAfter' /\ OwnChangeShown'
  BY DEF OtherMoves, ReadAfter, OwnChangeShown, Inv
<1>5. Onward
  BY UntouchedOnward DEF OtherMoves
<1> QED
  BY <1>3, <1>4, <1>5, OnwardKeeps DEF Inv

\* Every handler that awaits a load goes on.
LEMMA SettleOnward ==
  ASSUME Inv, Settle, UNCHANGED <<marker, saving>>
  PROVE  /\ call' \in [Call -> CallState] /\ Onward
         /\ \A c \in Call : call'[c].phase = "loaded" => call[c].phase \in {"refresh", "loaded"}
<1>1. ASSUME NEW c \in Call
      PROVE  /\ call'[c] = [call[c] EXCEPT !.phase = Settled(c)]
             /\ Settled(c) \in Phase /\ call[c] \in CallState
             /\ call'[c] \in CallState
  <2>1. call[c] \in CallState
    BY CallType DEF Inv
  <2>2. Settled(c) \in Phase
    BY <2>1 DEF Settled, Phase, CallState
  <2> QED
    BY <2>1, <2>2, CallType DEF Settle, Inv
<1>2. call' \in [Call -> CallState]
  <2>1. call' = [c \in Call |-> call'[c]]
    BY DEF Settle
  <2> QED
    BY <1>1, <2>1
<1>3. ASSUME NEW c \in Call
      PROVE  /\ call'[c].phase = Settled(c)
             /\ call'[c].op = call[c].op /\ call'[c].trip = call[c].trip
             /\ call'[c].seen = call[c].seen /\ call'[c].target = call[c].target
             /\ Pending(c)' <=> Pending(c)
             /\ call'[c].phase = "loaded" => call[c].phase \in {"refresh", "loaded"}
  <2>1. /\ call'[c].phase = Settled(c)
        /\ call'[c].op = call[c].op /\ call'[c].trip = call[c].trip
        /\ call'[c].seen = call[c].seen /\ call'[c].target = call[c].target
    BY <1>1 DEF CallState
  <2> QED
    BY <2>1 DEF Settled, Pending
<1>4. Onward
  BY <1>3 DEF Onward
<1> QED
  BY <1>2, <1>3, <1>4

LEMMA LoadInv ==
  ASSUME Inv, LoadArrives \/ LoadFails
  PROVE  Inv'
<1>1. /\ Settle /\ load' = NoLoad
      /\ UNCHANGED <<row, moves, marker, saving>>
  BY DEF LoadArrives, LoadFails
<1>2. /\ call' \in [Call -> CallState] /\ Onward
      /\ \A c \in Call : call'[c].phase = "loaded" => call[c].phase \in {"refresh", "loaded"}
  BY <1>1, SettleOnward
<1>3. /\ shown' \in Table \cup {Null}
      /\ known' \in [shown: SUBSET Call, load: SUBSET Call]
      /\ load' \in [on: BOOLEAN, table: Table \cup {Null}]
  <2>1. NoLoad \in [on: BOOLEAN, table: Table \cup {Null}]
    BY DEF NoLoad
  <2>2. load.table \in Table \cup {Null} /\ known.load \in SUBSET Call
    BY DEF Inv, TypeOK
  <2>3. shown' \in {load.table, Null}
    BY DEF LoadArrives, LoadFails
  <2>4. \E S \in SUBSET Call : known' = [shown |-> S, load |-> {}]
    BY <2>2 DEF LoadArrives, LoadFails
  <2> QED
    BY <1>1, <2>1, <2>2, <2>3, <2>4
<1>4. TypeOK'
  BY <1>1, <1>2, <1>3 DEF Inv, TypeOK
<1>5. ReadAfter'
  BY <1>1 DEF NoLoad, ReadAfter
<1>6. OwnChangeShown'
  <2>1. CASE LoadArrives
    <3>0. load.on /\ load.table # Null /\ known' = [shown |-> known.load, load |-> {}]
      BY <2>1 DEF LoadArrives
    <3>1. load.on /\ load.table # Null /\ known'.shown = known.load
      BY <3>0
    <3>2. \A c \in Call : call[c].phase \in {"refresh", "loaded"} => c \in known.load
      BY <3>1 DEF ReadAfter, Inv
    <3> QED
      BY <1>2, <3>1, <3>2 DEF OwnChangeShown
  <2>2. CASE LoadFails
    BY <2>2 DEF LoadFails, OwnChangeShown
  <2> QED
    BY <2>1, <2>2
<1> QED
  BY <1>2, <1>4, <1>5, <1>6, OnwardKeeps DEF Inv

-----------------------------------------------------------------------------
(* Clicks.                                                                 *)

\* A call that begins.
LEMMA Begins ==
  ASSUME Inv, NEW c \in Call, Due(c), NEW new \in CallState,
         call' = [call EXCEPT ![c] = new], new.phase \in {"sent", "refresh"}
  PROVE  /\ call' \in [Call -> CallState] /\ call'[c] = new
         /\ \A b \in Call : b # c => call'[b] = call[b]
         /\ Pending(c)' /\ ~Pending(c)
         /\ \A b \in Call : b # c => (Pending(b)' <=> Pending(b))
BY DEF Inv, TypeOK, Due, Pending

\* The record that Sent writes.
LEMMA SentType ==
  ASSUME Inv, NEW c \in Call, NEW op \in {"create", "assign", "status"}, NEW t \in Trip,
         NEW target \in TripStatus, Sent(c, op, t, target)
  PROVE  \E new \in CallState :
           /\ call' = [call EXCEPT ![c] = new] /\ new.phase = "sent"
           /\ new.op = op /\ new.trip = t /\ new.target = target
           /\ shown # Null => new.seen = shown[t]
<1> DEFINE new == [op |-> op, trip |-> t, target |-> target, phase |-> "sent",
                   seen |-> IF shown = Null THEN "NONE" ELSE shown[t]]
<1>1. (IF shown = Null THEN "NONE" ELSE shown[t]) \in Status
  BY DEF Inv, TypeOK, Table, Status
<1>2. new \in CallState
  BY <1>1 DEF CallState, Status, Phase
<1>3. call' = [call EXCEPT ![c] = new]
  BY DEF Sent
<1> QED
  BY <1>2, <1>3

LEMMA SentKeeps ==
  ASSUME Inv, NEW c \in Call, Due(c), NEW new \in CallState, new.phase = "sent",
         call' = [call EXCEPT ![c] = new],
         UNCHANGED <<row, moves, shown, load, known>>,
         marker' \in Trip \cup {Null}, saving' \in BOOLEAN
  PROVE  TypeOK' /\ ReadAfter' /\ OwnChangeShown'
<1>1. /\ call' \in [Call -> CallState] /\ call'[c] = new
      /\ \A b \in Call : b # c => call'[b] = call[b]
  BY Begins
<1> QED
  BY <1>1 DEF Inv, TypeOK, ReadAfter, OwnChangeShown

LEMMA RowButtonsInv ==
  ASSUME Inv, NEW c \in Call, NEW t \in Trip, RowButtons(c, t)
  PROVE  Inv'
<1>1. PICK op \in {"assign", "status"}, target \in TripStatus :
        /\ runAction(c, op, t, target) /\ shown # Null
        /\ op = "status" /\ target # "CANCELLED" =>
             shown[t] \in DOMAIN nextStatus /\ target = nextStatus[shown[t]]
  <2>1. CASE assignVehicle(c, t)
    BY <2>1 DEF RowButtons, assignVehicle, TripStatus
  <2>2. CASE advance(c, t)
    BY <2>2, nextStatusType DEF RowButtons, advance
  <2>3. CASE cancel(c, t)
    BY <2>3 DEF RowButtons, cancel, TripStatus
  <2> QED
    BY <2>1, <2>2, <2>3 DEF RowButtons
<1>2. Sent(c, op, t, target) /\ marker' = t /\ saving' = saving
  BY <1>1 DEF runAction
<1>3. PICK new \in CallState :
        /\ call' = [call EXCEPT ![c] = new] /\ new.phase = "sent"
        /\ new.op = op /\ new.trip = t /\ new.target = target /\ new.seen = shown[t]
  BY <1>1, <1>2, SentType
<1>4. Due(c) /\ UNCHANGED <<row, moves, shown, load, known>>
  BY <1>2 DEF Sent
<1>5. TypeOK' /\ ReadAfter' /\ OwnChangeShown'
  BY <1>2, <1>3, <1>4, SentKeeps DEF Inv, TypeOK
<1>6. /\ call' \in [Call -> CallState] /\ call'[c] = new
      /\ \A b \in Call : b # c => call'[b] = call[b]
      /\ Pending(c)' /\ ~Pending(c)
      /\ \A b \in Call : b # c => (Pending(b)' <=> Pending(b))
  BY <1>3, <1>4, Begins
<1>7. Aimed'
  BY <1>1, <1>3, <1>6 DEF Inv, Aimed
<1>8. DisabledForAReason'
  <2>1. \E b \in Call : Pending(b)' /\ call'[b].op \in {"assign", "status"} /\ call'[b].trip = marker'
    BY <1>2, <1>3, <1>6
  <2>2. \A b \in Call : (Pending(b)' /\ call'[b].op = "create") <=> (Pending(b) /\ call[b].op = "create")
    BY <1>3, <1>6
  <2>3. saving' <=> \E b \in Call : Pending(b)' /\ call'[b].op = "create"
    BY <1>2, <2>2, Zenon DEF Inv, DisabledForAReason
  <2>4. \A a, b \in Call :
          Pending(a)' /\ Pending(b)' /\ call'[a].op = "create" /\ call'[b].op = "create" => a = b
    BY <2>2, Zenon DEF Inv, DisabledForAReason
  <2> QED
    BY <2>1, <2>3, <2>4, Zenon DEF DisabledForAReason, Pending
<1> QED
  BY <1>5, <1>7, <1>8 DEF Inv

LEMMA FormInv ==
  ASSUME Inv, NEW c \in Call, NEW t \in Trip, Form(c, t)
  PROVE  Inv'
<1>1. PICK target \in {"CREATED", "ASSIGNED"} : Sent(c, "create", t, target)
  BY DEF Form, createTrip
<1>2. ~saving /\ saving' = TRUE /\ marker' = marker
  BY DEF Form, createTrip
<1>3. PICK new \in CallState :
        call' = [call EXCEPT ![c] = new] /\ new.phase = "sent" /\ new.op = "create"
  BY <1>1, SentType DEF TripStatus
<1>4. Due(c) /\ UNCHANGED <<row, moves, shown, load, known>>
  BY <1>1 DEF Sent
<1>5. TypeOK' /\ ReadAfter' /\ OwnChangeShown'
  BY <1>2, <1>3, <1>4, SentKeeps DEF Inv, TypeOK
<1>6. /\ call' \in [Call -> CallState] /\ call'[c] = new
      /\ \A b \in Call : b # c => call'[b] = call[b]
      /\ Pending(c)' /\ ~Pending(c)
      /\ \A b \in Call : b # c => (Pending(b)' <=> Pending(b))
  BY <1>3, <1>4, Begins
<1>7. Aimed'
  BY <1>3, <1>6 DEF Inv, Aimed
<1>8. DisabledForAReason'
  <2>1. marker' # Null =>
          \E b \in Call : Pending(b)' /\ call'[b].op \in {"assign", "status"} /\ call'[b].trip = marker'
    BY <1>2, <1>6 DEF Inv, DisabledForAReason
  <2>2. \E b \in Call : Pending(b)' /\ call'[b].op = "create"
    BY <1>3, <1>6
  <2>3. \A b \in Call : Pending(b)' /\ call'[b].op = "create" => b = c
    BY <1>2, <1>6, Zenon DEF Inv, DisabledForAReason
  <2> QED
    BY <1>2, <2>1, <2>2, <2>3, Zenon DEF DisabledForAReason, Pending
<1> QED
  BY <1>5, <1>7, <1>8 DEF Inv

LEMMA ReloadInv ==
  ASSUME Inv, NEW c \in Call, Reload(c)
  PROVE  Inv'
<1> DEFINE new == [call[c] EXCEPT !.op = "reload", !.phase = "refresh"]
<1>1. Due(c) /\ call[c] \in CallState
  BY CallType DEF Reload, Inv
<1>2. new \in CallState /\ new.op = "reload" /\ new.phase = "refresh"
  BY <1>1 DEF CallState, Phase
<1>3. call' = [call EXCEPT ![c] = new]
  BY DEF Reload, Inv, TypeOK
<1> HIDE DEF new
<1>4. /\ call' \in [Call -> CallState] /\ call'[c] = new
      /\ \A b \in Call : b # c => call'[b] = call[b]
      /\ Pending(c)' /\ ~Pending(c)
      /\ \A b \in Call : b # c => (Pending(b)' <=> Pending(b))
  BY <1>1, <1>2, <1>3, Begins
<1>5. /\ load' = [on |-> TRUE, table |-> Null] /\ known'.shown = known.shown
      /\ known' \in [shown: SUBSET Call, load: SUBSET Call]
      /\ UNCHANGED <<row, moves, shown, marker, saving>>
  BY DEF Reload, StartLoad, Inv, TypeOK
<1>6. TypeOK'
  BY <1>4, <1>5 DEF Inv, TypeOK
<1>7. ReadAfter' /\ OwnChangeShown'
  BY <1>2, <1>4, <1>5 DEF Inv, ReadAfter, OwnChangeShown
<1>8. Aimed'
  BY <1>2, <1>4 DEF Inv, Aimed
<1>9. DisabledForAReason'
  <2>1. marker' # Null =>
          \E b \in Call : Pending(b)' /\ call'[b].op \in {"assign", "status"} /\ call'[b].trip = marker'
    BY <1>4, <1>5 DEF Inv, DisabledForAReason
  <2>2. \A b \in Call : (Pending(b)' /\ call'[b].op = "create") <=> (Pending(b) /\ call[b].op = "create")
    BY <1>2, <1>4
  <2>3. saving' <=> \E b \in Call : Pending(b)' /\ call'[b].op = "create"
    BY <1>5, <2>2, Zenon DEF Inv, DisabledForAReason
  <2>4. \A a, b \in Call :
          Pending(a)' /\ Pending(b)' /\ call'[a].op = "create" /\ call'[b].op = "create" => a = b
    BY <2>2, Zenon DEF Inv, DisabledForAReason
  <2> QED
    BY <2>1, <2>3, <2>4, Zenon DEF DisabledForAReason, Pending
<1> QED
  BY <1>6, <1>7, <1>8, <1>9 DEF Inv

-----------------------------------------------------------------------------
(* Ends of handlers.                                                       *)

LEMMA EndsInv ==
  ASSUME Inv, NEW c \in Call, AnswerError(c) \/ Refreshed(c)
  PROVE  Inv'
<1> DEFINE new == [NewCall EXCEPT !.phase = "ended"]
<1>1. Ends(c) /\ Pending(c) /\ UNCHANGED <<row, moves, shown, load>>
  BY DEF AnswerError, Refreshed, Pending
<1>2. new \in CallState /\ new.op = "none" /\ new.phase = "ended"
  BY DEF NewCall, CallState, Phase, Status
<1>3. call' = [call EXCEPT ![c] = new]
  BY <1>1 DEF Ends
<1> HIDE DEF new
<1>4. /\ call' \in [Call -> CallState] /\ call'[c] = new
      /\ \A b \in Call : b # c => call'[b] = call[b]
  BY <1>2, <1>3 DEF Inv, TypeOK
<1>5. ~Pending(c)' /\ \A b \in Call : b # c => (Pending(b)' <=> Pending(b))
  BY <1>2, <1>4 DEF Pending
<1>6. /\ known'.shown = known.shown \ {c} /\ known'.load = known.load \ {c}
      /\ known' \in [shown: SUBSET Call, load: SUBSET Call]
  BY <1>1 DEF Ends, Inv, TypeOK
<1>7. saving' = (saving /\ call[c].op # "create") /\ marker' \in {marker, Null}
  BY <1>1 DEF Ends
<1>8. TypeOK'
  <2>1. saving' \in BOOLEAN
    BY <1>7
  <2> QED
    BY <1>1, <1>4, <1>6, <1>7, <2>1 DEF Inv, TypeOK
<1>9. ReadAfter' /\ OwnChangeShown'
  BY <1>1, <1>2, <1>4, <1>6 DEF Inv, ReadAfter, OwnChangeShown
<1>10. Aimed'
  BY <1>2, <1>4 DEF Inv, Aimed
<1>11. DisabledForAReason'
  <2>1. marker' # Null =>
          \E b \in Call : Pending(b)' /\ call'[b].op \in {"assign", "status"} /\ call'[b].trip = marker'
    <3> SUFFICES ASSUME marker' # Null
                 PROVE  \E b \in Call : /\ Pending(b)' /\ call'[b].op \in {"assign", "status"}
                                        /\ call'[b].trip = marker'
      OBVIOUS
    <3>1. marker' = marker /\ call[c].op \notin {"assign", "status"}
      BY <1>1 DEF Ends
    <3>2. PICK b \in Call : Pending(b) /\ call[b].op \in {"assign", "status"} /\ call[b].trip = marker
      BY <3>1 DEF Inv, DisabledForAReason
    <3>3. b # c
      BY <3>1, <3>2
    <3> QED
      BY <1>4, <1>5, <3>1, <3>2, <3>3
  <2>2. \A b \in Call :
          (Pending(b)' /\ call'[b].op = "create") <=> (b # c /\ Pending(b) /\ call[b].op = "create")
    BY <1>2, <1>4, <1>5
  <2>3. \A a, b \in Call :
          Pending(a)' /\ Pending(b)' /\ call'[a].op = "create" /\ call'[b].op = "create" => a = b
    BY <2>2, Zenon DEF Inv, DisabledForAReason
  <2>4. saving' <=> \E b \in Call : Pending(b)' /\ call'[b].op = "create"
    <3>1. CASE call[c].op = "create"
      <4>1. \A b \in Call : Pending(b) /\ call[b].op = "create" => b = c
        BY <1>1, <3>1, Zenon DEF Inv, DisabledForAReason
      <4> QED
        BY <1>7, <2>2, <3>1, <4>1, Zenon
    <3>2. CASE call[c].op # "create"
      <4>1. saving' <=> saving
        BY <1>7, <3>2, Zenon
      <4>2. saving <=> \E b \in Call : Pending(b) /\ call[b].op = "create"
        BY Zenon DEF Inv, DisabledForAReason
      <4>3. \A b \in Call :
              (Pending(b)' /\ call'[b].op = "create") <=> (Pending(b) /\ call[b].op = "create")
        BY <2>2, <3>2, Zenon
      <4> QED
        BY <4>1, <4>2, <4>3, Zenon
    <3> QED
      BY <3>1, <3>2
  <2> QED
    BY <2>1, <2>3, <2>4, Zenon DEF DisabledForAReason, Pending
<1> QED
  BY <1>8, <1>9, <1>10, <1>11 DEF Inv

-----------------------------------------------------------------------------
LEMMA InitInv == Init => Inv
<1> SUFFICES ASSUME Init PROVE Inv
  OBVIOUS
<1>1. NewCall \in CallState /\ NewCall.phase = "new" /\ NewCall.op = "none"
  BY DEF NewCall, CallState, Status, Phase
<1>2. call = [c \in Call |-> NewCall] /\ \A c \in Call : call[c] = NewCall
  BY DEF Init
<1>3. call \in [Call -> CallState]
  BY <1>1, <1>2
<1>4. row \in Table /\ shown \in Table \cup {Null} /\ moves \in 0..MaxMoves
  BY TablesAssumption, BoundAssumption DEF Init, Table, Status
<1>5. TypeOK
  <2>1. load \in [on: BOOLEAN, table: Table \cup {Null}]
    BY DEF Init, NoLoad
  <2>2. saving \in BOOLEAN /\ marker \in Trip \cup {Null}
    BY DEF Init
  <2>3. known \in [shown: SUBSET Call, load: SUBSET Call]
    BY DEF Init
  <2> QED
    BY <1>3, <1>4, <2>1, <2>2, <2>3 DEF TypeOK
<1>6. DisabledForAReason
  <2>1. \A c \in Call : ~Pending(c)
    BY <1>1, <1>2 DEF Pending
  <2> QED
    BY <2>1, Zenon DEF Init, DisabledForAReason
<1>7. Aimed /\ ReadAfter /\ OwnChangeShown
  BY <1>1, <1>2 DEF Init, NoLoad, Aimed, ReadAfter, OwnChangeShown
<1> QED
  BY <1>5, <1>6, <1>7 DEF Inv

LEMMA StepInv == Inv /\ [Next]_vars => Inv'
<1> SUFFICES ASSUME Inv, [Next]_vars PROVE Inv'
  OBVIOUS
<1>1. CASE UNCHANGED vars
  BY <1>1 DEF vars, Inv, TypeOK, DisabledForAReason, Pending, Aimed, ReadAfter, OwnChangeShown
<1>2. CASE \E c \in Call : Click(c)
  BY <1>2, ReloadInv, RowButtonsInv, FormInv DEF Click
<1>3. CASE \E c \in Call : Answer(c)
  BY <1>3, ApiInv, AnswerOkInv, EndsInv DEF Answer
<1>4. CASE ReadTrips \/ LoadArrives \/ LoadFails
  BY <1>4, ReadTripsInv, LoadInv
<1>5. CASE \E t \in Trip, s \in Foreign : OtherMoves(t, s)
  BY <1>5, OtherMovesInv
<1> QED
  BY <1>1, <1>2, <1>3, <1>4, <1>5 DEF Next

LEMMA Invariant == Spec => []Inv
BY InitInv, StepInv, PTL DEF Spec

\* The variables keep their types.
THEOREM TypeCorrect == Spec => []TypeOK
<1>1. Inv => TypeOK
  BY DEF Inv
<1> QED
  BY <1>1, Invariant, PTL

\* No row and no form stays disabled without a request of its own under way.
THEOREM NothingStaysDisabled == Spec => []DisabledForAReason
<1>1. Inv => DisabledForAReason
  BY DEF Inv
<1> QED
  BY <1>1, Invariant, PTL

\* A handler ends with a table read after its request was executed, or none.
THEOREM ReadsItsOwnChange == Spec => []OwnChangeShown
<1>1. Inv => OwnChangeShown
  BY DEF Inv
<1> QED
  BY <1>1, Invariant, PTL

\* A request for the next stage moves a trip only out of the stage its row
\* showed: each stage is entered from one other only.
THEOREM MovesFromShown == Spec => AdvanceFromShown
<1> DEFINE Moves(c) == Execute(c) /\ call[c].op = "status" /\ call[c].target # "CANCELLED"
           Kept(c) == row[call[c].trip] \in {call[c].seen, call[c].target}
<1>1. Inv /\ [Next]_vars => \A c \in Call : Moves(c) => Kept(c)
  <2> SUFFICES ASSUME Inv, NEW c \in Call, Moves(c) PROVE Kept(c)
    OBVIOUS
  <2> DEFINE now == row[call[c].trip]
             seen == call[c].seen
             target == call[c].target
  <2>1. call[c].trip \in Trip /\ seen \in DOMAIN nextStatus /\ target = nextStatus[seen]
    BY DEF Inv, Aimed
  <2>2. now # "NONE" /\ canTransition(now, target)
    BY DEF Execute, Accepts
  <2>3. now \in TripStatus
    <3>1. row \in Table
      BY DEF Inv, TypeOK
    <3> QED
      BY <2>1, <2>2, <3>1 DEF Table, Status
  <2> HIDE DEF now, seen, target
  <2>4. now \in {seen, target}
    BY <2>1, <2>2, <2>3, nextStatusType
       DEF nextStatus, canTransition, allowedTransitions, TripStatus
  <2> QED
    BY <2>4 DEF now, seen, target
<1> QED
  BY <1>1, Invariant, PTL DEF Spec, AdvanceFromShown
=============================================================================
