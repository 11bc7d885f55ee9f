--------------------------- MODULE DealSyncProofs ---------------------------
(***************************************************************************)
(* For any number of handlers, changes, retries and faults, and for        *)
(* handlers that outlast their lock: a lock is deleted by its owner alone, *)
(* no event of a deal throws a trip back to CREATED, and only a manager's  *)
(* move ends a trip without its crew.  For handlers that do not: what one  *)
(* reads is current until it writes, a deal is marked once, and at rest    *)
(* the two sides agree.                                                    *)
(***************************************************************************)
EXTENDS DealSync, TLAPS

Trips == [status: TripStatus \cup {"NONE"}, crew: BOOLEAN]
Counts == [changes: 0..MaxChanges, moves: 0..MaxMoves, faults: 0..MaxFaults]
HandlerState ==
  [pc: {"free", "lock", "error"} \cup Critical, msg: Message,
   seen: Stage \cup {"CREATED"}, marked: BOOLEAN]

\* What a handler read, or was sent, fits the step it is at.
Fits(s) ==
  /\ s.pc = "upsert" => s.seen \in Stage
  /\ s.pc = "pushStatus" => s.msg.kind = "status"
  /\ s.pc = "readTrip" => s.msg.kind = "trip"
StepsFit == \A h \in Handler : Fits(handler[h])

\* A message that names a trip is about a trip that is there.
QueueKnown == \A m \in Message : m.kind = "trip" /\ queue[m] > 0 => trip.status # "NONE"
TripKnown ==
  QueueKnown /\ \A h \in Handler : handler[h].msg.kind = "trip" => trip.status # "NONE"

Inv == TypeOK /\ StepsFit /\ TripKnown /\ OwnerKeepsLock

LEMMA MessagesTyped ==
  /\ PullMessage \in Message /\ PullMessage.kind = "pull"
  /\ TripMessage \in Message
  /\ \A s \in TripStatus \ {"CREATED"} : StatusMessage(s) \in Message
BY BoundAssumption DEF PullMessage, TripMessage, StatusMessage, Message

LEMMA FreeTyped == Free \in HandlerState /\ Free.pc = "free" /\ Free.msg.kind = "pull"
BY MessagesTyped DEF Free, HandlerState, Stage, Other

\* The status of a status message is a stage.
LEMMA StatusIsStage ==
  ASSUME NEW m \in Message, m.kind = "status" PROVE m.status \in Stage
BY DEF Message, Stage

LEMMA InitInv == ASSUME Init PROVE Inv
<1>1. \A h \in Handler : handler[h] = Free BY DEF Init
<1>2. queue \in [Message -> Nat] BY DEF Init
<1>3. TypeOK
  <2>1. trip \in Trips BY DEF Init, Trips
  <2>2. deal \in DealFields BY DEF Init, DealFields, Stage
  <2>3. count \in Counts BY BoundAssumption DEF Init, Counts
  <2>4. handler \in [Handler -> HandlerState] BY FreeTyped DEF Init
  <2>5. dead \in BOOLEAN /\ lock \in Handler \cup {Nobody} /\ lapsed \subseteq Handler
        /\ crew \in {"AVAILABLE", "IN_TRIP"}
    BY DEF Init
  <2> QED BY <1>2, <2>1, <2>2, <2>3, <2>4, <2>5 DEF TypeOK, HandlerState, Trips, Counts
<1>4. StepsFit BY <1>1, FreeTyped DEF StepsFit, Fits
<1>5. TripKnown BY <1>1, FreeTyped, MessagesTyped DEF TripKnown, QueueKnown, Init
<1>6. OwnerKeepsLock BY <1>1, FreeTyped DEF OwnerKeepsLock, Critical
<1> QED BY <1>3, <1>4, <1>5, <1>6 DEF Inv

-----------------------------------------------------------------------------
(* Pieces of steps.                                                        *)

LEMMA Typed ==
  ASSUME Inv
  PROVE  /\ trip \in Trips /\ crew \in {"AVAILABLE", "IN_TRIP"} /\ deal \in DealFields
         /\ queue \in [Message -> Nat] /\ dead \in BOOLEAN /\ lock \in Handler \cup {Nobody}
         /\ handler \in [Handler -> HandlerState] /\ lapsed \subseteq Handler
         /\ count \in Counts /\ QueueKnown
BY DEF Inv, TypeOK, Trips, HandlerState, Counts, TripKnown

LEMMA SendsTyped ==
  ASSUME Inv, NEW m \in Message, Sends(m) PROVE queue' \in [Message -> Nat]
BY Typed DEF Sends

\* The event of an update or a move names no trip.
LEMMA PullSent ==
  ASSUME Inv, Sends(PullMessage), trip' = trip PROVE queue' \in [Message -> Nat] /\ QueueKnown'
BY MessagesTyped, Typed DEF Sends, QueueKnown

LEMMA ChangeTyped == ASSUME Inv, Change PROVE count' \in Counts
BY Typed, BoundAssumption DEF Change, Counts

LEMMA FaultTyped == ASSUME Inv, Fault PROVE count' \in Counts
BY Typed, BoundAssumption DEF Fault, Counts

\* People's steps leave the worker alone.
LEMMA PeopleInv ==
  ASSUME Inv, UNCHANGED <<dead, lock, handler, lapsed>>,
         trip' \in Trips, crew' \in {"AVAILABLE", "IN_TRIP"}, deal' \in DealFields,
         queue' \in [Message -> Nat], count' \in Counts,
         trip'.status # "NONE" \/ (trip' = trip /\ QueueKnown')
  PROVE  Inv'
<1>1. TypeOK' BY Typed DEF TypeOK, Trips, Counts, HandlerState
<1>2. StepsFit' BY DEF Inv, StepsFit
<1>3. TripKnown' BY DEF Inv, TripKnown, QueueKnown
<1>4. OwnerKeepsLock' BY DEF Inv, OwnerKeepsLock
<1> QED BY <1>1, <1>2, <1>3, <1>4 DEF Inv

\* One handler steps on.  The lock is its own if it is to work under it, and
\* was nobody else's.
LEMMA HandlerInv ==
  ASSUME Inv, NEW h \in Handler, NEW s \in HandlerState,
         handler' = [handler EXCEPT ![h] = s], Fits(s),
         s.msg.kind = "trip" => trip.status # "NONE",
         UNCHANGED crew, trip' \in Trips, deal' \in DealFields,
         trip.status # "NONE" => trip'.status # "NONE",
         queue' \in [Message -> Nat], QueueKnown', dead' \in BOOLEAN,
         lock' \in Handler \cup {Nobody}, count' \in Counts,
         lapsed' = lapsed \/ (lapsed' = lapsed \ {h} /\ s.pc \notin Critical),
         s.pc \in Critical /\ h \notin lapsed' => lock' = h,
         lock' # lock => lock \in {h, Nobody}
  PROVE  Inv'
<1>1. handler'[h] = s /\ \A q \in Handler \ {h} : handler'[q] = handler[q] BY Typed
<1>2. TypeOK'
  <2>1. handler' \in [Handler -> HandlerState] /\ lapsed' \subseteq Handler BY Typed
  <2> QED BY <2>1, Typed DEF TypeOK, HandlerState, Trips, Counts
<1>3. StepsFit' BY <1>1 DEF Inv, StepsFit, Fits
<1>4. TripKnown' BY <1>1 DEF Inv, TripKnown
<1>5. OwnerKeepsLock'
  <2> SUFFICES ASSUME NEW q \in Handler, handler'[q].pc \in Critical, q \notin lapsed'
               PROVE  lock' = q
    BY DEF OwnerKeepsLock
  <2>1. CASE q = h BY <1>1, <2>1
  <2>2. CASE q # h
    <3>1. lock = q BY <1>1, <2>2 DEF Inv, OwnerKeepsLock
    <3> QED BY <2>2, <3>1, NobodyAssumption
  <2> QED BY <2>1, <2>2
<1> QED BY <1>2, <1>3, <1>4, <1>5 DEF Inv

\* A handler goes to another step with what it has.
LEMMA GotoInv ==
  ASSUME Inv, NEW h \in Handler, NEW pc \in {"free", "lock", "error"} \cup Critical,
         Goto(h, pc), Fits([handler[h] EXCEPT !.pc = pc]),
         UNCHANGED <<crew, lapsed>>, trip' \in Trips, deal' \in DealFields,
         trip.status # "NONE" => trip'.status # "NONE",
         queue' \in [Message -> Nat], QueueKnown', dead' \in BOOLEAN,
         lock' \in Handler \cup {Nobody}, count' \in Counts,
         pc \in Critical /\ h \notin lapsed => lock' = h,
         lock' # lock => lock \in {h, Nobody}
  PROVE  Inv'
<1> DEFINE s == [handler[h] EXCEPT !.pc = pc]
<1>1. handler[h] \in HandlerState BY Typed
<1>2. s \in HandlerState /\ s.pc = pc /\ s.msg = handler[h].msg BY <1>1 DEF HandlerState
<1>3. handler' = [handler EXCEPT ![h] = s] BY DEF Goto
<1>4. s.msg.kind = "trip" => trip.status # "NONE" BY <1>2 DEF Inv, TripKnown
<1>5. Fits(s) OBVIOUS
<1> HIDE DEF s
<1> QED BY <1>2, <1>3, <1>4, <1>5, HandlerInv

\* The lock of a handler at work is its own, unless it has lapsed.
LEMMA OwnsLock ==
  ASSUME Inv, NEW h \in Handler, handler[h].pc \in Critical, h \notin lapsed PROVE lock = h
BY DEF Inv, OwnerKeepsLock

-----------------------------------------------------------------------------
(* People.                                                                 *)

LEMMA CreateTripInv == ASSUME Inv, NEW b \in BOOLEAN, CreateTrip(b) PROVE Inv'
<1>1. queue' \in [Message -> Nat] BY MessagesTyped, SendsTyped DEF CreateTrip
<1>2. trip' \in Trips /\ trip'.status # "NONE" BY DEF CreateTrip, TripStatus, Trips
<1>3. crew' \in {"AVAILABLE", "IN_TRIP"} BY Typed DEF CreateTrip
<1> QED BY <1>1, <1>2, <1>3, Typed, ChangeTyped, PeopleInv DEF CreateTrip

LEMMA AssignVehicleInv == ASSUME Inv, AssignVehicle PROVE Inv'
<1>1. queue' \in [Message -> Nat] BY MessagesTyped, SendsTyped DEF AssignVehicle
<1>2. trip' \in Trips /\ trip'.status # "NONE" BY DEF AssignVehicle, TripStatus, Trips
<1>3. crew' \in {"AVAILABLE", "IN_TRIP"} BY DEF AssignVehicle
<1> QED BY <1>1, <1>2, <1>3, Typed, ChangeTyped, PeopleInv DEF AssignVehicle

\* Nothing leads back to CREATED.
LEMMA NoWayBack ==
  ASSUME NEW from \in TripStatus, NEW to \in TripStatus, canTransition(from, to), from # to
  PROVE  to # "CREATED"
BY DEF canTransition, allowedTransitions, TripStatus

LEMMA UpdateStatusLeavesCreated ==
  ASSUME Inv, NEW s \in TripStatus, UpdateStatus(s)
  PROVE  s # "CREATED" /\ trip' = [trip EXCEPT !.status = s]
BY Typed, NoWayBack DEF UpdateStatus, Trips

LEMMA UpdateStatusInv == ASSUME Inv, NEW s \in TripStatus, UpdateStatus(s) PROVE Inv'
<1>1. queue' \in [Message -> Nat]
  BY UpdateStatusLeavesCreated, MessagesTyped, SendsTyped DEF UpdateStatus
<1>2. trip' \in Trips /\ trip'.status # "NONE"
  BY Typed, UpdateStatusLeavesCreated DEF Trips, TripStatus
<1>3. crew' \in {"AVAILABLE", "IN_TRIP"} BY Typed DEF UpdateStatus
<1> QED BY <1>1, <1>2, <1>3, Typed, ChangeTyped, PeopleInv DEF UpdateStatus

LEMMA MoveStageInv == ASSUME Inv, NEW s \in Stage, MoveStage(s) PROVE Inv'
<1>1. queue' \in [Message -> Nat] /\ QueueKnown' BY PullSent DEF MoveStage, fleet
<1>2. deal' \in DealFields BY Typed DEF MoveStage, DealFields
<1>3. count' \in Counts
  <2> DEFINE c == [count EXCEPT !.changes = count.changes + 1, !.moves = count.moves + 1]
  <2>1. /\ count.changes \in Nat /\ count.changes < MaxChanges
        /\ count.moves \in Nat /\ count.moves < MaxMoves
    BY Typed, BoundAssumption DEF MoveStage, Counts
  <2>2. count.changes + 1 \in 0..MaxChanges /\ count.moves + 1 \in 0..MaxMoves
    BY <2>1, BoundAssumption
  <2>3. c \in Counts BY <2>2, Typed DEF Counts
  <2> QED BY <2>3 DEF MoveStage
<1> QED BY <1>1, <1>2, <1>3, Typed, PeopleInv DEF MoveStage, fleet

-----------------------------------------------------------------------------
(* Handlers.                                                               *)

LEMMA ConsumeInv == ASSUME Inv, NEW h \in Handler, NEW m \in Message, Consume(h, m) PROVE Inv'
<1> DEFINE s == [Free EXCEPT !.pc = "lock", !.msg = m]
<1>1. s \in HandlerState /\ s.pc = "lock" /\ s.msg = m BY FreeTyped DEF HandlerState
<1>2. handler' = [handler EXCEPT ![h] = s] BY DEF Consume
<1>3. queue' \in [Message -> Nat] /\ QueueKnown' BY Typed DEF Consume, QueueKnown, fleet
<1>4. Fits(s) /\ s.pc \notin Critical BY <1>1 DEF Critical, Fits
<1>5. s.msg.kind = "trip" => trip.status # "NONE" BY <1>1, Typed DEF Consume, QueueKnown
<1> HIDE DEF s
<1> QED BY <1>1, <1>2, <1>3, <1>4, <1>5, Typed, HandlerInv DEF Consume, fleet

LEMMA TakeLockInv == ASSUME Inv, NEW h \in Handler, TakeLock(h) PROVE Inv'
<1>0. handler[h] \in HandlerState BY Typed
<1>1. QueueKnown' BY Typed DEF TakeLock, QueueKnown, fleet
<1>2. CASE lock = Nobody
  <2> DEFINE pc == CASE handler[h].msg.kind = "status" -> "pushStatus"
                     [] handler[h].msg.kind = "trip" -> "readTrip"
                     [] OTHER -> "getDeal"
  <2>1. /\ pc \in Critical /\ pc # "upsert"
        /\ pc = "pushStatus" => handler[h].msg.kind = "status"
        /\ pc = "readTrip" => handler[h].msg.kind = "trip"
    BY DEF Critical
  <2>2. Goto(h, pc) /\ lock' = h BY <1>2 DEF TakeLock
  <2> HIDE DEF pc
  <2>3. Fits([handler[h] EXCEPT !.pc = pc]) BY <1>0, <2>1 DEF Fits, HandlerState
  <2> QED BY <1>1, <1>2, <2>1, <2>2, <2>3, Typed, GotoInv DEF TakeLock, fleet
<1>3. CASE lock # Nobody
  <2>1. Goto(h, "error") /\ lock' = lock /\ "error" \notin Critical BY <1>3 DEF TakeLock, Critical
  <2>2. Fits([handler[h] EXCEPT !.pc = "error"]) BY <1>0 DEF Fits, HandlerState
  <2> QED BY <1>1, <2>1, <2>2, Typed, GotoInv DEF TakeLock, fleet
<1> QED BY <1>2, <1>3

LEMMA ReadTripInv == ASSUME Inv, NEW h \in Handler, ReadTrip(h) PROVE Inv'
<1> DEFINE s == [handler[h] EXCEPT !.pc = "pushTrip", !.seen = trip.status]
<1>1. handler[h] \in HandlerState /\ handler[h].pc = "readTrip" BY Typed DEF ReadTrip, At
<1>2. trip.status # "NONE" BY <1>1 DEF Inv, StepsFit, Fits, TripKnown
<1>3. trip.status \in Stage \cup {"CREATED"} BY <1>2, Typed DEF Trips, Stage
<1>4. s \in HandlerState /\ s.pc = "pushTrip" BY <1>1, <1>3 DEF HandlerState, Critical
<1>5. handler' = [handler EXCEPT ![h] = s] BY DEF ReadTrip
<1>6. QueueKnown' BY Typed DEF ReadTrip, QueueKnown, fleet
<1>7. Fits(s) /\ handler[h].pc \in Critical BY <1>1, <1>4 DEF Fits, Critical
<1> HIDE DEF s
<1> QED BY <1>2, <1>4, <1>5, <1>6, <1>7, Typed, OwnsLock, HandlerInv DEF ReadTrip, fleet

\* A step that updates the deal and ends the handler's work.
LEMMA UpdateInv ==
  ASSUME Inv, NEW h \in Handler, NEW fields \in DealFields, UpdateDeal(fields),
         handler[h].pc \in Critical, Goto(h, "done"),
         UNCHANGED <<fleet, dead, lock, lapsed, count>>
  PROVE  Inv'
<1>1. queue' \in [Message -> Nat] /\ QueueKnown' BY PullSent DEF UpdateDeal, fleet
<1>2. Fits([handler[h] EXCEPT !.pc = "done"]) BY Typed DEF Fits, HandlerState
<1>3. "done" \in Critical BY DEF Critical
<1> QED BY <1>1, <1>2, <1>3, Typed, OwnsLock, GotoInv DEF UpdateDeal, fleet

LEMMA DealOfTripTyped == ASSUME Inv, NEW h \in Handler PROVE DealOfTrip(h) \in DealFields
BY Typed DEF DealOfTrip, DealFields

LEMMA DealOfStatusTyped ==
  ASSUME Inv, NEW h \in Handler, At(h, "pushStatus") PROVE DealOfStatus(h) \in DealFields
<1>1. handler[h].msg \in Message /\ handler[h].msg.kind = "status"
  BY Typed DEF HandlerState, Inv, StepsFit, Fits, At
<1>2. handler[h].msg.status \in Stage BY <1>1, StatusIsStage
<1> QED BY <1>2, Typed DEF DealOfStatus, DealFields

LEMMA DealMarkedTyped == ASSUME Inv PROVE DealMarked \in DealFields
BY Typed DEF DealMarked, DealFields

LEMMA PushTripInv == ASSUME Inv, NEW h \in Handler, PushTrip(h) PROVE Inv'
<1>1. handler[h].pc \in Critical BY DEF PushTrip, At, Critical
<1> QED BY <1>1, DealOfTripTyped, UpdateInv DEF PushTrip

LEMMA PushStatusInv == ASSUME Inv, NEW h \in Handler, PushStatus(h) PROVE Inv'
<1>1. handler[h].pc \in Critical BY DEF PushStatus, At, Critical
<1> QED BY <1>1, DealOfStatusTyped, UpdateInv DEF PushStatus

LEMMA MarkInv == ASSUME Inv, NEW h \in Handler, Mark(h) PROVE Inv'
<1>1. handler[h].pc \in Critical BY DEF Mark, At, Critical
<1> QED BY <1>1, DealMarkedTyped, UpdateInv DEF Mark

LEMMA GetDealInv == ASSUME Inv, NEW h \in Handler, GetDeal(h) PROVE Inv'
<1> DEFINE b == deal.ext /\ deal.synced
           s == [handler[h] EXCEPT !.pc = "upsert", !.seen = deal.stage, !.marked = b]
<1>1. handler[h] \in HandlerState /\ handler[h].pc = "getDeal" BY Typed DEF GetDeal, At
<1>2. deal.stage \in Stage /\ b \in BOOLEAN BY Typed DEF DealFields
<1>3. handler' = [handler EXCEPT ![h] = s] BY DEF GetDeal
<1> HIDE DEF b
<1>4. /\ s \in HandlerState /\ s.pc = "upsert" /\ s.seen = deal.stage
      /\ s.msg = handler[h].msg
  BY <1>1, <1>2 DEF HandlerState, Critical
<1>5. QueueKnown' BY Typed DEF GetDeal, QueueKnown, fleet
<1>6. Fits(s) /\ handler[h].pc \in Critical BY <1>1, <1>2, <1>4 DEF Fits, Critical
<1>7. s.msg.kind = "trip" => trip.status # "NONE" BY <1>4 DEF Inv, TripKnown
<1> HIDE DEF s
<1> QED BY <1>3, <1>4, <1>5, <1>6, <1>7, Typed, OwnsLock, HandlerInv DEF GetDeal, fleet

\* The upsert leaves a trip with a status, and CREATED only if it was new.
LEMMA UpsertedStatus ==
  ASSUME Inv, NEW h \in Handler, At(h, "upsert")
  PROVE  /\ StatusFromStage(h) \in TripStatus
         /\ trip.status \notin {"NONE", "CREATED"} => StatusFromStage(h) # "CREATED"
<1>1. handler[h].seen \in Stage BY DEF Inv, StepsFit, Fits, At
<1>2. CASE handler[h].seen # Other BY <1>1, <1>2 DEF StatusFromStage, Stage
<1>3. CASE handler[h].seen = Other
  BY <1>3, Typed DEF StatusFromStage, Trips, TripStatus
<1> QED BY <1>2, <1>3

LEMMA UpsertInv == ASSUME Inv, NEW h \in Handler, Upsert(h) PROVE Inv'
<1>1. At(h, "upsert") BY DEF Upsert
<1>2. trip' \in Trips /\ trip'.status # "NONE"
  BY <1>1, UpsertedStatus, Typed DEF Upsert, Trips, TripStatus
<1>3. PICK pc \in {"done", "mark"} : Goto(h, pc) BY DEF Upsert
<1>4. Fits([handler[h] EXCEPT !.pc = pc]) BY <1>3, Typed DEF Fits, HandlerState
<1>5. handler[h].pc \in Critical /\ pc \in Critical BY <1>1, <1>3 DEF At, Critical
<1>6. QueueKnown' BY <1>2 DEF QueueKnown
<1> QED BY <1>2, <1>3, <1>4, <1>5, <1>6, Typed, OwnsLock, GotoInv DEF Upsert

\* What a call that fails may have done: taken the lock, written the trip, or
\* updated the deal, whose event is on its way.
LEMMA FailsCases ==
  ASSUME Inv, NEW h \in Handler, Fails(h)
  PROVE  \/ UNCHANGED <<trip, deal, queue, lock>>
         \/ At(h, "lock") /\ lock = Nobody /\ lock' = h /\ UNCHANGED <<trip, deal, queue>>
         \/ /\ At(h, "upsert") /\ trip' = [trip EXCEPT !.status = StatusFromStage(h)]
            /\ UNCHANGED <<deal, queue, lock>>
         \/ /\ Sends(PullMessage) /\ UNCHANGED <<trip, lock>>
            /\ \/ At(h, "pushTrip") /\ deal' = DealOfTrip(h)
               \/ At(h, "pushStatus") /\ deal' = DealOfStatus(h)
               \/ At(h, "mark") /\ deal' = DealMarked
BY DEF Fails, DoneUnanswered, UpdateDeal

LEMMA FailsInv == ASSUME Inv, NEW h \in Handler, Fails(h) PROVE Inv'
<1>1. PICK pc \in {"error", "failed"} : Goto(h, pc) /\ (pc = "failed" => handler[h].pc \in Critical)
  BY DEF Fails, At
<1>2. deal' \in DealFields
  BY FailsCases, Typed, DealOfTripTyped, DealOfStatusTyped, DealMarkedTyped
<1>3. trip' \in Trips /\ (trip.status # "NONE" => trip'.status # "NONE")
  <2>1. CASE trip' = trip BY <2>1, Typed
  <2>2. CASE At(h, "upsert") /\ trip' = [trip EXCEPT !.status = StatusFromStage(h)]
    BY <2>2, UpsertedStatus, Typed DEF Trips, TripStatus
  <2> QED BY <2>1, <2>2, FailsCases
<1>4. queue' \in [Message -> Nat] /\ QueueKnown'
  <2>1. CASE UNCHANGED queue BY <1>3, <2>1, Typed DEF QueueKnown
  <2>2. CASE Sends(PullMessage) /\ trip' = trip BY <2>2, PullSent
  <2> QED BY <2>1, <2>2, FailsCases
<1>5. Fits([handler[h] EXCEPT !.pc = pc]) BY <1>1, Typed DEF Fits, HandlerState
<1>6. "error" \notin Critical /\ "failed" \in Critical BY DEF Critical
<1>7. count' \in Counts BY FaultTyped DEF Fails
<1>8. lock' = lock \/ (lock = Nobody /\ lock' = h /\ pc = "error")
  <2>1. At(h, "lock") => Goto(h, "error") BY DEF Fails
  <2>2. CASE At(h, "lock")
    <3>1. pc = "error" BY <1>1, <2>2 DEF At, Critical
    <3> QED BY <3>1, FailsCases
  <2>3. CASE ~At(h, "lock") BY <2>3, FailsCases
  <2> QED BY <2>2, <2>3
<1> QED BY <1>1, <1>2, <1>3, <1>4, <1>5, <1>6, <1>7, <1>8, Typed, OwnsLock, GotoInv DEF Fails

LEMMA ReleaseInv == ASSUME Inv, NEW h \in Handler, Release(h) PROVE Inv'
<1> DEFINE s == IF At(h, "done") THEN Free ELSE [handler[h] EXCEPT !.pc = "error"]
<1>1. handler[h] \in HandlerState BY Typed
<1>2. /\ s \in HandlerState /\ s.pc \in {"free", "error"}
      /\ s.msg.kind = "trip" => s.msg = handler[h].msg
  BY <1>1, FreeTyped DEF HandlerState
<1>3. handler' = [handler EXCEPT ![h] = s] BY DEF Release
<1>4. s.msg.kind = "trip" => trip.status # "NONE" BY <1>2 DEF Inv, TripKnown
<1>5. Fits(s) /\ s.pc \notin Critical BY <1>2 DEF Fits, Critical
<1>6. QueueKnown' BY Typed DEF Release, QueueKnown, fleet
<1>7. count' \in Counts BY FaultTyped, Typed DEF Release
<1> HIDE DEF s
<1> QED BY <1>2, <1>3, <1>4, <1>5, <1>6, <1>7, Typed, HandlerInv DEF Release, fleet

LEMMA RetryOrBuryInv == ASSUME Inv, NEW h \in Handler, RetryOrBury(h) PROVE Inv'
<1> DEFINE m == handler[h].msg
           n == [m EXCEPT !.attempt = @ + 1]
<1>1. m \in Message /\ (m.kind = "trip" => trip.status # "NONE")
  BY Typed DEF HandlerState, Inv, TripKnown
<1>2. queue' \in [Message -> Nat] /\ QueueKnown'
  <2>1. trip' = trip BY DEF RetryOrBury, fleet
  <2>2. CASE m.attempt < RetryLimit
    <3>1. n \in Message /\ n.kind = m.kind BY <1>1, <2>2, BoundAssumption DEF Message
    <3>2. Sends(n) BY <2>2, <1>1, BoundAssumption DEF RetryOrBury
    <3> HIDE DEF n
    <3> QED BY <1>1, <2>1, <3>1, <3>2, Typed, SendsTyped DEF Sends, QueueKnown
  <2>3. CASE ~(m.attempt < RetryLimit) BY <2>1, <2>3, Typed DEF RetryOrBury, QueueKnown
  <2> QED BY <2>2, <2>3
<1>3. handler' = [handler EXCEPT ![h] = Free] BY DEF RetryOrBury
<1>4. Fits(Free) /\ Free.pc \notin Critical BY FreeTyped DEF Fits, Critical
<1>5. dead' \in BOOLEAN BY Typed DEF RetryOrBury
<1> QED BY <1>2, <1>3, <1>4, <1>5, FreeTyped, Typed, HandlerInv DEF RetryOrBury, fleet

LEMMA CrashInv == ASSUME Inv, NEW h \in Handler, Crash(h) PROVE Inv'
<1> DEFINE m == handler[h].msg
<1>1. m \in Message /\ (m.kind = "trip" => trip.status # "NONE")
  BY Typed DEF HandlerState, Inv, TripKnown
<1>2. trip' = trip /\ Sends(m) BY DEF Crash, fleet
<1> HIDE DEF m
<1>3. queue' \in [Message -> Nat] /\ QueueKnown'
  BY <1>1, <1>2, Typed, SendsTyped DEF Sends, QueueKnown
<1>4. Fits(Free) /\ Free.pc \notin Critical BY FreeTyped DEF Fits, Critical
<1>5. count' \in Counts BY FaultTyped DEF Crash
<1> QED BY <1>3, <1>4, <1>5, FreeTyped, Typed, HandlerInv DEF Crash, fleet

\* An expired lock is nobody's, and its holder, if it is at work, has lapsed.
LEMMA LockExpiresInv == ASSUME Inv, LockExpires PROVE Inv'
<1>1. lock \in Handler BY Typed DEF LockExpires
<1>2. UNCHANGED <<fleet, deal, queue, dead, handler, count>> /\ lock' = Nobody
  BY DEF LockExpires
<1>3. lapsed' \subseteq Handler BY <1>1, Typed DEF LockExpires
<1>4. TypeOK' BY <1>2, <1>3, Typed DEF fleet, TypeOK, Trips, Counts, HandlerState
<1>5. StepsFit' /\ TripKnown' BY <1>2 DEF fleet, Inv, StepsFit, TripKnown, QueueKnown
<1>6. OwnerKeepsLock' BY <1>2 DEF Inv, OwnerKeepsLock, LockExpires
<1> QED BY <1>4, <1>5, <1>6 DEF Inv

-----------------------------------------------------------------------------
LEMMA StepInv == ASSUME Inv, [Next]_vars PROVE Inv'
<1>1. ASSUME NEW b \in BOOLEAN, CreateTrip(b) PROVE Inv' BY <1>1, CreateTripInv
<1>2. CASE AssignVehicle BY <1>2, AssignVehicleInv
<1>3. ASSUME NEW s \in TripStatus, UpdateStatus(s) PROVE Inv' BY <1>3, UpdateStatusInv
<1>4. ASSUME NEW s \in Stage, MoveStage(s) PROVE Inv' BY <1>4, MoveStageInv
<1>5. ASSUME NEW h \in Handler, Handle(h) PROVE Inv'
  BY <1>5, TakeLockInv, ReadTripInv, PushTripInv, PushStatusInv, GetDealInv, UpsertInv, MarkInv,
     ReleaseInv, RetryOrBuryInv DEF Handle
<1>6. ASSUME NEW h \in Handler, Fails(h) PROVE Inv' BY <1>6, FailsInv
<1>7. ASSUME NEW h \in Handler, Crash(h) PROVE Inv' BY <1>7, CrashInv
<1>8. ASSUME NEW h \in Handler, NEW m \in Message, Consume(h, m) PROVE Inv' BY <1>8, ConsumeInv
<1>9. CASE LockExpires BY <1>9, LockExpiresInv
<1>10. CASE UNCHANGED vars
  BY <1>10 DEF vars, fleet, Inv, TypeOK, StepsFit, Fits, TripKnown, QueueKnown, OwnerKeepsLock
<1> QED BY <1>1, <1>2, <1>3, <1>4, <1>5, <1>6, <1>7, <1>8, <1>9, <1>10 DEF Next

LEMMA Invariance == Spec => []Inv
<1>1. Init => Inv BY InitInv
<1>2. Inv /\ [Next]_vars => Inv' BY StepInv
<1> QED BY <1>1, <1>2, PTL DEF Spec

\* docs/12-redis.md:7, RedisLockService.withLock: a handler at work whose lock
\* has not expired holds it, however many handlers outlast theirs.
THEOREM LockIsOwned == Spec => []OwnerKeepsLock
<1>1. Inv => OwnerKeepsLock BY DEF Inv
<1> QED BY <1>1, Invariance, PTL

\* What the steps do to a trip's status.
LEMMA StatusMoves ==
  ASSUME Inv, [Next]_vars, trip.status \notin {"NONE", "CREATED"} PROVE trip'.status # "CREATED"
<1>1. ASSUME NEW b \in BOOLEAN, CreateTrip(b) PROVE FALSE BY <1>1 DEF CreateTrip
<1>2. CASE AssignVehicle BY <1>2 DEF AssignVehicle
<1>3. ASSUME NEW s \in TripStatus, UpdateStatus(s) PROVE trip'.status # "CREATED"
  BY <1>3, UpdateStatusLeavesCreated, Typed DEF Trips
<1>4. ASSUME NEW s \in Stage, MoveStage(s) PROVE trip' = trip BY <1>4 DEF MoveStage, fleet
<1>5. ASSUME NEW h \in Handler, Upsert(h) \/ Fails(h)
      PROVE  trip'.status # "CREATED"
  <2>1. trip' = trip \/ (At(h, "upsert") /\ trip' = [trip EXCEPT !.status = StatusFromStage(h)])
    BY <1>5, FailsCases DEF Upsert
  <2>2. CASE At(h, "upsert") /\ trip' = [trip EXCEPT !.status = StatusFromStage(h)]
    BY <2>2, UpsertedStatus, Typed DEF Trips
  <2> QED BY <2>1, <2>2
<1>6. ASSUME NEW h \in Handler, Handle(h), ~Upsert(h) PROVE trip' = trip
  BY <1>6 DEF Handle, TakeLock, ReadTrip, PushTrip, PushStatus, GetDeal, Mark, Release,
     RetryOrBury, fleet
<1>7. ASSUME NEW h \in Handler, Crash(h) PROVE trip' = trip BY <1>7 DEF Crash, fleet
<1>8. ASSUME NEW h \in Handler, NEW m \in Message, Consume(h, m) PROVE trip' = trip
  BY <1>8 DEF Consume, fleet
<1>9. LockExpires \/ UNCHANGED vars => trip' = trip BY DEF LockExpires, vars, fleet
<1> QED BY <1>1, <1>2, <1>3, <1>4, <1>5, <1>6, <1>7, <1>8, <1>9 DEF Next

\* trip-sync.service.ts:81-88, canTransition: no trip that has left CREATED comes
\* back to it, in whatever order handlers, retries and redeliveries run.
THEOREM NoneCreatedAgain == Spec => NeverCreatedAgain
<1>1. Inv /\ [Next]_vars => [trip.status \notin {"NONE", "CREATED"} => trip'.status # "CREATED"]_vars
  BY StatusMoves
<1> QED BY <1>1, Invariance, PTL DEF Spec, NeverCreatedAgain

-----------------------------------------------------------------------------
(* The lock at its purpose, for handlers that never outlast it.            *)

LEMMA NobodyLapses ==
  ASSUME ~Slow, lapsed = {}, [Next]_vars PROVE lapsed' = {}
BY DEF Next, vars, CreateTrip, AssignVehicle, UpdateStatus, MoveStage, Handle, TakeLock, ReadTrip,
   PushTrip, PushStatus, GetDeal, Upsert, Mark, Release, RetryOrBury, Fails, Crash, Consume,
   LockExpires

\* Then one handler at most is at work.
LEMMA OneAtWork ==
  ASSUME Inv, lapsed = {}, NEW h \in Handler, NEW q \in Handler,
         handler[h].pc \in Critical, handler[q].pc \in Critical
  PROVE  h = q
BY OwnsLock

\* Of the handlers whose lock has not expired, one at most is at work.
OneInside ==
  \A h, q \in Handler \ lapsed :
    handler[h].pc \in Critical /\ handler[q].pc \in Critical => h = q

\* docs/12-redis.md:7, the lock excludes: of all handlers, however they crash,
\* fail and outlast their locks, one at most is at work and within its 30 s; and
\* where none outlasts them, one at most is at work (trip-sync.service.ts:32).
THEOREM LockExcludes ==
  Spec => [](/\ OneInside
             /\ ~Slow => \A h, q \in Handler :
                          handler[h].pc \in Critical /\ handler[q].pc \in Critical => h = q)
<1> DEFINE Prompt == ~Slow => lapsed = {}
           Excludes == /\ OneInside
                       /\ ~Slow => \A h, q \in Handler :
                            handler[h].pc \in Critical /\ handler[q].pc \in Critical => h = q
<1>1. Init => Prompt BY DEF Init
<1>2. Prompt /\ [Next]_vars => Prompt' BY NobodyLapses
<1>3. Inv => OneInside BY OwnsLock DEF OneInside
<1>4. Inv /\ Prompt => Excludes BY <1>3, OneAtWork
<1> HIDE DEF Prompt
<1> QED BY <1>1, <1>2, <1>4, Invariance, PTL DEF Spec

WorkerStep(h) == Handle(h) \/ Fails(h) \/ Crash(h) \/ \E m \in Message : Consume(h, m)

LEMMA OthersKept ==
  ASSUME Inv, NEW h \in Handler, WorkerStep(h)
  PROVE  \A q \in Handler \ {h} : handler'[q] = handler[q]
BY Typed DEF WorkerStep, Handle, TakeLock, ReadTrip, PushTrip, PushStatus, GetDeal, Upsert, Mark,
   Release, RetryOrBury, Fails, Crash, Consume, Goto

\* While a handler is at work, others change neither the deal nor the trip.
LEMMA OthersWait ==
  ASSUME Inv, lapsed = {}, NEW q \in Handler, NEW h \in Handler, q # h, WorkerStep(q),
         handler'[h].pc \in Critical
  PROVE  handler'[h] = handler[h] /\ deal' = deal /\ ~Upsert(q)
<1>1. handler'[h] = handler[h] BY OthersKept
<1>2. handler[q].pc \notin Critical BY <1>1, OneAtWork
<1>3. deal' = deal
  <2>1. CASE Fails(q) BY <1>2, <2>1, FailsCases DEF At, Critical
  <2>2. CASE ~Fails(q)
    BY <1>2, <2>2 DEF WorkerStep, Handle, TakeLock, ReadTrip, PushTrip, PushStatus, GetDeal, Upsert,
       Mark, Release, RetryOrBury, Crash, Consume, At, Critical
  <2> QED BY <2>1, <2>2
<1>4. ~Upsert(q) BY <1>2 DEF Upsert, At, Critical
<1> QED BY <1>1, <1>3, <1>4

\* A handler comes to its upsert by reading the deal, and to marking the deal
\* by the upsert.
LEMMA OwnWay ==
  ASSUME Inv, NEW h \in Handler, WorkerStep(h)
  PROVE  /\ handler'[h].pc = "upsert" => GetDeal(h)
         /\ handler'[h].pc = "mark" => Upsert(h) /\ ~handler[h].marked
<1>1. handler[h] \in HandlerState BY Typed
<1>2. CASE \E m \in Message : Consume(h, m)
  <2>1. PICK m \in Message : handler'[h] = [Free EXCEPT !.pc = "lock", !.msg = m]
    BY <1>2, Typed DEF Consume
  <2> QED BY <2>1, FreeTyped DEF HandlerState
<1>3. CASE Crash(h) BY <1>3, FreeTyped, Typed DEF Crash
<1>4. CASE RetryOrBury(h) BY <1>4, FreeTyped, Typed DEF RetryOrBury
<1>5. CASE Release(h) BY <1>1, <1>5, FreeTyped, Typed DEF Release, HandlerState
<1>6. CASE Fails(h) BY <1>1, <1>6, Typed DEF Fails, Goto, HandlerState
<1>7. CASE ReadTrip(h)
  <2>1. handler'[h] = [handler[h] EXCEPT !.pc = "pushTrip", !.seen = trip.status]
    BY <1>7, Typed DEF ReadTrip
  <2> QED BY <1>1, <2>1 DEF HandlerState
<1>8. CASE TakeLock(h) \/ PushTrip(h) \/ PushStatus(h) \/ Upsert(h) \/ Mark(h)
  <2>1. PICK pc \in {"pushStatus", "readTrip", "getDeal", "error", "done", "mark"} :
          Goto(h, pc) /\ (pc = "mark" => Upsert(h) /\ ~handler[h].marked)
    BY <1>8 DEF TakeLock, PushTrip, PushStatus, Upsert, Mark
  <2>2. handler'[h] = [handler[h] EXCEPT !.pc = pc] BY <2>1, Typed DEF Goto
  <2> QED BY <1>1, <2>1, <2>2 DEF HandlerState
<1>9. CASE GetDeal(h)
  <2> DEFINE b == deal.ext /\ deal.synced
  <2>1. handler'[h] = [handler[h] EXCEPT !.pc = "upsert", !.seen = deal.stage, !.marked = b]
    BY <1>9, Typed DEF GetDeal
  <2> HIDE DEF b
  <2> QED BY <1>1, <1>9, <2>1 DEF HandlerState
<1> QED BY <1>2, <1>3, <1>4, <1>5, <1>6, <1>7, <1>8, <1>9 DEF WorkerStep, Handle

\* What a handler reads of the deal.
LEMMA DealRead ==
  ASSUME Inv, NEW h \in Handler, GetDeal(h)
  PROVE  /\ handler'[h].pc = "upsert" /\ handler'[h].seen = deal.stage
         /\ handler'[h].marked = (deal.ext /\ deal.synced) /\ deal' = deal
<1> DEFINE b == deal.ext /\ deal.synced
<1>1. handler'[h] = [handler[h] EXCEPT !.pc = "upsert", !.seen = deal.stage, !.marked = b]
  BY Typed DEF GetDeal
<1>2. handler[h] \in HandlerState /\ deal' = deal BY Typed DEF GetDeal
<1> HIDE DEF b
<1>3. /\ handler'[h].pc = "upsert" /\ handler'[h].seen = deal.stage
      /\ handler'[h].marked = b
  BY <1>1, <1>2 DEF HandlerState
<1> QED BY <1>2, <1>3 DEF b

\* The number of moves only grows, and a handler's step leaves it alone.
LEMMA MovesKept ==
  ASSUME Inv, NEW h \in Handler, WorkerStep(h) PROVE count'.moves = count.moves
BY Typed DEF WorkerStep, Handle, TakeLock, ReadTrip, PushTrip, PushStatus, GetDeal, Upsert, Mark, Release,
   RetryOrBury, Fails, Crash, Consume, Fault, Counts

LEMMA ReadStaysCurrent ==
  ASSUME Inv, lapsed = {}, ReadIsCurrent, [Next]_vars PROVE ReadIsCurrent'
<1> SUFFICES ASSUME NEW h \in Handler, handler'[h].pc = "upsert", count'.moves = 0
             PROVE  /\ handler'[h].seen = deal'.stage
                    /\ handler'[h].marked = (deal'.ext /\ deal'.synced)
  BY DEF ReadIsCurrent, At
<1>1. CASE handler'[h] = handler[h] /\ deal' = deal /\ count'.moves = count.moves
  BY <1>1 DEF ReadIsCurrent, At
<1>2. ASSUME NEW q \in Handler, WorkerStep(q), q # h
      PROVE  handler'[h] = handler[h] /\ deal' = deal /\ count'.moves = count.moves
  BY <1>2, OthersWait, MovesKept DEF Critical
<1>3. CASE WorkerStep(h) BY <1>3, OwnWay, DealRead
<1>4. ASSUME NEW s \in Stage, MoveStage(s) PROVE FALSE
  <2>1. count'.moves = count.moves + 1 BY <1>4, Typed DEF MoveStage, Counts
  <2> QED BY <2>1, Typed, BoundAssumption DEF Counts
<1>5. CASE AssignVehicle \/ LockExpires \/ (\E b \in BOOLEAN : CreateTrip(b))
           \/ \E s \in TripStatus : UpdateStatus(s)
  <2>1. handler' = handler /\ deal' = deal
    BY <1>5 DEF AssignVehicle, LockExpires, CreateTrip, UpdateStatus
  <2>2. count'.moves = count.moves
    BY <1>5, Typed DEF AssignVehicle, LockExpires, CreateTrip, UpdateStatus, Change, Counts
  <2> QED BY <1>1, <2>1, <2>2
<1>6. CASE UNCHANGED vars BY <1>1, <1>6 DEF vars
<1> QED BY <1>1, <1>2, <1>3, <1>4, <1>5, <1>6 DEF Next, WorkerStep

\* What the lock is for (docs/adr/004-use-redis-for-idempotency.md:25-26): if no
\* handler outlasts its 30 s and no manager moves the deal, what
\* pullDealFromBitrix read of the deal still holds when it writes the trip.
THEOREM ReadsAreCurrent == Spec => [](~Slow => ReadIsCurrent)
<1> DEFINE Prompt == ~Slow => lapsed = {} /\ ReadIsCurrent
<1>1. Init => Prompt BY FreeTyped DEF Init, ReadIsCurrent, At
<1>2. Inv /\ Prompt /\ [Next]_vars => Prompt' BY NobodyLapses, ReadStaysCurrent
<1>3. Prompt => (~Slow => ReadIsCurrent) OBVIOUS
<1> HIDE DEF Prompt
<1> QED BY <1>1, <1>2, <1>3, Invariance, PTL DEF Spec

\* The variables keep their types, through every fault.
THEOREM TypeCorrect == Spec => []TypeOK
<1>1. Inv => TypeOK BY DEF Inv
<1> QED BY <1>1, Invariance, PTL
-----------------------------------------------------------------------------
(* The steps of people, and the expiry of a lock, seen from a handler.     *)

People ==
  \/ AssignVehicle \/ (\E b \in BOOLEAN : CreateTrip(b))
  \/ (\E s \in TripStatus : UpdateStatus(s)) \/ \E s \in Stage : MoveStage(s)

LEMMA Steps ==
  ASSUME [Next]_vars
  PROVE  People \/ (\E h \in Handler : WorkerStep(h)) \/ LockExpires \/ UNCHANGED vars
BY DEF Next, People, WorkerStep

LEMMA PeopleKeep ==
  ASSUME Inv, People
  PROVE  UNCHANGED <<dead, lock, handler, lapsed>> /\ deal'.ext = deal.ext /\ deal'.synced = deal.synced
BY Typed DEF People, AssignVehicle, CreateTrip, UpdateStatus, MoveStage, DealFields

-----------------------------------------------------------------------------
(* A deal is marked once.                                                  *)

\* What a handler knows of the deal's mark stays so while it has the lock.
KnowsMark(h) ==
  /\ At(h, "upsert") => handler[h].marked = (deal.ext /\ deal.synced)
  /\ At(h, "mark") => ~(deal.ext /\ deal.synced)

PromptInv == lapsed = {} /\ \A h \in Handler : KnowsMark(h)

LEMMA KnowsMarkStep ==
  ASSUME ~Slow, Inv, PromptInv, [Next]_vars PROVE PromptInv'
<1>1. lapsed' = {} BY NobodyLapses DEF PromptInv
<1> SUFFICES ASSUME NEW h \in Handler PROVE KnowsMark(h)' BY <1>1 DEF PromptInv
<1>2. CASE handler'[h] = handler[h] /\ deal'.ext = deal.ext /\ deal'.synced = deal.synced
  BY <1>2 DEF PromptInv, KnowsMark, At
<1>3. CASE People BY <1>2, <1>3, PeopleKeep
<1>4. CASE LockExpires \/ UNCHANGED vars BY <1>2, <1>4 DEF LockExpires, vars
<1>5. CASE WorkerStep(h)
  <2>1. CASE handler'[h].pc = "upsert"
    BY <1>5, <2>1, OwnWay, DealRead DEF KnowsMark, At
  <2>2. CASE handler'[h].pc = "mark"
    <3>1. Upsert(h) /\ ~handler[h].marked BY <1>5, <2>2, OwnWay
    <3> QED BY <2>2, <3>1 DEF PromptInv, KnowsMark, At, Upsert
  <2> QED BY <2>1, <2>2 DEF KnowsMark, At
<1>6. ASSUME NEW q \in Handler, q # h, WorkerStep(q) PROVE KnowsMark(h)'
  <2>1. CASE handler'[h].pc \in Critical BY <1>2, <1>6, <2>1, OthersWait DEF PromptInv
  <2>2. CASE handler'[h].pc \notin Critical BY <2>2 DEF KnowsMark, At, Critical
  <2> QED BY <2>1, <2>2
<1> QED BY <1>3, <1>4, <1>5, <1>6, Steps

LEMMA InitPrompt == Init => PromptInv
BY FreeTyped DEF Init, PromptInv, KnowsMark, At

\* trip-sync.service.ts:101: a deal that is synchronized is not marked again,
\* so that a mark is answered by one more event and that by none.
THEOREM DealsMarkedOnce == Spec => [](~Slow => MarksOnce)
<1> DEFINE Prompt == ~Slow => PromptInv
<1>1. Init => Prompt BY InitPrompt
<1>2. Inv /\ Prompt /\ [Next]_vars => Prompt' BY KnowsMarkStep
<1>3. Prompt => (~Slow => MarksOnce) BY DEF PromptInv, KnowsMark, MarksOnce
<1> HIDE DEF Prompt
<1> QED BY <1>1, <1>2, <1>3, Invariance, PTL DEF Spec

-----------------------------------------------------------------------------
(* At rest the sides agree.                                                *)

Synced == Agree /\ trip.status # "NONE" /\ deal.ext /\ deal.synced
Queued == \E m \in Message : queue[m] > 0
\* A handler that still has to do something about its message.
Busy(h) == handler[h].pc \notin {"free", "done"}
Pending(S) == dead \/ Queued \/ \E h \in S : Busy(h)

\* While the sides differ something is under way; and where what a handler
\* read is not current any more, something else is.
SyncInv ==
  /\ Synced \/ Pending(Handler)
  /\ \A h \in Handler :
       At(h, "upsert") /\ handler[h].seen # deal.stage => Pending(Handler \ {h})

LEMMA Sent == ASSUME Inv, NEW m \in Message, Sends(m) PROVE Queued'
BY Typed DEF Sends, Queued

LEMMA PeopleSend == ASSUME Inv, People PROVE Queued'
<1>1. ASSUME NEW s \in TripStatus, UpdateStatus(s) PROVE Queued'
  BY <1>1, UpdateStatusLeavesCreated, MessagesTyped, Sent DEF UpdateStatus
<1> QED BY <1>1, MessagesTyped, Sent DEF People, AssignVehicle, CreateTrip, MoveStage

\* A handler does not drop its message before it is done with it.
LEMMA BusyKept ==
  ASSUME Inv, NEW h \in Handler, WorkerStep(h), Busy(h)
  PROVE  dead' \/ Queued' \/ Busy(h)' \/ (Upsert(h) /\ handler[h].marked)
<1>1. handler[h] \in HandlerState BY Typed
<1>2. ASSUME NEW pc, pc \notin {"free", "done"}, Goto(h, pc) PROVE Busy(h)'
  BY <1>1, <1>2, Typed DEF Goto, Busy, HandlerState
<1>3. CASE TakeLock(h)
  <2>1. PICK pc \in {"pushStatus", "readTrip", "getDeal", "error"} : Goto(h, pc) BY <1>3 DEF TakeLock
  <2> QED BY <1>2, <2>1
<1>4. CASE ReadTrip(h)
  <2>1. handler'[h] = [handler[h] EXCEPT !.pc = "pushTrip", !.seen = trip.status]
    BY <1>4, Typed DEF ReadTrip
  <2> QED BY <1>1, <2>1 DEF HandlerState, Busy
<1>5. CASE PushTrip(h) \/ PushStatus(h) \/ Mark(h)
  BY <1>5, MessagesTyped, Sent DEF PushTrip, PushStatus, Mark, UpdateDeal
<1>6. CASE GetDeal(h) BY <1>6, DealRead DEF Busy
<1>7. CASE Upsert(h) /\ ~handler[h].marked BY <1>2, <1>7 DEF Upsert
<1>8. CASE Release(h)
  <2>1. handler' = [handler EXCEPT ![h] = [handler[h] EXCEPT !.pc = "error"]]
    BY <1>8 DEF Release, Busy, At
  <2> QED BY <1>1, <2>1, Typed DEF HandlerState, Busy
<1>9. CASE RetryOrBury(h)
  <2> DEFINE m == handler[h].msg
             n == [m EXCEPT !.attempt = @ + 1]
  <2>1. m \in Message BY <1>1 DEF HandlerState
  <2>2. CASE m.attempt < RetryLimit
    <3>1. n \in Message BY <2>1, <2>2, BoundAssumption DEF Message
    <3>2. Sends(n) BY <2>1, <2>2, <1>9, BoundAssumption DEF RetryOrBury
    <3> HIDE DEF n
    <3> QED BY <3>1, <3>2, Sent
  <2>3. CASE ~(m.attempt < RetryLimit) BY <1>9, <2>3 DEF RetryOrBury
  <2> QED BY <2>2, <2>3
<1>10. CASE Fails(h)
  <2>1. PICK pc \in {"error", "failed"} : Goto(h, pc) BY <1>10 DEF Fails
  <2> QED BY <1>2, <2>1
<1>11. CASE Crash(h)
  <2>1. handler[h].msg \in Message /\ Sends(handler[h].msg) BY <1>1, <1>11 DEF HandlerState, Crash
  <2> QED BY <2>1, Sent
<1>12. CASE \E m \in Message : Consume(h, m) BY <1>12 DEF Consume, At, Busy
<1> QED BY <1>3, <1>4, <1>5, <1>6, <1>7, <1>8, <1>9, <1>10, <1>11, <1>12 DEF WorkerStep, Handle

\* A message leaves the queue into a handler only, and a dead one stays dead.
LEMMA QueueKept ==
  ASSUME Inv, NEW h \in Handler, WorkerStep(h)
  PROVE  (dead => dead') /\ (Queued => Queued' \/ Busy(h)')
<1>1. dead => dead'
  BY DEF WorkerStep, Handle, TakeLock, ReadTrip, PushTrip, PushStatus, GetDeal, Upsert, Mark,
     Release, RetryOrBury, Fails, Crash, Consume
<1>2. CASE \E m \in Message : Consume(h, m)
  <2>1. PICK m \in Message : handler'[h] = [Free EXCEPT !.pc = "lock", !.msg = m]
    BY <1>2, Typed DEF Consume
  <2>2. handler'[h].pc = "lock" BY <2>1, FreeTyped DEF HandlerState
  <2> QED BY <1>1, <2>2 DEF Busy
<1>3. CASE RetryOrBury(h)
  <2> DEFINE n == [handler[h].msg EXCEPT !.attempt = @ + 1]
  <2>1. UNCHANGED queue \/ Sends(n) BY <1>3 DEF RetryOrBury
  <2> HIDE DEF n
  <2>2. CASE Sends(n)
    <3>1. \A m \in Message : queue[m] > 0 => queue'[m] > 0 BY <2>2, Typed DEF Sends
    <3> QED BY <1>1, <3>1 DEF Queued
  <2> QED BY <1>1, <2>1, <2>2 DEF Queued
<1>4. CASE PushTrip(h) \/ PushStatus(h) \/ Mark(h)
  BY <1>1, <1>4, MessagesTyped, Sent DEF PushTrip, PushStatus, Mark, UpdateDeal
<1>5. CASE Fails(h) BY <1>1, <1>5, MessagesTyped, Sent, FailsCases DEF Queued
<1>6. CASE Crash(h)
  <2>1. handler[h].msg \in Message /\ Sends(handler[h].msg) BY <1>6, Typed DEF HandlerState, Crash
  <2> QED BY <1>1, <2>1, Sent
<1>7. CASE TakeLock(h) \/ ReadTrip(h) \/ GetDeal(h) \/ Upsert(h) \/ Release(h)
  BY <1>1, <1>7 DEF TakeLock, ReadTrip, GetDeal, Upsert, Release, Queued
<1> QED BY <1>2, <1>3, <1>4, <1>5, <1>6, <1>7 DEF WorkerStep, Handle

\* So what is under way stays so, but for an upsert that ends the matter.
LEMMA PendingKept ==
  ASSUME Inv, NEW S \in SUBSET Handler, NEW h \in S, WorkerStep(h), Pending(S),
         ~(Upsert(h) /\ handler[h].marked)
  PROVE  Pending(S)'
<1>1. \A q \in Handler \ {h} : Busy(q)' = Busy(q) BY OthersKept DEF Busy
<1> QED BY <1>1, BusyKept, QueueKept DEF Pending

\* The upsert of what is current, into a deal that is marked, ends it.
LEMMA UpsertSyncs ==
  ASSUME Inv, PromptInv, SyncInv, NEW h \in Handler, Upsert(h), handler[h].marked
  PROVE  Synced' \/ Pending(Handler)'
<1>1. At(h, "upsert") /\ UNCHANGED <<deal, queue, dead>> BY DEF Upsert
<1>2. trip'.status = StatusFromStage(h) BY Typed DEF Upsert, Trips
<1>3. trip'.status # "NONE" BY <1>1, <1>2, UpsertedStatus DEF TripStatus
<1>4. CASE handler[h].seen = deal.stage
  <2>1. Agree' BY <1>1, <1>2, <1>4 DEF Agree, StatusFromStage
  <2>2. deal.ext /\ deal.synced BY <1>1 DEF PromptInv, KnowsMark
  <2> QED BY <1>1, <1>3, <2>1, <2>2 DEF Synced
<1>5. CASE handler[h].seen # deal.stage
  <2>1. Pending(Handler \ {h}) BY <1>1, <1>5 DEF SyncInv
  <2>2. \A q \in Handler \ {h} : Busy(q)' = Busy(q) BY OthersKept DEF Busy, WorkerStep, Handle
  <2> QED BY <1>1, <2>1, <2>2 DEF Pending, Queued
<1> QED BY <1>4, <1>5

LEMMA SyncStep ==
  ASSUME ~Slow, Inv, PromptInv, SyncInv, [Next]_vars PROVE SyncInv'
<1>1. CASE People BY <1>1, PeopleSend DEF SyncInv, Pending
<1>2. CASE LockExpires \/ UNCHANGED vars
  BY <1>2 DEF LockExpires, vars, fleet, SyncInv, Pending, Queued, Busy, Synced, Agree, At
<1>3. ASSUME NEW h \in Handler, WorkerStep(h) PROVE SyncInv'
  <2>1. Synced' \/ Pending(Handler)'
    <3>1. CASE Upsert(h) /\ handler[h].marked BY <3>1, UpsertSyncs
    <3>2. CASE Upsert(h) /\ ~handler[h].marked
      <4>1. handler'[h] = [handler[h] EXCEPT !.pc = "mark"] BY <3>2, Typed DEF Upsert, Goto
      <4>2. Busy(h)' BY <4>1, Typed DEF Busy, HandlerState
      <4> QED BY <4>2 DEF Pending
    <3>3. CASE Pending(Handler) /\ ~Upsert(h) BY <1>3, <3>3, PendingKept
    <3>4. CASE Synced /\ ~Upsert(h)
      <4>1. CASE Sends(PullMessage) BY <4>1, MessagesTyped, Sent DEF Pending
      <4>2. CASE trip' = trip /\ deal' = deal BY <3>4, <4>2 DEF Synced, Agree
      <4>3. CASE Fails(h)
        <5>1. PICK pc \in {"error", "failed"} : Goto(h, pc) BY <4>3 DEF Fails
        <5>2. handler'[h] = [handler[h] EXCEPT !.pc = pc] BY <5>1, Typed DEF Goto
        <5>3. Busy(h)' BY <5>2, Typed DEF Busy, HandlerState
        <5> QED BY <5>3 DEF Pending
      <4> QED BY <1>3, <3>4, <4>1, <4>2, <4>3 DEF WorkerStep, Handle, TakeLock, ReadTrip, PushTrip,
            PushStatus, GetDeal, Mark, Release, RetryOrBury, Crash, Consume, UpdateDeal, fleet
    <3> QED BY <3>1, <3>2, <3>3, <3>4 DEF SyncInv
  <2>2. ASSUME NEW q \in Handler, At(q, "upsert")', handler'[q].seen # deal'.stage
        PROVE  Pending(Handler \ {q})'
    <3>1. q # h BY <1>3, <2>2, OwnWay, DealRead DEF At
    <3>2. handler'[q] = handler[q] /\ deal' = deal /\ ~Upsert(h)
      BY <1>3, <2>2, <3>1, OthersWait DEF At, Critical, PromptInv
    <3>3. Pending(Handler \ {q}) BY <2>2, <3>2 DEF SyncInv, At
    <3> QED BY <1>3, <3>1, <3>2, <3>3, PendingKept
  <2> QED BY <2>1, <2>2 DEF SyncInv
<1> QED BY <1>1, <1>2, <1>3, Steps

LEMMA InitSync == Init => SyncInv
<1> SUFFICES ASSUME Init PROVE SyncInv OBVIOUS
<1>1. Queued BY MessagesTyped DEF Init, Queued
<1> QED BY <1>1 DEF SyncInv, Pending

\* Whatever failed, died, came late or found the lock busy: when nothing is
\* under way any more the trip and the deal agree, or a message is in the DLQ.
THEOREM SyncedAtRest == Spec => [](~Slow => RestIsSynced)
<1> DEFINE Prompt == ~Slow => PromptInv /\ SyncInv
<1>1. Init => Prompt BY InitPrompt, InitSync
<1>2. Inv /\ Prompt /\ [Next]_vars => Prompt' BY KnowsMarkStep, SyncStep
<1>3. Inv /\ Prompt => (~Slow => RestIsSynced)
  BY Typed DEF SyncInv, RestIsSynced, Synced, Pending, Queued, Quiet, Busy, At
<1> HIDE DEF Prompt
<1> QED BY <1>1, <1>2, <1>3, Invariance, PTL DEF Spec
-----------------------------------------------------------------------------
(* Only a manager's move strands a crew.                                   *)

\* Where a final status may come from: nobody moved the deal, so a trip had it.
Final(s) == s \in FinalStatus
QueueFinal == \E m \in Message : queue[m] > 0 /\ Final(m.status)
HandlerFinal == \E h \in Handler : Final(handler[h].seen) \/ Final(handler[h].msg.status)
FinalAbout == Final(trip.status) \/ Final(deal.stage) \/ QueueFinal \/ HandlerFinal

\* Once it is about, the trip has ended, without leaving its crew behind, and
\* gets no other.
CrewInv ==
  count.moves = 0 /\ FinalAbout =>
    trip.status \notin {"NONE", "CREATED"} /\ (~trip.crew \/ crew = "AVAILABLE")

LEMMA NotFinal ==
  /\ ~Final("NONE") /\ ~Final("CREATED") /\ ~Final("ASSIGNED") /\ ~Final(Other)
  /\ ~Final(PullMessage.status) /\ ~Final(TripMessage.status)
  /\ ~Final(Free.seen) /\ ~Final(Free.msg.status)
BY DEF Final, FinalStatus, Other, PullMessage, TripMessage, Free

LEMMA SentFinal ==
  ASSUME Inv, NEW m \in Message, Sends(m), QueueFinal' PROVE QueueFinal \/ Final(m.status)
BY Typed DEF Sends, QueueFinal

\* What a handler holds after its step, was about before.
LEMMA HandlerFinalStep ==
  ASSUME Inv, NEW h \in Handler, WorkerStep(h), HandlerFinal' PROVE FinalAbout
<1>1. PICK q \in Handler : Final(handler'[q].seen) \/ Final(handler'[q].msg.status)
  BY DEF HandlerFinal
<1>2. handler[h] \in HandlerState BY Typed
<1>3. CASE handler'[q].seen = handler[q].seen /\ handler'[q].msg = handler[q].msg
  BY <1>1, <1>3 DEF FinalAbout, HandlerFinal
<1>4. CASE q # h BY <1>3, <1>4, OthersKept
<1>5. ASSUME q = h, NEW pc, Goto(h, pc) PROVE FinalAbout
  <2>1. handler'[h] = [handler[h] EXCEPT !.pc = pc] BY <1>5, Typed DEF Goto
  <2> QED BY <1>2, <1>3, <1>5, <2>1 DEF HandlerState
<1>6. CASE q = h /\ \E m \in Message : Consume(h, m)
  <2>1. PICK m \in Message : queue[m] > 0 /\ handler'[h] = [Free EXCEPT !.pc = "lock", !.msg = m]
    BY <1>6, Typed DEF Consume
  <2>2. handler'[h].msg = m /\ handler'[h].seen = Free.seen BY <2>1, FreeTyped DEF HandlerState
  <2> QED BY <1>1, <1>6, <2>1, <2>2, NotFinal DEF FinalAbout, QueueFinal
<1>7. CASE q = h /\ (Crash(h) \/ RetryOrBury(h))
  <2>1. handler'[h] = Free BY <1>7, Typed DEF Crash, RetryOrBury
  <2> QED BY <1>1, <1>7, <2>1, NotFinal
<1>8. CASE q = h /\ Release(h)
  <2>1. handler'[h] = Free \/ handler'[h] = [handler[h] EXCEPT !.pc = "error"]
    BY <1>8, Typed DEF Release
  <2> QED BY <1>1, <1>2, <1>3, <1>8, <2>1, NotFinal DEF HandlerState
<1>9. CASE q = h /\ ReadTrip(h)
  <2>1. handler'[h] = [handler[h] EXCEPT !.pc = "pushTrip", !.seen = trip.status]
    BY <1>9, Typed DEF ReadTrip
  <2>2. handler'[h].seen = trip.status /\ handler'[h].msg = handler[h].msg
    BY <1>2, <2>1 DEF HandlerState
  <2> QED BY <1>1, <1>9, <2>2 DEF FinalAbout, HandlerFinal
<1>10. CASE q = h /\ GetDeal(h)
  <2> DEFINE b == deal.ext /\ deal.synced
  <2>1. handler'[h] = [handler[h] EXCEPT !.pc = "upsert", !.seen = deal.stage, !.marked = b]
    BY <1>10, Typed DEF GetDeal
  <2> HIDE DEF b
  <2>2. handler'[h].seen = deal.stage /\ handler'[h].msg = handler[h].msg
    BY <1>2, <2>1 DEF HandlerState
  <2> QED BY <1>1, <1>10, <2>2 DEF FinalAbout, HandlerFinal
<1>11. CASE q = h /\ (TakeLock(h) \/ PushTrip(h) \/ PushStatus(h) \/ Upsert(h) \/ Mark(h) \/ Fails(h))
  <2>1. PICK pc : Goto(h, pc)
    BY <1>11 DEF TakeLock, PushTrip, PushStatus, Upsert, Mark, Fails
  <2> QED BY <1>5, <1>11, <2>1
<1> QED BY <1>4, <1>6, <1>7, <1>8, <1>9, <1>10, <1>11 DEF WorkerStep, Handle

\* A message sent is a repeated one or names no status.
LEMMA QueueFinalStep ==
  ASSUME Inv, NEW h \in Handler, WorkerStep(h), QueueFinal' PROVE FinalAbout
<1> DEFINE m == handler[h].msg
           n == [m EXCEPT !.attempt = @ + 1]
<1>1. m \in Message BY Typed DEF HandlerState
<1>2. CASE queue' = queue BY <1>2 DEF QueueFinal, FinalAbout
<1>3. CASE Sends(PullMessage) BY <1>3, MessagesTyped, SentFinal, NotFinal DEF FinalAbout
<1>4. CASE Crash(h)
  <2>1. Sends(m) BY <1>4 DEF Crash
  <2>2. QueueFinal \/ Final(m.status) BY <1>1, <2>1, SentFinal
  <2> QED BY <2>2 DEF FinalAbout, HandlerFinal
<1>5. CASE RetryOrBury(h) /\ m.attempt < RetryLimit
  <2>1. n \in Message /\ n.status = m.status BY <1>1, <1>5, BoundAssumption DEF Message
  <2>2. Sends(n) BY <1>1, <1>5, BoundAssumption DEF RetryOrBury
  <2> HIDE DEF n
  <2>3. QueueFinal \/ Final(m.status) BY <2>1, <2>2, SentFinal
  <2> QED BY <2>3 DEF FinalAbout, HandlerFinal
<1>6. CASE RetryOrBury(h) /\ ~(m.attempt < RetryLimit) BY <1>2, <1>6 DEF RetryOrBury
<1>7. CASE \E k \in Message : Consume(h, k)
  <2>1. PICK k \in Message : queue' = [queue EXCEPT ![k] = @ - 1] BY <1>7 DEF Consume
  <2> QED BY <2>1, Typed DEF QueueFinal, FinalAbout
<1>8. CASE Fails(h) BY <1>2, <1>3, <1>8, FailsCases
<1>9. CASE TakeLock(h) \/ ReadTrip(h) \/ GetDeal(h) \/ Upsert(h) \/ Release(h)
  BY <1>2, <1>9 DEF TakeLock, ReadTrip, GetDeal, Upsert, Release
<1>10. CASE PushTrip(h) \/ PushStatus(h) \/ Mark(h)
  BY <1>3, <1>10 DEF PushTrip, PushStatus, Mark, UpdateDeal
<1> QED BY <1>4, <1>5, <1>6, <1>7, <1>8, <1>9, <1>10 DEF WorkerStep, Handle

\* The worker writes what it has read, or was sent.
LEMMA DealFinalStep ==
  ASSUME Inv, NEW h \in Handler, WorkerStep(h), Final(deal'.stage) PROVE FinalAbout
<1>1. /\ DealOfTrip(h).stage \in {handler[h].seen, deal.stage}
      /\ DealMarked.stage = deal.stage
  BY Typed DEF DealOfTrip, DealMarked, DealFields
<1>2. DealOfStatus(h).stage = handler[h].msg.status BY Typed DEF DealOfStatus, DealFields
<1>3. \/ deal' = deal \/ deal' = DealOfTrip(h) \/ deal' = DealOfStatus(h) \/ deal' = DealMarked
  BY FailsCases DEF WorkerStep, Handle, TakeLock, ReadTrip, PushTrip, PushStatus, GetDeal, Upsert,
     Mark, Release, RetryOrBury, Crash, Consume, UpdateDeal
<1> QED BY <1>1, <1>2, <1>3 DEF FinalAbout, HandlerFinal

LEMMA TripKept ==
  ASSUME Inv, NEW h \in Handler, WorkerStep(h)
  PROVE  /\ crew' = crew /\ trip'.crew = trip.crew
         /\ trip' = trip \/ (At(h, "upsert") /\ trip'.status = StatusFromStage(h))
<1>1. CASE UNCHANGED fleet BY <1>1 DEF fleet
<1>2. CASE At(h, "upsert") /\ trip' = [trip EXCEPT !.status = StatusFromStage(h)] /\ crew' = crew
  BY <1>2, Typed DEF Trips
<1>3. CASE Fails(h) BY <1>1, <1>2, <1>3, FailsCases DEF Fails, fleet
<1>4. CASE ~Fails(h)
  BY <1>1, <1>2, <1>4 DEF WorkerStep, Handle, TakeLock, ReadTrip, PushTrip, PushStatus, GetDeal,
     Upsert, Mark, Release, RetryOrBury, Crash, Consume
<1> QED BY <1>3, <1>4

LEMMA WorkerFinal ==
  ASSUME Inv, NEW h \in Handler, WorkerStep(h), FinalAbout' PROVE FinalAbout
<1>1. CASE Final(trip'.status)
  <2>1. StatusFromStage(h) \in {handler[h].seen, "CREATED", trip.status} BY DEF StatusFromStage
  <2> QED BY <1>1, <2>1, TripKept, NotFinal DEF FinalAbout, HandlerFinal
<1> QED BY <1>1, DealFinalStep, QueueFinalStep, HandlerFinalStep DEF FinalAbout

LEMMA WorkerCrew ==
  ASSUME Inv, CrewInv, NEW h \in Handler, WorkerStep(h) PROVE CrewInv'
<1> SUFFICES ASSUME count'.moves = 0, FinalAbout'
             PROVE  trip'.status \notin {"NONE", "CREATED"} /\ (~trip'.crew \/ crew' = "AVAILABLE")
  BY DEF CrewInv
<1>1. trip.status \notin {"NONE", "CREATED"} /\ (~trip.crew \/ crew = "AVAILABLE")
  BY WorkerFinal, MovesKept DEF CrewInv
<1>2. At(h, "upsert") => StatusFromStage(h) \notin {"NONE", "CREATED"}
  BY <1>1, UpsertedStatus DEF TripStatus
<1> QED BY <1>1, <1>2, TripKept

\* A final status of updateStatus frees the crew with it.
LEMMA PeopleCrew == ASSUME Inv, CrewInv, People PROVE CrewInv'
<1> SUFFICES ASSUME count'.moves = 0, FinalAbout'
             PROVE  trip'.status \notin {"NONE", "CREATED"} /\ (~trip'.crew \/ crew' = "AVAILABLE")
  BY DEF CrewInv
<1>1. CASE AssignVehicle \/ \E b \in BOOLEAN : CreateTrip(b)
  <2>1. Sends(TripMessage) /\ UNCHANGED <<deal, handler>> /\ trip.status \in {"NONE", "CREATED"}
    BY <1>1 DEF AssignVehicle, CreateTrip
  <2>2. count.moves = 0 BY <1>1, Typed DEF AssignVehicle, CreateTrip, Change, Counts
  <2>3. ~Final(trip'.status) BY <1>1, NotFinal DEF AssignVehicle, CreateTrip
  <2>4. QueueFinal' => QueueFinal BY <2>1, MessagesTyped, SentFinal, NotFinal
  <2>5. FinalAbout BY <2>1, <2>3, <2>4 DEF FinalAbout, HandlerFinal
  <2> QED BY <2>1, <2>2, <2>5 DEF CrewInv
<1>2. ASSUME NEW s \in TripStatus, UpdateStatus(s)
      PROVE  trip'.status \notin {"NONE", "CREATED"} /\ (~trip'.crew \/ crew' = "AVAILABLE")
  <2>1. /\ trip'.status = s /\ trip'.crew = trip.crew /\ s \notin {"NONE", "CREATED"}
        /\ UNCHANGED <<deal, handler>> /\ Sends(StatusMessage(s))
    BY <1>2, UpdateStatusLeavesCreated, Typed DEF UpdateStatus, Trips, TripStatus
  <2>2. CASE Final(s) BY <1>2, <2>1, <2>2, Typed DEF UpdateStatus, Final, Trips
  <2>3. CASE ~Final(s)
    <3>1. count.moves = 0 /\ crew' = crew
      BY <1>2, <2>3, Typed DEF UpdateStatus, Change, Counts, Final
    <3>2. StatusMessage(s) \in Message /\ StatusMessage(s).status = s
      BY <2>1, MessagesTyped DEF StatusMessage
    <3>3. FinalAbout BY <2>1, <2>3, <3>2, SentFinal DEF FinalAbout, HandlerFinal
    <3> QED BY <2>1, <3>1, <3>3 DEF CrewInv
  <2> QED BY <2>2, <2>3
<1>3. ASSUME NEW s \in Stage, MoveStage(s) PROVE FALSE
  <2>1. count'.moves = count.moves + 1 BY <1>3, Typed DEF MoveStage, Counts
  <2> QED BY <2>1, Typed, BoundAssumption DEF Counts
<1> QED BY <1>1, <1>2, <1>3 DEF People

\* docs/13-fleet-domain.md:13-14 needs a manager to be broken: while the deal is
\* moved by the worker only, an ended trip has no crew that is IN_TRIP.
THEOREM WorkerStrandsNoCrew == Spec => []OnlyMovesStrandCrew
<1>1. Init => CrewInv
  <2> SUFFICES ASSUME Init PROVE ~FinalAbout BY DEF CrewInv
  <2>1. ~QueueFinal BY NotFinal DEF Init, QueueFinal
  <2> QED BY <2>1, NotFinal DEF Init, FinalAbout, HandlerFinal
<1>2. Inv /\ CrewInv /\ [Next]_vars => CrewInv'
  <2> SUFFICES ASSUME Inv, CrewInv, LockExpires \/ UNCHANGED vars PROVE CrewInv'
    BY Steps, PeopleCrew, WorkerCrew
  <2> QED BY DEF LockExpires, vars, fleet, CrewInv, FinalAbout, QueueFinal, HandlerFinal
<1>3. CrewInv => OnlyMovesStrandCrew
  BY NotFinal DEF CrewInv, OnlyMovesStrandCrew, EndFreesCrew, FinalAbout, Final
<1> QED BY <1>1, <1>2, <1>3, Invariance, PTL DEF Spec
=============================================================================
