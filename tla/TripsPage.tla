------------------------------ MODULE TripsPage ------------------------------
(***************************************************************************)
(* The page "Рейсы" of one dashboard (trips.vue): its table of trips, the  *)
(* buttons of each row, the form, and the refresh of the table after every *)
(* request that succeeded.                                                 *)
(*                                                                         *)
(* The API answers each request in one step here (its transactions are     *)
(* Fleet's).  Whether a vehicle is free only decides between success and   *)
(* refusal, so vehicles are left out.  Other dashboards and the worker     *)
(* change the same trips at any time.                                      *)
(***************************************************************************)
EXTENDS TripLifecycle, Naturals

CONSTANTS Trip,      \* trips, as the deals they are for
          Clicks,    \* how many clicks one session has, each a request or a reload
          Null,      \* no trip, and no table
          Tables,    \* what the table of trips may be when the page opens
          Foreign,   \* the statuses others set
          MaxMoves   \* bound on the changes made by others

ASSUME NullAssumption == Null \notin Trip
ASSUME TablesAssumption == Tables \subseteq [Trip -> TripStatus \cup {"NONE"}]
ASSUME ForeignAssumption == Foreign \subseteq TripStatus
ASSUME BoundAssumption == Clicks \in Nat /\ MaxMoves \in Nat

VARIABLES
  row,     \* the API's status of each trip; "NONE": no trip yet
  moves,   \* how many changes others have made
  shown,   \* data.trips: the statuses in the table, or Null after a failed load
  load,    \* the newest load of the table
  marker,  \* actionTripId
  saving,  \* saving
  call,    \* each click, from the request to the end of its handler
  known    \* the pending requests executed before the table shown, or the load, was read

vars == <<row, moves, shown, load, marker, saving, call, known>>

Call == 1..Clicks
Status == TripStatus \cup {"NONE"}
Table == [Trip -> Status]
Phase == {"new", "sent", "ok", "refused", "refresh", "loaded", "ended"}
CallState == [op: {"none", "create", "assign", "status", "reload"}, trip: Trip \cup {Null},
              seen: Status, target: Status, phase: Phase]
NewCall == [op |-> "none", trip |-> Null, seen |-> "NONE", target |-> "NONE", phase |-> "new"]
NoLoad == [on |-> FALSE, table |-> Null]

Init ==
  /\ row \in Tables
  /\ moves = 0
  /\ shown \in {row, Null}
  /\ load = NoLoad
  /\ marker = Null
  /\ saving = FALSE
  /\ call = [c \in Call |-> NewCall]
  /\ known = [shown |-> {}, load |-> {}]

-----------------------------------------------------------------------------
(* Clicks.                                                                 *)

\* Click c is the next one.
Due(c) == call[c].phase = "new" /\ \A b \in Call : b < c => call[b].phase # "new"

Sent(c, op, t, target) ==
  /\ Due(c)
  /\ call' = [call EXCEPT ![c] =
       [op |-> op, trip |-> t, target |-> target, phase |-> "sent",
        seen |-> IF shown = Null THEN "NONE" ELSE shown[t]]]
  /\ UNCHANGED <<row, moves, shown, load, known>>

\* runAction marks the trip, whichever was marked.
runAction(c, op, t, target) ==
  /\ marker' = t
  /\ Sent(c, op, t, target)
  /\ UNCHANGED saving

\* Mutant: the button of an assigned trip skips the loading.
MutantNextStatusSkips ==
  [ASSIGNED |-> "IN_TRANSIT", LOADING |-> "IN_TRANSIT", IN_TRANSIT |-> "DELIVERED",
   DELIVERED |-> "CLOSED"]

\* Mutant: the stage after IN_TRANSIT is no status.
MutantNextStatusUnknown ==
  [ASSIGNED |-> "LOADING", LOADING |-> "IN_TRANSIT", IN_TRANSIT |-> "ARRIVED",
   DELIVERED |-> "CLOSED"]

nextStatus ==
  [ASSIGNED |-> "LOADING", LOADING |-> "IN_TRANSIT", IN_TRANSIT |-> "DELIVERED",
   DELIVERED |-> "CLOSED"]

assignVehicle(c, t) == runAction(c, "assign", t, "ASSIGNED")

advance(c, t) ==
  /\ shown[t] \in DOMAIN nextStatus
  /\ runAction(c, "status", t, nextStatus[shown[t]])

cancel(c, t) == runAction(c, "status", t, "CANCELLED")

\* The buttons of a row, which are disabled while it is marked.
RowButtons(c, t) ==
  /\ shown # Null /\ marker # t
  /\ \/ shown[t] = "CREATED" /\ assignVehicle(c, t)
     \/ advance(c, t)
     \/ shown[t] \notin {"NONE", "DELIVERED", "CLOSED", "CANCELLED"} /\ cancel(c, t)

\* With a vehicle or without.
createTrip(c, t) ==
  /\ saving' = TRUE
  /\ \E target \in {"CREATED", "ASSIGNED"} : Sent(c, "create", t, target)
  /\ UNCHANGED marker

\* The form, whose button is disabled while it saves.
Form(c, t) == ~saving /\ createTrip(c, t)

\* Mutant: a refresh joins the load in progress (dedupe: 'defer').
MutantStartLoadDefers ==
  IF load.on THEN UNCHANGED <<load, known>>
  ELSE load' = [on |-> TRUE, table |-> Null] /\ known' = [known EXCEPT !.load = {}]

\* refresh(): a new load takes the place of one that is still under way.
StartLoad ==
  load' = [on |-> TRUE, table |-> Null] /\ known' = [known EXCEPT !.load = {}]

\* The button "Обновить".
Reload(c) ==
  /\ Due(c)
  /\ call' = [call EXCEPT ![c].op = "reload", ![c].phase = "refresh"]
  /\ StartLoad
  /\ UNCHANGED <<row, moves, shown, marker, saving>>

-----------------------------------------------------------------------------
(* The API.                                                                *)

\* create needs a deal without a trip, assignVehicle a trip in CREATED, and
\* updateStatus a transition of the diagram.
Accepts(c) ==
  LET now == row[call[c].trip]
  IN CASE call[c].op = "create" -> now = "NONE"
       [] call[c].op = "assign" -> now = "CREATED"
       [] OTHER -> now # "NONE" /\ canTransition(now, call[c].target)

\* The request is executed.
Execute(c) ==
  /\ call[c].phase = "sent"
  /\ Accepts(c)
  /\ row' = [row EXCEPT ![call[c].trip] = call[c].target]
  /\ call' = [call EXCEPT ![c].phase = "ok"]
  /\ UNCHANGED <<moves, shown, load, marker, saving, known>>

\* It is refused, for its status or its vehicle, or it never arrives.
Decline(c) ==
  /\ call[c].phase = "sent"
  /\ call' = [call EXCEPT ![c].phase = "refused"]
  /\ UNCHANGED <<row, moves, shown, load, marker, saving, known>>

\* It was executed, and the answer is lost.
LoseAnswer(c) ==
  /\ call[c].phase = "ok"
  /\ call' = [call EXCEPT ![c].phase = "refused"]
  /\ UNCHANGED <<row, moves, shown, load, marker, saving, known>>

\* Others: requests of other dashboards, and the worker, which sets any stage
\* but the first.
OtherMoves(t, s) ==
  /\ moves < MaxMoves
  /\ moves' = moves + 1
  /\ s = "CREATED" => row[t] = "NONE"
  /\ row' = [row EXCEPT ![t] = s]
  /\ UNCHANGED <<shown, load, marker, saving, call, known>>

-----------------------------------------------------------------------------
(* Answers.                                                                *)

\* Mutant: the marker is removed after a success only.
MutantEndsOnSuccess(c) ==
  /\ call' = [call EXCEPT ![c] = [NewCall EXCEPT !.phase = "ended"]]
  /\ known' = [known EXCEPT !.shown = @ \ {c}, !.load = @ \ {c}]
  /\ saving' = (saving /\ call[c].op # "create")
  /\ marker' = IF call[c].op \in {"assign", "status"} /\ call[c].phase = "loaded"
               THEN Null ELSE marker

\* finally: whichever trip is marked by now.
Ends(c) ==
  /\ call' = [call EXCEPT ![c] = [NewCall EXCEPT !.phase = "ended"]]
  /\ known' = [known EXCEPT !.shown = @ \ {c}, !.load = @ \ {c}]
  /\ saving' = (saving /\ call[c].op # "create")
  /\ marker' = IF call[c].op \in {"assign", "status"} THEN Null ELSE marker

AnswerOk(c) ==
  /\ call[c].phase = "ok"
  /\ call' = [call EXCEPT ![c].phase = "refresh"]
  /\ StartLoad
  /\ UNCHANGED <<row, moves, shown, marker, saving>>

AnswerError(c) ==
  /\ call[c].phase = "refused"
  /\ Ends(c)
  /\ UNCHANGED <<row, moves, shown, load>>

\* await refresh() is over.
Refreshed(c) ==
  /\ call[c].phase = "loaded"
  /\ Ends(c)
  /\ UNCHANGED <<row, moves, shown, load>>

Executed == {c \in Call : call[c].phase \in {"ok", "refresh", "loaded"}}

\* The API reads the trips.
ReadTrips ==
  /\ load.on /\ load.table = Null
  /\ load' = [load EXCEPT !.table = row]
  /\ known' = [known EXCEPT !.load = Executed]
  /\ UNCHANGED <<row, moves, shown, marker, saving, call>>

\* Mutant: only reloads are told that the load is over.
MutantSettled(c) == IF call[c].phase = "refresh" /\ call[c].op = "reload" THEN "loaded" ELSE call[c].phase

\* Who awaits a refresh, the newest or one it has replaced, goes on.
Settled(c) == IF call[c].phase = "refresh" THEN "loaded" ELSE call[c].phase

Settle == call' = [c \in Call |-> [call[c] EXCEPT !.phase = Settled(c)]]

LoadArrives ==
  /\ load.on /\ load.table # Null
  /\ shown' = load.table
  /\ known' = [shown |-> known.load, load |-> {}]
  /\ load' = NoLoad
  /\ Settle
  /\ UNCHANGED <<row, moves, marker, saving>>

\* One of its two requests fails: refresh() does not throw, the table goes.
LoadFails ==
  /\ load.on
  /\ shown' = Null
  /\ known' = [shown |-> {}, load |-> {}]
  /\ load' = NoLoad
  /\ Settle
  /\ UNCHANGED <<row, moves, marker, saving>>

Click(c) ==
  \/ Reload(c)
  \/ \E t \in Trip : RowButtons(c, t) \/ Form(c, t)

Answer(c) == Execute(c) \/ Decline(c) \/ LoseAnswer(c) \/ AnswerOk(c) \/ AnswerError(c) \/ Refreshed(c)

Next ==
  \/ \E c \in Call : Click(c) \/ Answer(c)
  \/ ReadTrips \/ LoadArrives \/ LoadFails
  \/ \E t \in Trip, s \in Foreign : OtherMoves(t, s)

Spec == Init /\ [][Next]_vars

\* Requests and loads are answered, or fail, and the handlers go on.
Fairness ==
  /\ \A c \in Call : WF_vars(Answer(c))
  /\ WF_vars(ReadTrips) /\ WF_vars(LoadArrives \/ LoadFails)

FairSpec == Spec /\ Fairness

-----------------------------------------------------------------------------
TypeOK ==
  /\ row \in Table /\ moves \in 0..MaxMoves
  /\ shown \in Table \cup {Null}
  /\ load \in [on: BOOLEAN, table: Table \cup {Null}]
  /\ marker \in Trip \cup {Null} /\ saving \in BOOLEAN
  /\ call \in [Call -> CallState]
  /\ known \in [shown: SUBSET Call, load: SUBSET Call]

Pending(c) == call[c].phase \notin {"new", "ended"}

\* There is one marker for all trips (trips.vue:7), and any handler that ends
\* removes it, so a row's buttons may be enabled while its request runs.  The
\* reverse never happens: no row and no form stays disabled with no request of
\* its own under way; and the form sends one request at a time.
DisabledForAReason ==
  /\ marker # Null =>
       \E c \in Call : Pending(c) /\ call[c].op \in {"assign", "status"} /\ call[c].trip = marker
  /\ saving <=> \E c \in Call : Pending(c) /\ call[c].op = "create"
  /\ \A b, c \in Call :
       Pending(b) /\ Pending(c) /\ call[b].op = "create" /\ call[c].op = "create" => b = c

\* Repeated clicks about one trip, and clicks on a table others have made
\* stale, are harmless: a request to go to the next stage names that stage, so
\* it only ever moves a trip out of the stage its row showed when it was
\* clicked.
AdvanceFromShown ==
  [][\A c \in Call :
       Execute(c) /\ call[c].op = "status" /\ call[c].target # "CANCELLED" =>
         row[call[c].trip] \in {call[c].seen, call[c].target}]_vars

\* A handler whose request succeeded, and a reload, ends with a table that was
\* read after the request was executed, or with no table, even if its own load
\* was replaced by that of a later click (trips.vue:77).
OwnChangeShown ==
  \A c \in Call : call[c].phase = "loaded" => shown = Null \/ c \in known.shown

\* Every click ends: its row or its form is enabled again.
ClicksEnd == \A c \in Call : Pending(c) ~> call[c].phase = "ended"
=============================================================================
