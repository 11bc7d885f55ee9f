---------------------------- MODULE TripLifecycle ----------------------------
(***************************************************************************)
(* The statuses of a trip and the transitions updateStatus admits.         *)
(***************************************************************************)

TripStatus == {"CREATED", "ASSIGNED", "LOADING", "IN_TRANSIT", "DELIVERED",
               "CLOSED", "CANCELLED"}

VehicleStatus == {"AVAILABLE", "IN_TRIP", "SERVICE", "UNAVAILABLE"}
DriverStatus == {"AVAILABLE", "IN_TRIP", "UNAVAILABLE"}

allowedTransitions ==
  [CREATED    |-> {"ASSIGNED", "CANCELLED"},
   ASSIGNED   |-> {"LOADING", "CANCELLED"},
   LOADING    |-> {"IN_TRANSIT", "CANCELLED"},
   IN_TRANSIT |-> {"DELIVERED", "CANCELLED"},
   DELIVERED  |-> {"CLOSED"},
   CLOSED     |-> {},
   CANCELLED  |-> {}]

canTransition(from, to) == from = to \/ to \in allowedTransitions[from]

\* The statuses whose entry frees the crew.
FinalStatus == {"CLOSED", "CANCELLED"}

\* A trip in one of these occupies its vehicle and its driver.
ActiveStatus == {"ASSIGNED", "LOADING", "IN_TRANSIT", "DELIVERED"}
=============================================================================
