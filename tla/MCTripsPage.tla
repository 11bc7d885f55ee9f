---------------------------- MODULE MCTripsPage ----------------------------
(***************************************************************************)
(* TripsPage for TLC: one trip has its crew when the page opens, the other *)
(* is still to be created; others move a trip ahead or cancel it.          *)
(***************************************************************************)
EXTENDS TripsPage

Assigned == CHOOSE t \in Trip : TRUE
Opening == {[t \in Trip |-> IF t = Assigned THEN "ASSIGNED" ELSE "NONE"]}
=============================================================================
