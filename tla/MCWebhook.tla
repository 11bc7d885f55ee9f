------------------------------ MODULE MCWebhook -----------------------------
(***************************************************************************)
(* Webhook for TLC: everything that may fail, fails.                       *)
(***************************************************************************)
EXTENDS Webhook

AllFaults == FaultKind
=============================================================================
