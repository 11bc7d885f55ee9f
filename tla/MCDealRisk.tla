---------------------------- MODULE MCDealRisk -----------------------------
(***************************************************************************)
(* DealRisk for TLC: a million is 36000 units.  The costs give, for the    *)
(* smaller price, margins of 10.003, 10 and 9.994 %, and for the million   *)
(* 15.003 % (rounded to 15 %), 15 and 14.99 %.                             *)
(***************************************************************************)
EXTENDS DealRisk

Prices == {0, 34000, 36000}
Costs == {-1, 30599, 30600, 30602}
Discounts == {0, 7, 15}
Fine == {[price |-> 36000, cost |-> 30599, discount |-> 0]}
=============================================================================
