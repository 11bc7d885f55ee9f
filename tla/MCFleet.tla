------------------------------ MODULE MCFleet ------------------------------
(***************************************************************************)
(* Fleet for TLC: deals, vehicles, drivers and requests are each           *)
(* interchangeable.                                                        *)
(***************************************************************************)
EXTENDS Fleet, TLC

Symmetry ==
  UNION {Permutations(Deal), Permutations(Vehicle), Permutations(Driver), Permutations(Req)}
=============================================================================
