----------------------------- MODULE MCDealSync -----------------------------
EXTENDS DealSync, TLC

\* Handlers are interchangeable.
Symmetry == Permutations(Handler)
=============================================================================
