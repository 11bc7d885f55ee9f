----------------------------- MODULE MCDelivery -----------------------------
EXTENDS Delivery, TLC

\* Events and handlers are interchangeable.
Symmetry == Permutations(Event) \cup Permutations(Handler)
=============================================================================
