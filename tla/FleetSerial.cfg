SPECIFICATION Spec
CONSTANTS
  Deal = {d1, d2, d3}
  Vehicle = {v1, v2}
  Driver = {p1, p2}
  Req = {r1, r2}
  Null = Null
  Overlap = FALSE
SYMMETRY Symmetry
INVARIANT CrewConsistent
PROPERTY ImplementsLedger
\* Every trip may have ended.
CHECK_DEADLOCK FALSE
