SPECIFICATION Spec
CONSTANTS
  Deal = {d1}
  Vehicle = {v1}
  Driver = {p1}
  Req = {r1, r2}
  Null = Null
  Overlap = TRUE
SYMMETRY Symmetry
PROPERTY StatusFollowsDiagram
\* Every trip may have ended.
CHECK_DEADLOCK FALSE
