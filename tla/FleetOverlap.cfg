SPECIFICATION Spec
CONSTANTS
  Deal = {d1, d2}
  Vehicle = {v1, v2}
  Driver = {p1, p2}
  Req = {r1, r2}
  Null = Null
  Overlap = TRUE
SYMMETRY Symmetry
INVARIANT TypeOK
INVARIANT AssignedHasCrew
INVARIANT OneVehiclePerDriver
INVARIANT SomeoneGoesOn
PROPERTY BookingTakesFreeCrew
PROPERTY OnlyStaleLeaveLedger
PROPERTY EventsTellHistory
\* Every trip may have ended.
CHECK_DEADLOCK FALSE
