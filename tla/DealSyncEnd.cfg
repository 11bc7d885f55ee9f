SPECIFICATION Spec
CONSTANTS
  Handler = {h1}
  Nobody = Nobody
  RetryLimit = 1
  MaxChanges = 2
  MaxMoves = 1
  MaxFaults = 0
  Slow = FALSE
INVARIANT EndFreesCrew
\* People may stop changing things, and then the worker comes to rest.
CHECK_DEADLOCK FALSE
