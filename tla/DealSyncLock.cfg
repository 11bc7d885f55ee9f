SPECIFICATION Spec
CONSTANTS
  Handler = {h1, h2}
  Nobody = Nobody
  RetryLimit = 1
  MaxChanges = 2
  MaxMoves = 1
  MaxFaults = 1
  Slow = TRUE
SYMMETRY Symmetry
INVARIANT TypeOK
INVARIANT OwnerKeepsLock
INVARIANT OnlyMovesStrandCrew
PROPERTY NeverCreatedAgain
\* People may stop changing things, and then the worker comes to rest.
CHECK_DEADLOCK FALSE
