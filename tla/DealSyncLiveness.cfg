SPECIFICATION FairSpec
CONSTANTS
  Handler = {h1, h2}
  Nobody = Nobody
  RetryLimit = 1
  MaxChanges = 2
  MaxMoves = 1
  MaxFaults = 1
  Slow = FALSE
INVARIANT ReadIsCurrent
INVARIANT MarksOnce
INVARIANT RestIsSynced
PROPERTY EchoEnds
PROPERTY SidesAgree
\* People may stop changing things, and then the worker comes to rest.
CHECK_DEADLOCK FALSE
