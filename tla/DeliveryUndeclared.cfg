SPECIFICATION Spec
CONSTANTS
  Event = {e1}
  Handler = {h1}
  Timer = Timer
  None = None
  RetryLimit = 1
  DispatchLimit = 2
  MaxFaults = 1
  Declared = FALSE
SYMMETRY Symmetry
INVARIANT NoSilentLoss
\* Every event may be settled and every fault spent.
CHECK_DEADLOCK FALSE
