SPECIFICATION FairSpec
CONSTANTS
  Event = {e1}
  Handler = {h1, h2}
  Timer = Timer
  None = None
  RetryLimit = 1
  DispatchLimit = 3
  MaxFaults = 2
  Declared = TRUE
INVARIANT TypeOK
INVARIANT NoSilentLoss
INVARIANT HistoryIsTrue
INVARIANT StillTried
PROPERTY ImplementsChannel
PROPERTY EventSettles
\* Every event may be settled and every fault spent.
CHECK_DEADLOCK FALSE
