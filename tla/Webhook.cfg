SPECIFICATION FairSpec
CONSTANTS
  Event = {e1}
  Req = {r1, r2, r3}
  None = None
  Faults <- AllFaults
INVARIANT TypeOK
INVARIANT AcceptedOnce
INVARIANT ProcessedIsStored
INVARIANT NoForgottenClaim
PROPERTY ImplementsReceiver
PROPERTY EventuallyStored
