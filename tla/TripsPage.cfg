SPECIFICATION FairSpec
CONSTANTS
  Trip = {t1, t2}
  Clicks = 3
  Null = Null
  Tables <- Opening
  Foreign = {"LOADING", "CANCELLED"}
  MaxMoves = 1
INVARIANT TypeOK
INVARIANT DisabledForAReason
INVARIANT OwnChangeShown
PROPERTY AdvanceFromShown
PROPERTY ClicksEnd
\* Every click may have ended.
CHECK_DEADLOCK FALSE
