SPECIFICATION Spec
CONSTANTS
  Price <- Prices
  Cost <- Costs
  Discount <- Discounts
  Opening <- Fine
  Million = 36000
  MaxUpdates = 2
  MaxInstalls = 2
INVARIANT TypeOK
INVARIANT RiskOfTheDeal
INVARIANT WorseNeverSafer
PROPERTY HeardFindsItsTable
\* Every update may have been handled and every installation used up.
CHECK_DEADLOCK FALSE
