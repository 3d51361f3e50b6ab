SPECIFICATION Spec
CONSTANTS
  Sku <- MCSku
  Cases <- OrderCases
  MaxAdjustments = 4
INVARIANT
  PlanCanBeCarriedOut
