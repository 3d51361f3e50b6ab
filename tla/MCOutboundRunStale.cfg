SPECIFICATION Spec
CONSTANTS
  Sku <- MCSku
  Plans <- MCPlans
INVARIANT CommandsWaitForDevices
CHECK_DEADLOCK FALSE
