SPECIFICATION Spec
CONSTANTS
  Sku <- MCSku
  Plans <- MCPlans
INVARIANTS
  TypeOK
  StoreMatchesShelf
  StoreLagsByOneBatch
  CommandsWaitUnlessHasty
  LineFollowsPlan
  NeverInconsistent
PROPERTY RunEnds
\* A finished run polls for ever; an abandoned one too.
CHECK_DEADLOCK FALSE
