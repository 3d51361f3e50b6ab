SPECIFICATION Spec
CONSTANTS
  Sku <- MCSku
  Cases <- MCCases
INVARIANTS
  TypeOK
  BoxesArrivedFirst
  StoreMatchesShelf
  AllOrNothing
PROPERTY PutawayEnds
\* A finished putaway polls for ever.
CHECK_DEADLOCK FALSE
