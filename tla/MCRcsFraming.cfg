SPECIFICATION Spec
CONSTANTS
  Kinds <- MCKinds
  MAX_SENT = 4
INVARIANTS
  TypeOK
  NothingInvented
  AnsweredInOrder
  WaitsOnlyWhenAnswered
\* With everything sent and answered, or the connection closed, nothing is left.
CHECK_DEADLOCK FALSE
