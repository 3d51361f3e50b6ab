SPECIFICATION Spec
CONSTANTS
  SEQ_MODULUS = 2
  MAX_SENDS = 3
  MAX_LOSSES = 1
  MAX_JUNK = 1
  None = None
INVARIANTS
  TypeOK
  AckRightUntilGivenUp
  NoAnswerCountsTwice
  AckWrongOnlyInHandover
PROPERTY ConnectionRestored
\* With all lists sent and the gate silent, the client waits for ever.
CHECK_DEADLOCK FALSE
