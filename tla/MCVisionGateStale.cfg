SPECIFICATION Spec
CONSTANTS
  SEQ_MODULUS = 3
  MAX_SENDS = 2
  MAX_LOSSES = 1
  MAX_JUNK = 0
  None = None
INVARIANT AckBelongsToRequest
CHECK_DEADLOCK FALSE
