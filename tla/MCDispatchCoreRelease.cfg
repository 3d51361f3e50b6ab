SPECIFICATION Spec
CONSTANTS
  t1 = t1
  t2 = t2
  c1 = c1
  c2 = c2
  None = None
  TaskId = {t1, t2}
  Request <- MCRequest
  Conn = {c1, c2}
  MAX_TASK_RETRY = 1
  FaultSets <- MCFaultSets
SYMMETRY Symmetry
PROPERTY ErrorLeftOnlyOnRequest
