SPECIFICATION CalmSpec
CONSTANTS
  t1 = t1
  t2 = t2
  c1 = c1
  c2 = c2
  None = None
  TaskId = {t1, t2}
  Request <- MCRequest
  Conn = {c1, c2}
  MAX_TASK_RETRY = 1
  FaultSets <- MCFaultSets
INVARIANT NoCalmFailure
\* With all ids used, nothing more to run and nothing going wrong, it may stop.
CHECK_DEADLOCK FALSE
