SPECIFICATION LiveSpec
CONSTANTS
  t1 = t1
  t2 = t2
  c1 = c1
  c2 = c2
  None = None
  TaskId = {t1, t2}
  Request <- MCLiveRequest
  Conn = {c1}
  MAX_TASK_RETRY = 1
  FaultSets <- MCLiveFaultSets
PROPERTIES
  AcceptedTasksEnd
  BusyStationsReleased
