SPECIFICATION Spec
CONSTANTS
  MaxTasks = 3
  MaxTime = 2
  MaxTimeouts = 5
  Delays = {0, 1}
  Priorities = {1, 3}
  Timeout <- MCTimeout
  FrameIntervals = {1}
  EnableSchedulerDebugging = TRUE
INVARIANTS
  TypeOK
  OneMessageLoop
  NoLostTask
  NoLostWakeup
PROPERTIES
  PriorityRespected
  NoExpiredTaskLeft
  ImplementsService
CHECK_DEADLOCK FALSE
