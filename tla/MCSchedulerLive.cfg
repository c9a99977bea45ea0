SPECIFICATION FairSpec
CONSTANTS
  MaxTasks = 2
  MaxTime = 2
  MaxTimeouts = 4
  Delays = {0, 1}
  Priorities = {1, 3}
  Timeout <- MCTimeout
  FrameIntervals = {1}
  EnableSchedulerDebugging = FALSE
PROPERTIES
  NoStarvation
  WindsDown
CHECK_DEADLOCK FALSE
