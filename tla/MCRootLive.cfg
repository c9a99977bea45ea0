SPECIFICATION OneRootSpec
CONSTANTS
  A = A
  B = B
  Root = {A}
  NoRoot = NoRoot
  Lanes = {0, 6, 22}
  UpdateLanes = {0, 6}
  MaxEvents = 3
  MaxNodes = 3
  RenderFaults = {"suspend", "suspendInShell", "error"}
  UncaughtErrors = TRUE
  LanesExpire = FALSE
PROPERTIES
  EveryUpdateIsCommitted
CHECK_DEADLOCK FALSE
