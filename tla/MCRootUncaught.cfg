SPECIFICATION Spec
CONSTANTS
  A = A
  B = B
  Root = {A, B}
  NoRoot = NoRoot
  Lanes = {0, 4}
  UpdateLanes = {0, 4}
  MaxEvents = 5
  MaxNodes = 5
  RenderFaults = {"error"}
  UncaughtErrors = TRUE
  LanesExpire = FALSE
INVARIANTS
  ExistingTaskIsReused
CHECK_DEADLOCK FALSE
