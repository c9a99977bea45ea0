SPECIFICATION Spec
CONSTANTS
  A = A
  B = B
  Root = {A}
  NoRoot = NoRoot
  Lanes = {0, 4, 6}
  UpdateLanes = {0, 4, 6}
  MaxEvents = 4
  MaxNodes = 5
  RenderFaults = {"suspend", "suspendInShell", "store"}
  UncaughtErrors = FALSE
  LanesExpire = FALSE
INVARIANTS
  ExitStatusIsKnown
CHECK_DEADLOCK FALSE
