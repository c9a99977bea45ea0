SPECIFICATION Spec
CONSTANTS
  A = A
  B = B
  Root = {A}
  NoRoot = NoRoot
  Lanes = {6, 7, 8}
  UpdateLanes = {6, 7, 8}
  MaxEvents = 5
  MaxNodes = 5
  RenderFaults = {"suspend"}
  UncaughtErrors = FALSE
  LanesExpire = FALSE
PROPERTIES
  EntangledLanesRenderTogether
CHECK_DEADLOCK FALSE
