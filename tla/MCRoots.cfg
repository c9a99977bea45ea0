SPECIFICATION InstancesSpec
CONSTANTS
  A = A
  B = B
  Root = {A, B}
  NoRoot = NoRoot
  Lanes = {0, 4, 6, 7, 22}
  UpdateLanes = {0, 4, 6, 7}
  MaxEvents = 5
  MaxNodes = 5
  RenderFaults = {"suspend", "suspendInShell", "error", "fatal", "store"}
  UncaughtErrors = TRUE
  LanesExpire = TRUE
INVARIANTS
  TypeOK
  RootIsScheduled
  RecordedTaskIsLive
  SuspendedLanesWake
  PassiveEffectsAreScheduled
  LaneSetsAgree
  TimerHasFinishedWork
PROPERTIES
  EffectsPrecedeRender
  ImplementsUpdates
CHECK_DEADLOCK FALSE
