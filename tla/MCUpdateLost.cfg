SPECIFICATION QueueSpec
CONSTANTS
  QueueKinds = {"class", "hook"}
  UpdateLanes = {1, 2}
  UpdateActions = {"append", "reset"}
  MaxQueued = 2
INVARIANT
  InterleavedLanesRemain
CHECK_DEADLOCK FALSE
