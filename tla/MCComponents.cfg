SPECIFICATION ComponentsSpec
VIEW ActiveState
CONSTANTS
  Position <- MCPosition
  Root = "root"
  Return <- MCReturn
  Ancestors <- MCAncestors
  Lanes = {1, 2}
  Provider = "a"
  Consumers = {"c"}
  MaxUpdates = 3
  MaxValues = 1
  QueueKinds = {"class", "hook"}
  UpdateLanes = {1, 2}
  UpdateActions = {"append", "reset"}
  MaxQueued = 3
  Deps = {1, 2}
  MaxCreates = 4
  Components = {"x", "y"}
  Values = {0, 1, 2}
  Getters <- MCGetters
  GetSnapshot <- MCGetSnapshot
  MaxChanges = 2
  Path <- MCPath
  Container = "c"
  EventKinds = {"mouse", "focus"}
  Priorities = {0, 1, 4}
  MaxEvents = 3
  Null = "null"
  Ids = {1, 2, 3, 4, 5}
  SortIndexes = {1, 2, 3}
  None = "null"
  Programs <- ModelPrograms
  MaxItems = 8
  MaxHitches = 2
  Resources = {"r", "s"}
  Keys = {"a", "b"}
  Limits = {0, 1, 2, 3}
  NoEntry = "null"
  ChildKeys <- MCChildKeys
  ChildTypes <- MCChildTypes
  ChildInputs <- MCChildInputs
  PageComponents = {"n", "m", "k"}
  Boundaries = {"p", "q"}
  Pages <- RenderedPages
  MaxDelays = 1
INVARIANTS
  UpdatesReachRoot
  BatchIsRenderedWhole
  ConsumersAgree
  FinalStateIsDeterministic
  CallbacksAreCalledOnce
  HookIsUpToDate
  HostNodesFollowElements
  InstancesFollowKeys
  EffectsAlternate
  EffectsMatchScreen
  StaleIsRepaired
  NothingStalls
  RevealedIsWhole
  WaitersAreServed
  ClosesWhenAllIsSent
  BlockedIsRetried
PROPERTIES
  ShownStays
  NoTearing
  BoundariesAreResolvedOnce
  HeapImplementsQueue
  CacheImplementsRecency
CHECK_DEADLOCK FALSE
