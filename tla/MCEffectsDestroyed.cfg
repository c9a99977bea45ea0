SPECIFICATION EffectsSpec
CONSTANTS
  Deps = {1, 2}
  MaxCreates = 4
INVARIANT
  LayoutIsDestroyedFirst
CHECK_DEADLOCK FALSE
