SPECIFICATION FlightSpec
CONSTANTS
  Programs <- Symbols
  MaxItems = 2
  MaxHitches = 1
INVARIANTS
  SymbolsComeFirst
CHECK_DEADLOCK FALSE
