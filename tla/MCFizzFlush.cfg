SPECIFICATION FizzSpec
CONSTANTS
  PageComponents = {"n", "m", "k"}
  Boundaries = {"p", "q"}
  Pages <- RenderedPages
  MaxDelays = 1
INVARIANTS
  NoBugInReact
CHECK_DEADLOCK FALSE
