SPECIFICATION Spec
CONSTANTS
  Scenarios <- MCScenarios
  Links = {1, 2, 3}
  Picked = {"switched"}
CHECK_DEADLOCK FALSE
INVARIANT CatchUp
