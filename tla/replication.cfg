SPECIFICATION Spec
CONSTANTS
  Scenarios <- MCScenarios
  Links = {1, 2, 3}
  Picked = {"partial", "full", "stale", "diskless", "scripts", "waits", "chain", "admin", "hands"}
CHECK_DEADLOCK FALSE
INVARIANTS CatchUp OffsetAgree WaitSound
