SPECIFICATION Spec
CONSTANTS
  Scenarios <- MCScenarios
  dbnum = 2
  Picked = {"always", "everysec", "rewrite", "synced", "onoff", "refused", "turned", "dump", "both", "strict"}
CHECK_DEADLOCK FALSE
INVARIANTS AofPrefix AckDurable 
