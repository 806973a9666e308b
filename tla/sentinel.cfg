SPECIFICATION Spec
CONSTANTS
  Scenarios <- MCScenarios
  Picked = {"elect", "suspect", "ahead", "failover", "fixed", "stuck", "tilt", "admin"}
CHECK_DEADLOCK FALSE
INVARIANTS LeaderUnique ConfigAgree PromotedLinked
PROPERTY VoteDurable
