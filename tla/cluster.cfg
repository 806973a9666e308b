SPECIFICATION Spec
CONSTANTS
  Slots <- MCSlots
  Keys <- MCKeys
  SlotOf <- MCSlotOf
  Many <- MCMany
  Scenarios <- MCScenarios
  Picked = {"unheard", "moved", "election", "detect", "reshard", "resharded", "manual", "forced", "orphan", "restart", "join", "admin", "converge"}
CHECK_DEADLOCK FALSE
INVARIANTS NoDanglingNode ElectionSafety FailNeedsMajority FreshRead
PROPERTY BarrierKept
