SPECIFICATION Spec
CONSTANTS
  Slots <- MCSlots
  Keys <- MCKeys
  SlotOf <- MCSlotOf
  Many <- MCMany
  Scenarios <- MCScenarios
  Picked = {"revote"}
CHECK_DEADLOCK FALSE
INVARIANT ElectionSafety
