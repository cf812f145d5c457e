SPECIFICATION Spec
CONSTANTS
  o1 = o1
  o2 = o2
  wrapper = wrapper
  Wrapper = wrapper
  Operator = {o1, o2}
  Tries = 2
  LateStart = FALSE
  Orphans = FALSE
  SlowProbe = FALSE
  Refusable = {"succeeded", "failed"}
SYMMETRY Commands
INVARIANTS
  TypeOK
PROPERTIES
  ResultNotDiscarded
  SlotSpec
CHECK_DEADLOCK FALSE
