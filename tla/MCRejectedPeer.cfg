SPECIFICATION Spec
CONSTANTS
  t1 = t1
  t2 = t2
  Task = {t1, t2}
  Last = 5
  Gate = 2
  Evidence = {3}
  Debug = 0
  Download = 0
  Evaluate = 5
  Remote = {3}
  Slots = 1
  Served = {1, 3, 4}
  Budget <- Single
  MaxTries <- Once
  MaxParallel = 1
  Outcome <- Smooth
  Ops = {}
  MaxCrashes = 0
  SameBytes = FALSE
INVARIANTS
  IncompleteBatchEnds
CHECK_DEADLOCK FALSE
