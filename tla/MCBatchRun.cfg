SPECIFICATION LiveSpec
CONSTANTS
  t1 = t1
  t2 = t2
  Task = {t1, t2}
  Last = 5
  Gate = 2
  Evidence = {3}
  Debug = 0
  Download = 0
  Evaluate = 5
  Remote = {3}
  Slots = 1
  Served = {1, 3, 4}
  Budget <- Attempts
  MaxTries <- OneMore
  MaxParallel = 2
  Outcome <- Mishaps
  Ops = {"resume", "cancel", "retry"}
  MaxCrashes = 1
  SameBytes = FALSE
INVARIANTS
  TypeOK
  ScoredTogether
  OutputKept
PROPERTIES
  NeverRepeated
  BatchSettles
CHECK_DEADLOCK FALSE
