SPECIFICATION LiveSpec
CONSTANTS
  t1 = t1
  t2 = t2
  c1 = c1
  c2 = c2
  o1 = o1
  o2 = o2
  Nobody = Nobody
  Task = {t1, t2}
  Repeats = 1
  Setting <- Models
  Output = {o1, o2}
  Invocation <- Calls
  Command = {c1, c2}
  Retries = 1
  MaxStarts = 3
  StoreFaults = FALSE
  Drifts = TRUE
INVARIANTS
  TypeOK
  PaidOnce
  FinalizedScored
PROPERTIES
  EvaluationEnds
CHECK_DEADLOCK FALSE
