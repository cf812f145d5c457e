SPECIFICATION LiveSpec
CONSTANTS
  t1 = t1
  t2 = t2
  c1 = c1
  c2 = c2
  slot = slot
  Task = {t1}
  Last = 2
  Gate = 0
  Evidence = {}
  Debug = 0
  Download = 0
  Evaluate = 0
  Resource = {slot}
  Uses <- AllUse
  Capacity <- OneSlot
  Remote = {2}
  Ssh = {2}
  Budget <- FullBudget
  Reports <- NoApi
  MaxTries = 2
  Ctl = {c1}
  CtlMayDie = FALSE
  StoreFaults = FALSE
INVARIANTS
  TypeOK
  SuccessBacked
  ResourceExclusion
PROPERTIES
  ExpiredIsSettled
CHECK_DEADLOCK FALSE
