SPECIFICATION Spec
CONSTANTS
  t1 = t1
  t2 = t2
  c1 = c1
  c2 = c2
  slot = slot
  Task = {t1}
  Last = 1
  Gate = 0
  Evidence = {}
  Debug = 0
  Download = 0
  Evaluate = 0
  Resource = {slot}
  Uses <- AllUse
  Capacity <- TwoSlots
  Remote = {}
  Ssh = {}
  Budget <- FullBudget
  Reports <- AllFailures
  MaxTries = 2
  Ctl = {c1, c2}
  CtlMayDie = TRUE
  StoreFaults = FALSE
INVARIANTS
  SucceededIffCommitted
PROPERTIES
  CommitIsFinal
  FencedSpec
CHECK_DEADLOCK FALSE
