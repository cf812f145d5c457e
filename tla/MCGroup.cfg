SPECIFICATION Spec
CONSTANTS
  t1 = t1
  w1 = w1
  w2 = w2
  Task = {t1}
  TheTask = t1
  Last = 3
  Gate = 2
  Evidence = {}
  Debug = 0
  Download = 0
  Evaluate = 0
  Count = 2
  Groups = 2
  Tries = 4
  Budget = 2
  Slots = 2
  Worker = {w1, w2}
  Modes = {"manual", "automatic"}
  ServesGate = FALSE
  MayExpire = TRUE
INVARIANTS
  CandidateExclusive
  ReviewSound
PROPERTIES
  ImagesKept
CHECK_DEADLOCK FALSE
