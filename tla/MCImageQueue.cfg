SPECIFICATION Spec
CONSTANTS
  p1 = p1
  p2 = p2
  i1 = i1
  i2 = i2
  i3 = i3
  Process = {p1, p2}
  Image = {i1, i2}
  Tries = 2
  Limits <- TwoManifests
  Window = 1
  LeaseLoss = TRUE
  StoreFaults = FALSE
  CutAnswers = FALSE
SYMMETRY Interchangeable
INVARIANTS
  TypeOK
  OneController
  WithinQuota
  BilledOnce
CHECK_DEADLOCK FALSE
