SPECIFICATION InputsSpec
CONSTANTS
  Candidates = {c1, c2}
  c1 = c1
  c2 = c2
  LostOf <- OneLost
  MaxRetries = 1
SYMMETRY Symmetry
INVARIANTS
  InputsTypeOK
  RightInputs
  ChainFits
CHECK_DEADLOCK FALSE
