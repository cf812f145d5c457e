SPECIFICATION Spec
CONSTANTS
  MaxAttempts <- MCMaxAttempts
  Platforms <- BothPlatforms
  StoreFaults <- Windows
  SlowStart = FALSE
  LeaseDies = FALSE
INVARIANTS
  TypeOK
  OneUnity
  SucceededAtRest
PROPERTIES
  ReleasedDead
CHECK_DEADLOCK FALSE
