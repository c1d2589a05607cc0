SPECIFICATION Spec
CONSTANTS
  Second  = 2
  MaxTime = 12
  Start   = 3
INVARIANTS
  AverageRate
  NoBurstOfThree
CHECK_DEADLOCK FALSE
