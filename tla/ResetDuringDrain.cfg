SPECIFICATION Spec
CONSTANTS
  Doorbells = 2
  MaxDrains = 1
  Overlap = TRUE
  JobBytes = 3
  Modulus <- MCModulus
  MaxJobBytes = 5
  ProcessLatency = 1
  BwNum = 1
  BwDen = 4
  UseDma = TRUE
CHECK_DEADLOCK FALSE
PROPERTY DrainFinishes
