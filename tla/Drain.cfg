SPECIFICATION Spec
CONSTANTS
  Doorbells = 3
  MaxDrains = 3
  Overlap = FALSE
  JobBytes = 3
  Modulus <- MCModulus
  MaxJobBytes = 5
  ProcessLatency = 1
  BwNum = 1
  BwDen = 4
  UseDma = TRUE
INVARIANTS
  NoDrainPanic
  SwitchOnlyWhenIdle
PROPERTY DrainFinishes
