SPECIFICATION Spec
CONSTANTS
  Doorbells = 3
  JobBytes = 3
  Modulus <- MCModulus
  MaxJobBytes = 5
  ProcessLatency = 1
  BwNum = 1
  BwDen = 2
  UseDma = TRUE
CHECK_DEADLOCK FALSE
INVARIANTS
  RoiOnTiming
  DumpConserves
PROPERTIES
  RestoresDevice
  RunFinishes
