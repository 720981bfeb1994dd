SPECIFICATION Spec
CONSTANTS
  j1 = j1
  j2 = j2
  Jobs = {j1, j2}
  NoJob = NoJob
  MaxConcurrent = 1
  Sizes = {5}
  Faults = {}
  MmioModes <- Together
  Modulus <- MCModulus
  MaxJobBytes = 5
  ProcessLatency = 1
  BwNum = 1
  BwDen = 2
  UseDma = TRUE
INVARIANT WaitAfterDelay
