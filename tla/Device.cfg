SPECIFICATION Spec
CONSTANTS
  Modulus <- MCModulus
  MaxJobBytes = 9
  ProcessLatency = 1
  BwNum = 1
  BwDen = 4
  UseDma = TRUE
  Values = {0, 1, 2, 9, 15}
  MaxJobs = 2
INVARIANTS
  EventIffBusy
  ExactDelay
  JobConservation
  RecordIsCurrent
PROPERTIES
  ImplementsEngine
  JobEnds
