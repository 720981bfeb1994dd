SPECIFICATION Spec
CONSTANTS
  MaxRuns = 3
  Faults = {"readlink", "fork", "exec", "socket", "listen", "accept", "kill"}
CHECK_DEADLOCK FALSE
INVARIANTS
  OwnWorkerServes
  LeftoverSocketHarmless
PROPERTIES
  RunEnds
  OwnOnceListening
