SPECIFICATION Spec
CONSTANTS
  j1 = j1
  j2 = j2
  Jobs = {j1, j2}
  NoJob = NoJob
  MaxConcurrent = 2
  Sizes = {5, 7}
  Faults = {"bind", "connect", "send", "recv", "secondary", "compact", "crash", "result", "rename"}
  MmioModes <- EveryMode
  Modulus <- MCModulus
  MaxJobBytes = 5
  ProcessLatency = 1
  BwNum = 1
  BwDen = 2
  UseDma = TRUE
INVARIANTS
  ChargedForOwner
  PollSeesOwnDelay
  BytesAccounted
PROPERTIES
  JobsFinish
  DelayResolved
