SPECIFICATION Spec
CONSTANTS
  j1 = j1
  j2 = j2
  Jobs = {j1, j2}
  FlushThread = FlushThread
  NoJob = NoJob
  Concurrency = {2}
  MaxOutputs = 2
  MaxFlushes = 0
  Faults = {}
INVARIANT
  InstalledOwn
