SPECIFICATION Spec
CONSTANTS
  j1 = j1
  j2 = j2
  Jobs = {j1, j2}
  FlushThread = FlushThread
  NoJob = NoJob
  Concurrency = {1, 2}
  MaxOutputs = 2
  MaxFlushes = 1
  Faults = {"catchup", "compact", "crash", "result", "rename"}
SYMMETRY JobSymmetry
INVARIANTS
  StagingTypeOK
  InstalledOwnAlone
  DistinctIds
  NoOrphans
  PurgeSparesPending
PROPERTY AtomicInstall
