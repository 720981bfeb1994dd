SPECIFICATION ModuleSpec
CONSTANTS
  Processes = {service, worker, other}
  MaxPages = 2
  MaxLoads = 3
CHECK_DEADLOCK FALSE
INVARIANTS
  NothingLeaked
  ReverseOrder
