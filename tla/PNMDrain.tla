------------------------------ MODULE PNMDrain ------------------------------
(***************************************************************************)
(* Draining the simulator before the CPU switch, with PNM jobs around:     *)
(* m5.drain() (gem5/src/python/m5/simulate.py), the DrainManager and the   *)
(* Drainable base class (gem5/src/sim/drain.{hh,cc}), the PNM device and   *)
(* the one CPU whose program rings its doorbell.                           *)
(*                                                                         *)
(* The CPU is TimingSimpleCPU (gem5/src/cpu/simple/timing.cc) as far as    *)
(* drains go, and BaseKvmCPU does the same: it is Drained between          *)
(* instructions and Draining while an MMIO store is outstanding, and a     *)
(* store that was outstanding when the drain began still arrives.          *)
(***************************************************************************)
EXTENDS Integers

CONSTANTS
  Doorbells,       \* bound: doorbells the guest program rings
  MaxDrains,       \* bound: calls of m5.drain()
  Overlap,         \* the program may ring while a delay is still running
  JobBytes,        \* src_bytes and dst_bytes of every job
  Modulus, MaxJobBytes, ProcessLatency, BwNum, BwDen, UseDma

ASSUME DrainAssumption ==
  /\ Doorbells \in Nat /\ MaxDrains \in Nat
  /\ Overlap \in BOOLEAN
  /\ JobBytes \in 0 .. Modulus[8] - 1

VARIABLES
  srcBytesReg, dstBytesReg, statusReg, busy, eventIn, bytesProcessed,
  jobsCompleted, dmaRecord, drainState, charged, age, submits, cancels,
  cpu,             \* "idle" or "store": an MMIO store is outstanding
  cpuDrain,        \* the CPU's _drainState
  pos, rung,       \* next store of the doorbell, doorbells rung so far
  count,           \* DrainManager::_count
  managerState,    \* DrainManager::_state
  finished,        \* exitSimLoop("Finished drain") was called
  script,          \* where the configuration script is
  drains           \* bound counter: calls of m5.drain()

Dev == INSTANCE PNMCompactor WITH Values <- {JobBytes}, MaxJobs <- 0

ASSUME DrainDeviceAssumption == Dev!DeviceAssumption

devVars     == <<srcBytesReg, dstBytesReg, statusReg, busy, eventIn,
                 bytesProcessed, jobsCompleted, dmaRecord, drainState,
                 charged, age, submits, cancels>>
cpuVars     == <<cpu, cpuDrain, pos, rung>>
managerVars == <<count, managerState, finished>>
vars == <<devVars, cpuVars, managerVars, script, drains>>

(* The four stores of PNMCompactionService's doorbell.                     *)
Doorbell == << <<Dev!OFF_CMD, Dev!CMD_RESET, 4>>,
               <<Dev!OFF_SRC_BYTES, JobBytes, 8>>,
               <<Dev!OFF_DST_BYTES, JobBytes, 8>>,
               <<Dev!OFF_CMD, Dev!CMD_SUBMIT, 4>> >>

Init ==
  /\ Dev!Init
  /\ cpu = "idle" /\ cpuDrain = "Running"
  /\ pos = 1 /\ rung = 0
  /\ count = 0 /\ managerState = "Running" /\ finished = FALSE
  /\ script = "simulate" /\ drains = 0

-----------------------------------------------------------------------------
(* Drainable::signalDrainDone of an object in drain state s, and the part  *)
(* of it that DrainManager::signalDrainDone does.                          *)
Signalled(s) == IF s = "Draining" THEN "Drained" ELSE s

(* Mutant: the manager counts a signal of an object that is not draining.  *)
ManagerSignalled_Always(s) ==
  /\ count' = count - 1
  /\ finished' = (count = 1 \/ finished)
  /\ UNCHANGED managerState

ManagerSignalled(s) ==
  IF s = "Draining"
  THEN /\ count' = count - 1
       /\ finished' = (count = 1 \/ finished)
       /\ UNCHANGED managerState
  ELSE UNCHANGED managerVars

(* The simulation advances unless m5.drain() is between two calls of       *)
(* simulate().                                                             *)
Simulating == script \in {"simulate", "draining"}

(* The CPU starts the next store, unless it is draining or drained.        *)
Fetch ==
  /\ Simulating
  /\ cpu = "idle" /\ cpuDrain = "Running"
  /\ rung < Doorbells
  /\ pos = 1 => Overlap \/ ~busy
  /\ cpu' = "store"
  /\ UNCHANGED <<devVars, cpuDrain, pos, rung, managerVars, script, drains>>

(* The store takes effect and its instruction ends; tryCompleteDrain then  *)
(* signals the manager.                                                    *)
StoreArrives ==
  /\ Simulating
  /\ cpu = "store"
  /\ LET s == Doorbell[pos] IN Dev!write(s[1], s[2], s[3])
  /\ cpu' = "idle"
  /\ cpuDrain' = Signalled(cpuDrain)
  /\ ManagerSignalled(cpuDrain)
  /\ pos' = (pos % 4) + 1
  /\ rung' = IF pos = 4 THEN rung + 1 ELSE rung
  /\ UNCHANGED <<script, drains>>

DeviceTick ==
  /\ Simulating
  /\ Dev!Tick
  /\ UNCHANGED <<cpuVars, managerVars, script, drains>>

(* Mutant: onComplete forgets signalDrainDone.                             *)
DeviceCompletes_Silent ==
  /\ Simulating
  /\ Dev!onComplete
  /\ UNCHANGED <<cpuVars, managerVars, script, drains>>

DeviceCompletes ==
  /\ Simulating
  /\ Dev!onComplete
  /\ ManagerSignalled(drainState)
  /\ UNCHANGED <<cpuVars, script, drains>>

-----------------------------------------------------------------------------
(* workbegin_handler calls m5.drain().                                     *)
CallDrain ==
  /\ script = "simulate"
  /\ drains < MaxDrains
  /\ script' = "tryDrain"
  /\ drains' = drains + 1
  /\ UNCHANGED <<devVars, cpuVars, managerVars>>

(* DrainManager::tryDrain: dmDrain on the device and on the CPU.           *)
TryDrain ==
  /\ script = "tryDrain"
  /\ Dev!drain
  /\ cpuDrain' = IF cpu = "store" THEN "Draining" ELSE "Drained"
  /\ count' = count + (IF drainState' = "Draining" THEN 1 ELSE 0)
                    + (IF cpuDrain' = "Draining" THEN 1 ELSE 0)
  /\ managerState' = IF count' = 0 THEN "Drained" ELSE "Draining"
  /\ script' = IF count' = 0 THEN "drained" ELSE "draining"
  /\ UNCHANGED <<cpu, pos, rung, finished, drains>>

(* Mutant: m5.drain() takes the first "Finished drain" for a drained       *)
(* system and does not call tryDrain again.                                *)
FinishedDrain_NoRetry ==
  /\ script = "draining" /\ finished
  /\ finished' = FALSE
  /\ script' = "drained"
  /\ UNCHANGED <<devVars, cpuVars, count, managerState, drains>>

(* simulate() returns "Finished drain"; m5.drain() tries again.            *)
FinishedDrain ==
  /\ script = "draining" /\ finished
  /\ finished' = FALSE
  /\ script' = "tryDrain"
  /\ UNCHANGED <<devVars, cpuVars, count, managerState, drains>>

(* switch_processor, then DrainManager::resume before simulation goes on.  *)
SwitchAndResume ==
  /\ script = "drained"
  /\ Dev!drainResume
  /\ cpuDrain' = "Running"
  /\ managerState' = "Running"
  /\ script' = "simulate"
  /\ UNCHANGED <<cpu, pos, rung, count, finished, drains>>

(* The guest computes without touching the device.                         *)
GuestComputes == script = "simulate" /\ UNCHANGED vars

Next ==
  \/ Fetch \/ StoreArrives \/ GuestComputes
  \/ DeviceTick \/ DeviceCompletes
  \/ CallDrain \/ TryDrain \/ FinishedDrain \/ SwitchAndResume

(* gem5's event loop keeps processing events and the script keeps running; *)
(* the guest need not ring and the script need not call m5.drain().        *)
Fairness ==
  /\ WF_vars(StoreArrives) /\ WF_vars(DeviceTick) /\ WF_vars(DeviceCompletes)
  /\ WF_vars(TryDrain) /\ WF_vars(FinishedDrain) /\ WF_vars(SwitchAndResume)

Spec == Init /\ [][Next]_vars /\ Fairness

-----------------------------------------------------------------------------
(* The simulator's drain state has its type.                               *)
DrainTypeOK ==
  /\ Dev!TypeOK
  /\ cpu \in {"idle", "store"}
  /\ cpuDrain \in {"Running", "Draining", "Drained"}
  /\ pos \in 1 .. 4 /\ rung \in 0 .. Doorbells
  /\ count \in 0 .. 2
  /\ managerState \in {"Running", "Draining", "Drained"}
  /\ finished \in BOOLEAN
  /\ script \in {"simulate", "tryDrain", "draining", "drained"}
  /\ drains \in 0 .. MaxDrains

(* The manager's counter is the number of objects that still owe it a      *)
(* signal, so the assertion of signalDrainDone and the panics of tryDrain  *)
(* (a count left over, a system already drained) never trigger.            *)
NoDrainPanic ==
  /\ count = (IF drainState = "Draining" THEN 1 ELSE 0)
             + (IF cpuDrain = "Draining" THEN 1 ELSE 0)
  /\ script = "tryDrain" => count = 0 /\ managerState # "Drained"

(* The CPU switch happens with no completion in flight and no store        *)
(* outstanding, even when a store that was on its way disturbed a device   *)
(* that had already declared itself drained.                               *)
SwitchOnlyWhenIdle ==
  script = "drained" => eventIn = Dev!NotScheduled /\ cpu = "idle"

(* drain.hh:222-226: an object that has finished draining signals the      *)
(* manager, so a drain cycle that was started ends and m5.drain() returns. *)
DrainFinishes == script = "draining" ~> script = "drained"

=============================================================================
