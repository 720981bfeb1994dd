--------------------------- MODULE PNMSimulation ---------------------------
(***************************************************************************)
(* One experiment: configs/yonsei/run_pnm.py on the host, the shell script *)
(* it hands to the guest, and the PNM device.  The script loads the kernel *)
(* module, marks the region of interest (ROI) with m5 operations and runs  *)
(* rocksdb_pnm inside it.  At the start of the ROI the host either         *)
(* switches CPUs, or saves a checkpoint and stops, and a second gem5       *)
(* process restores the checkpoint and runs the ROI.                       *)
(*                                                                         *)
(* PNMCompactor serializes nothing: its registers, its completion event    *)
(* and its statistics start afresh in the second process.  The record at   *)
(* dma_addr is guest memory and comes back with the checkpoint.  The two   *)
(* counter registers are statistics, which m5 resetstats sets to zero.     *)
(*                                                                         *)
(* rocksdb_pnm is the jobs it sends to its worker, any number of them at a *)
(* time, and their doorbells, four stores each; the worker, another        *)
(* process, answers a job after a poll or without one, whether or not the  *)
(* job's doorbell was rung.  The program ends when each job it sent was    *)
(* rung for and answered, which need not be when the device is idle.       *)
(***************************************************************************)
EXTENDS Integers, Sequences

CONSTANTS
  Doorbells,       \* bound: jobs rocksdb_pnm submits
  JobBytes,        \* src_bytes and dst_bytes of every job
  Modulus, MaxJobBytes, ProcessLatency, BwNum, BwDen, UseDma

ASSUME SimulationAssumption ==
  /\ Doorbells \in Nat
  /\ JobBytes \in 0 .. Modulus[8] - 1
  /\ JobBytes <= MaxJobBytes

VARIABLES
  srcBytesReg, dstBytesReg, statusReg, busy, eventIn, bytesProcessed,
  jobsCompleted, dmaRecord, drainState, charged, age, submits, cancels,
  mode,            \* PNM_BOOT_CPU and PNM_SAVE_CHECKPOINT of the first process
  process,         \* 1, or 2: the one started with PNM_RESTORE_CHECKPOINT
  host,            \* "simulate", "workbegin", "drained" or "stopped"
  cpu,             \* the type of the CPUs that execute
  line,            \* the guest script's next line
  node,            \* /dev/pnm exists
  sent, answered,  \* jobs sent to the worker, and answered by it
  pos, rung,       \* next store of a doorbell, doorbells rung
  ckpt,            \* the checkpoint directory
  dumped           \* job counts written by m5 dumpresetstats

Dev == INSTANCE PNMCompactor WITH Values <- {JobBytes}, MaxJobs <- 0

ASSUME SimulationDeviceAssumption == Dev!DeviceAssumption

registers == <<srcBytesReg, dstBytesReg, statusReg, busy, eventIn>>
devVars   == <<registers, bytesProcessed, jobsCompleted, dmaRecord,
               drainState, charged, age, submits, cancels>>
hostVars  == <<mode, process, host, cpu, ckpt>>
program   == <<sent, answered, pos, rung>>
guestVars == <<line, node, program>>
vars == <<devVars, hostVars, guestVars, dumped>>

NoCheckpoint == [line |-> 0, node |-> FALSE, record |-> Dev!ResultRecord(0, 0)]

(* Mutant: the statistics are reset after the benchmark instead of before  *)
(* the ROI.                                                                *)
Script_ResetsLate == <<"insmod", "workbegin", "rocksdb_pnm", "resetstats",
                       "workend", "dumpresetstats", "exit">>

(* The lines of readfile_script that matter to gem5.                       *)
Script == <<"insmod", "resetstats", "workbegin", "rocksdb_pnm", "workend",
            "dumpresetstats", "exit">>

(* Switching from the atomic CPU to TIMING stops gem5 (run_pnm.py:57-58),  *)
(* so the atomic CPU is used with a checkpoint only.                       *)
Modes == {[boot |-> "KVM", save |-> FALSE], [boot |-> "KVM", save |-> TRUE],
          [boot |-> "ATOMIC", save |-> TRUE]}

(* Mutant: starting_core_type ignores PNM_RESTORE_CHECKPOINT.              *)
StartingCoreType_BootCpu(p) == mode.boot

StartingCoreType(p) == IF p = 2 THEN "TIMING" ELSE mode.boot

Init ==
  /\ Dev!Init
  /\ mode \in Modes
  /\ process = 1 /\ host = "simulate" /\ cpu = StartingCoreType(1)
  /\ line = 1 /\ node = FALSE
  /\ sent = 0 /\ answered = 0 /\ pos = 1 /\ rung = 0
  /\ ckpt = NoCheckpoint
  /\ dumped = <<>>

-----------------------------------------------------------------------------
(* The guest's script.                                                     *)
At(l) == host = "simulate" /\ line <= Len(Script) /\ Script[line] = l

(* Mutant: loading the module stores to the device to see if it answers.   *)
Insmod_Probes ==
  /\ At("insmod")
  /\ node' \in BOOLEAN
  /\ line' = line + 1
  /\ Dev!write(Dev!OFF_SRC_BYTES, JobBytes, 8)
  /\ UNCHANGED <<hostVars, program, dumped>>

(* insmod creates /dev/pnm or fails; it only maps and claims the region.   *)
Insmod ==
  /\ At("insmod")
  /\ node' \in BOOLEAN
  /\ line' = line + 1
  /\ UNCHANGED <<devVars, hostVars, program, dumped>>

StatisticsToZero ==
  /\ bytesProcessed' = 0 /\ jobsCompleted' = 0
  /\ UNCHANGED <<registers, dmaRecord, drainState, charged, age, submits,
                 cancels>>

ResetStats ==
  /\ At("resetstats")
  /\ StatisticsToZero
  /\ line' = line + 1
  /\ UNCHANGED <<hostVars, node, program, dumped>>

(* m5 workbegin leaves the simulation loop.                                *)
WorkBegin ==
  /\ At("workbegin")
  /\ line' = line + 1
  /\ host' = "workbegin"
  /\ UNCHANGED <<devVars, mode, process, cpu, ckpt, node, program, dumped>>

(* Schedule sends the job; only then does it ring, if /dev/pnm is there.   *)
SendJob ==
  /\ At("rocksdb_pnm")
  /\ node /\ sent < Doorbells
  /\ sent' = sent + 1
  /\ UNCHANGED <<devVars, hostVars, line, node, answered, pos, rung, dumped>>

(* The stores of one job's doorbell, under mmio_mutex_.                    *)
Store ==
  /\ At("rocksdb_pnm")
  /\ rung < sent
  /\ LET s == << <<Dev!OFF_CMD, Dev!CMD_RESET, 4>>,
                 <<Dev!OFF_SRC_BYTES, JobBytes, 8>>,
                 <<Dev!OFF_DST_BYTES, JobBytes, 8>>,
                 <<Dev!OFF_CMD, Dev!CMD_SUBMIT, 4>> >>[pos]
     IN  Dev!write(s[1], s[2], s[3])
  /\ pos' = (pos % 4) + 1
  /\ rung' = IF pos = 4 THEN rung + 1 ELSE rung
  /\ UNCHANGED <<hostVars, line, node, sent, answered, dumped>>

(* The worker's poll ends with whatever job STATUS speaks of; one that     *)
(* finds the device busy or idle changes nothing.                          *)
PollDone ==
  /\ At("rocksdb_pnm")
  /\ answered < sent
  /\ Dev!read(Dev!OFF_STATUS, 4) \in {Dev!STATUS_DONE, Dev!STATUS_ERROR}
  /\ answered' = answered + 1
  /\ UNCHANGED <<devVars, hostVars, line, node, sent, pos, rung, dumped>>

(* A failed job is answered without a poll; so is each job of a worker     *)
(* that has not mapped the device, and a lost worker answers by its end.   *)
AnswerUnpolled ==
  /\ At("rocksdb_pnm")
  /\ answered < sent
  /\ answered' = answered + 1
  /\ UNCHANGED <<devVars, hostVars, line, node, sent, pos, rung, dumped>>

(* waitforcompaction: no job is under way.                                 *)
ProgramEnds ==
  /\ At("rocksdb_pnm")
  /\ rung = sent /\ answered = sent
  /\ line' = line + 1
  /\ UNCHANGED <<devVars, hostVars, node, program, dumped>>

(* workend_handler yields False: the simulation goes on.                   *)
WorkEnd ==
  /\ At("workend")
  /\ line' = line + 1
  /\ UNCHANGED <<devVars, hostVars, node, program, dumped>>

DumpResetStats ==
  /\ At("dumpresetstats")
  /\ dumped' = Append(dumped, jobsCompleted)
  /\ StatisticsToZero
  /\ line' = line + 1
  /\ UNCHANGED <<hostVars, node, program>>

(* exit_handler yields True: simulator.run() returns.                      *)
Exit ==
  /\ At("exit")
  /\ host' = "stopped"
  /\ line' = line + 1
  /\ UNCHANGED <<devVars, mode, process, cpu, ckpt, node, program, dumped>>

Guest == \/ Insmod \/ ResetStats \/ WorkBegin \/ SendJob \/ Store
         \/ ProgramEnds \/ WorkEnd \/ DumpResetStats \/ Exit

-----------------------------------------------------------------------------
(* The simulator.                                                          *)
DeviceTick ==
  /\ host = "simulate"
  /\ Dev!Tick
  /\ UNCHANGED <<hostVars, guestVars, dumped>>

DeviceCompletes ==
  /\ host = "simulate"
  /\ Dev!onComplete
  /\ UNCHANGED <<hostVars, guestVars, dumped>>

(* Both branches of workbegin_handler drain the system first: m5.drain(),  *)
(* or m5.checkpoint(), which calls it.                                     *)
Drain ==
  /\ host = "workbegin"
  /\ Dev!drain
  /\ drainState' = "Drained"
  /\ host' = "drained"
  /\ UNCHANGED <<mode, process, cpu, ckpt, guestVars, dumped>>

(* m5.checkpoint() serializes the guest; the handler then yields True.     *)
SaveCheckpoint ==
  /\ host = "drained" /\ mode.save
  /\ ckpt' = [line |-> line, node |-> node, record |-> dmaRecord]
  /\ host' = "stopped"
  /\ UNCHANGED <<devVars, mode, process, cpu, guestVars, dumped>>

(* Mutant: the handler yields True after the switch.                       *)
SwitchProcessor_Stops ==
  /\ host = "drained" /\ ~mode.save
  /\ Dev!drainResume
  /\ cpu' = "TIMING"
  /\ host' = "stopped"
  /\ UNCHANGED <<mode, process, ckpt, guestVars, dumped>>

(* switch_processor(), yield False; the next simulate() resumes.           *)
SwitchProcessor ==
  /\ host = "drained" /\ ~mode.save
  /\ Dev!drainResume
  /\ cpu' = "TIMING"
  /\ host' = "simulate"
  /\ UNCHANGED <<mode, process, ckpt, guestVars, dumped>>

(* The second process: a new device, the guest of the checkpoint, TIMING   *)
(* CPUs from the start.                                                    *)
Restore ==
  /\ host = "stopped" /\ process = 1 /\ ckpt # NoCheckpoint
  /\ process' = 2
  /\ srcBytesReg' = 0 /\ dstBytesReg' = 0
  /\ statusReg' = Dev!STATUS_IDLE /\ busy' = FALSE
  /\ eventIn' = Dev!NotScheduled
  /\ bytesProcessed' = 0 /\ jobsCompleted' = 0
  /\ dmaRecord' = ckpt.record
  /\ drainState' = "Running"
  /\ charged' = 0 /\ age' = 0
  /\ cpu' = StartingCoreType(2)
  /\ line' = ckpt.line /\ node' = ckpt.node
  /\ host' = "simulate"
  /\ UNCHANGED <<submits, cancels, mode, ckpt, program, dumped>>

Next == \/ Guest \/ PollDone \/ AnswerUnpolled
        \/ DeviceTick \/ DeviceCompletes
        \/ Drain \/ SaveCheckpoint \/ SwitchProcessor \/ Restore

(* gem5 keeps simulating until a handler yields True, the benchmark is     *)
(* finite, the worker's poll loop runs, and the user runs the second       *)
(* command of the script's usage.                                          *)
Fairness == /\ WF_vars(Guest) /\ WF_vars(PollDone)
            /\ WF_vars(DeviceTick) /\ WF_vars(DeviceCompletes)
            /\ WF_vars(Drain) /\ WF_vars(SaveCheckpoint)
            /\ WF_vars(SwitchProcessor) /\ WF_vars(Restore)

Spec == Init /\ [][Next]_vars /\ Fairness

-----------------------------------------------------------------------------
(* run_pnm.py:56-57: the benchmark executes on the TIMING CPU, whichever   *)
(* CPU booted and whether the process switched or restored.                *)
RoiOnTiming == submits > 0 => cpu = "TIMING"

(* run_pnm.py:183-188: although PNMCompactor serializes nothing, the       *)
(* restored device is in the state the saved one was in.                   *)
RestoresDevice ==
  [][process' # process =>
       <<registers, bytesProcessed, jobsCompleted, dmaRecord>>'
         = <<registers, bytesProcessed, jobsCompleted, dmaRecord>>]_vars

(* run_pnm.py:125-149: the statistics are written when the program has     *)
(* ended, which does not wait for the device.  Still they count each job   *)
(* that was submitted in the ROI, except those a later doorbell cut off    *)
(* and at most one, the last, whose delay was still running.               *)
DumpConserves ==
  dumped # <<>> =>
    LET late == jobsCompleted + (IF busy THEN 1 ELSE 0)
    IN  dumped[1] + late = submits - cancels /\ late <= 1

(* run_pnm.py:125-150: in each of the three modelled ways of running it    *)
(* the experiment reaches its m5 exit with one set of statistics written.  *)
RunFinishes == <>[](host = "stopped" /\ Len(dumped) = 1)
=============================================================================
