--------------------------- MODULE PNMGuestProofs ---------------------------
(***************************************************************************)
(* Proofs about what the guest's script starts with and what it measures:  *)
(* the driver that insmod loads (PNMModule), for any number of processes   *)
(* and loads, and the experiment around it (PNMSimulation), for any number *)
(* of jobs and the three modelled ways to run it.  The two share no state. *)
(***************************************************************************)
EXTENDS PNMModule, PNMSimulation, TLAPS

-----------------------------------------------------------------------------
(* The driver.                                                             *)

(* What pnm_init and pnm_exit have registered at each of their points.     *)
HeldAt ==
  /\ pc \in {"out", "alloc_chrdev_region"} => held = {}
  /\ pc \in {"cdev_add", "err_chrdev", "unregister"} => held = {"region"}
  /\ pc \in {"class_create", "err_cdev", "cdev_del"}
       => held = {"region", "cdev"}
  /\ pc \in {"device_create", "err_class", "class_destroy"}
       => held = {"region", "cdev", "class"}
  /\ pc \in {"in", "device_destroy"} => held = Resources

(* Only a loaded driver has users.                                         *)
UsersIn == pc # "in" => files = {} /\ \A p \in Processes : maps[p] = {}

(* The inductive invariant: where the code is says what is registered.     *)
ModuleInv == ModuleTypeOK /\ HeldAt /\ UsersIn

(* pnm_init and pnm_exit start from a kernel that knows nothing of the     *)
(* driver.                                                                 *)
LEMMA ModuleInitInv == ModuleInit => ModuleInv
  BY ModuleAssumption DEF ModuleInit, ModuleInv, ModuleTypeOK, HeldAt, UsersIn, Resources

(* Each registration, each undo and each call of a process keeps it.       *)
LEMMA ModuleNextInv == ModuleInv /\ [ModuleNext]_moduleVars => ModuleInv'
<1> SUFFICES ASSUME ModuleInv, [ModuleNext]_moduleVars PROVE ModuleInv'
  OBVIOUS
<1> USE ModuleAssumption DEF ModuleInv, ModuleTypeOK, HeldAt, UsersIn
<1>1. CASE LoadModule
  BY <1>1 DEF LoadModule, users
<1>2. CASE Register
  BY <1>2 DEF Register, Acquire, users, Resources
<1>3. CASE Unwind
  BY <1>3 DEF Unwind, Release, users, Resources
<1>4. CASE Rmmod
  BY <1>4 DEF Rmmod, users
<1>5. CASE pnm_exit
  BY <1>5 DEF pnm_exit, Release, users, Resources
<1>6. ASSUME NEW p \in Processes, Open(p) \/ Close(p) \/ Unmap(p)
      PROVE  ModuleInv'
  BY <1>6 DEF Open, Close, Unmap
<1>7. ASSUME NEW p \in Processes, NEW pgoff \in 0 .. 1,
             NEW size \in 1 .. MaxPages, pnm_mmap(p, pgoff, size)
      PROVE  ModuleInv'
  <2>1. size <= 1 => 0 .. size - 1 \in SUBSET {0}
    OBVIOUS
  <2>2. maps' \in [Processes -> SUBSET {0}]
    BY <1>7, <2>1 DEF pnm_mmap
  <2>3. pc = "in"
    BY <1>7 DEF pnm_mmap
  <2> QED
    BY <1>7, <2>2, <2>3 DEF pnm_mmap
<1>8. CASE UNCHANGED moduleVars
  BY <1>8 DEF moduleVars
<1> QED
  BY <1>1, <1>2, <1>3, <1>4, <1>5, <1>6, <1>7, <1>8 DEF ModuleNext

(* pnm_module.c: the driver's state keeps its type, and no mapping is      *)
(* larger than the device's page, for every number of processes.           *)
THEOREM ModuleTypeCorrect == ModuleSpec => []ModuleTypeOK
  BY ModuleInitInv, ModuleNextInv, PTL DEF ModuleSpec, ModuleInv

(* pnm_module.c:61-114: a failed load and an unload leave nothing          *)
(* registered, and a loaded driver has everything.                         *)
THEOREM ModuleNothingLeaked == ModuleSpec => []NothingLeaked
<1>1. ModuleInv => NothingLeaked
  BY DEF ModuleInv, HeldAt, NothingLeaked
<1> QED
  BY <1>1, ModuleInitInv, ModuleNextInv, PTL DEF ModuleSpec

(* pnm_module.c:60-112: /dev/pnm is visible only while all of the driver   *)
(* is registered, and the cdev never outlives its number.                  *)
THEOREM ModuleReverseOrder == ModuleSpec => []ReverseOrder
<1>1. ModuleInv => ReverseOrder
  BY DEF ModuleInv, ModuleTypeOK, HeldAt, ReverseOrder, Resources
<1> QED
  BY <1>1, ModuleInitInv, ModuleNextInv, PTL DEF ModuleSpec

-----------------------------------------------------------------------------
(* The experiment.                                                         *)

(* The guest has not come to the benchmark: before workbegin, or in its    *)
(* handler, or in the process that stopped after saving a checkpoint.      *)
BeforeRoi == line <= 3 \/ (line = 4 /\ host # "simulate")

(* A device that nobody has stored to.                                     *)
Unused ==
  /\ srcBytesReg = 0 /\ dstBytesReg = 0 /\ statusReg = Dev!STATUS_IDLE
  /\ busy = FALSE /\ eventIn = Dev!NotScheduled
  /\ bytesProcessed = 0 /\ jobsCompleted = 0
  /\ dmaRecord = Dev!ResultRecord(0, 0)
  /\ submits = 0 /\ cancels = 0

(* Types, and the three signs of a running job.                            *)
SimDevice ==
  /\ srcBytesReg \in Nat /\ dstBytesReg \in Nat
  /\ statusReg \in {Dev!STATUS_IDLE, Dev!STATUS_BUSY,
                    Dev!STATUS_DONE, Dev!STATUS_ERROR}
  /\ eventIn \in Nat \cup {Dev!NotScheduled}
  /\ jobsCompleted \in Nat /\ submits \in Nat /\ cancels \in Nat
  /\ busy <=> eventIn # Dev!NotScheduled
  /\ busy <=> statusReg = Dev!STATUS_BUSY

(* Where the host and the guest can be together.                           *)
SimControl ==
  /\ line \in 1 .. 8 /\ pos \in 1 .. 4 /\ process \in {1, 2}
  /\ host \in {"simulate", "workbegin", "drained", "stopped"}
  /\ host \in {"workbegin", "drained"} =>
       line = 4 /\ process = 1 /\ ckpt = NoCheckpoint
  /\ host = "stopped" => line \in {4, 8}
  /\ process = 2 => ~BeforeRoi
  /\ process = 1 /\ ckpt # NoCheckpoint => line = 4 /\ host = "stopped"
  /\ ckpt # NoCheckpoint =>
       ckpt.line = 4 /\ ckpt.record = Dev!ResultRecord(0, 0)

(* The job whose delay runs, as a number.                                  *)
Running == IF busy THEN 1 ELSE 0

(* No job is lost from the count before it is written; afterwards only the *)
(* one that was running can complete.                                      *)
SimJobs ==
  /\ line <= 6 => submits = jobsCompleted + cancels + Running /\ dumped = <<>>
  /\ line > 6 =>
       /\ dumped = <<dumped[1]>> /\ dumped[1] \in Nat
       /\ submits = dumped[1] + jobsCompleted + cancels + Running
       /\ jobsCompleted + Running <= 1

(* The inductive invariant.                                                *)
SimInv ==
  /\ SimDevice /\ SimControl /\ SimJobs
  /\ BeforeRoi => Unused
  /\ ~BeforeRoi => cpu = "TIMING"

-----------------------------------------------------------------------------
LEMMA SimWordFacts ==
  /\ Modulus[8] \in Nat /\ Modulus[8] > 4
  /\ Modulus[4] \in Nat /\ Modulus[4] > 4
  /\ JobBytes \in Nat
  BY SimulationAssumption, SimulationDeviceAssumption
     DEF Dev!DeviceAssumption, Dev!AccessSizes

LEMMA SimModBound == ASSUME NEW a \in Nat, NEW m \in Nat, m > 0
                     PROVE  a % m \in 0 .. m - 1
  OBVIOUS

LEMMA ScriptLines ==
  ASSUME NEW n \in 1 .. 8, NEW l, n <= Len(Script), Script[n] = l
  PROVE  /\ l = "insmod" => n = 1
         /\ l = "resetstats" => n = 2
         /\ l = "workbegin" => n = 3
         /\ l = "rocksdb_pnm" => n = 4
         /\ l = "workend" => n = 5
         /\ l = "dumpresetstats" => n = 6
         /\ l = "exit" => n = 7
<1>1. Len(Script) = 7
  BY DEF Script
<1>2. n \in {1, 2, 3, 4, 5, 6, 7}
  BY <1>1
<1> QED BY <1>2 DEF Script

LEMMA SimInit == Init => SimInv
<1> SUFFICES ASSUME Init PROVE SimInv
  OBVIOUS
<1>1. /\ Unused /\ line = 1 /\ host = "simulate" /\ pos = 1 /\ process = 1
      /\ ckpt = NoCheckpoint /\ dumped = <<>>
  BY DEF Init, Dev!Init, Unused
<1>2. SimDevice
  <2>1. ~busy
    BY <1>1 DEF Unused
  <2> QED BY <1>1, <2>1 DEF Unused, SimDevice, Dev!STATUS_IDLE,
                            Dev!STATUS_BUSY, Dev!NotScheduled
<1>3. SimControl /\ BeforeRoi
  BY <1>1 DEF SimControl, BeforeRoi
<1>4. SimJobs
  BY <1>1 DEF SimJobs, Running, Unused
<1> QED BY <1>1, <1>2, <1>3, <1>4 DEF SimInv

(* Numbers that do not fit are cut, and a latency is a number of ticks.    *)
LEMMA SimNumbers ==
  /\ 1 % Modulus[4] = 1 /\ 2 % Modulus[4] = 2
  /\ \A s \in {0, 1, 2, 4} : s % Modulus[4] = s
  /\ JobBytes % Modulus[8] \in Nat
  /\ srcBytesReg \in Nat /\ dstBytesReg \in Nat =>
       Dev!Latency(Dev!TotalBytes) \in Nat
<1>1. /\ Modulus[8] \in Nat /\ Modulus[8] > 4 /\ Modulus[4] \in Nat
      /\ Modulus[4] > 4 /\ JobBytes \in Nat
  BY SimWordFacts, SimulationAssumption
<1>2. BwNum \in Nat /\ BwDen \in Nat \ {0} /\ ProcessLatency \in Nat
  BY SimulationDeviceAssumption DEF Dev!DeviceAssumption
<1>3. \A s \in {0, 1, 2, 4} : s % Modulus[4] = s
  BY <1>1
<1>4. JobBytes % Modulus[8] \in Nat
  BY <1>1
<1>5. ASSUME srcBytesReg \in Nat, dstBytesReg \in Nat
      PROVE  Dev!Latency(Dev!TotalBytes) \in Nat
  <2> DEFINE b == Dev!TotalBytes
  <2>1. b \in Nat
    BY <1>1, <1>5, SimModBound DEF Dev!TotalBytes
  <2> HIDE DEF b
  <2>2. b * BwNum \in Nat
    BY <1>2, <2>1
  <2> DEFINE c == b * BwNum
  <2> HIDE DEF c
  <2>3. c \div BwDen \in Nat
    BY <1>2, <2>2 DEF c
  <2>4. c \div BwDen + ProcessLatency \in Nat
    BY <1>2, <2>3
  <2> QED BY <2>4 DEF b, c, Dev!Latency
<1> QED BY <1>3, <1>4, <1>5

(* A store of the doorbell: a submit adds a job, a reset cuts one off.     *)
LEMMA SimStore ==
  ASSUME SimDevice, Store, pos \in 1 .. 4
  PROVE  /\ SimDevice' /\ pos' \in 1 .. 4 /\ jobsCompleted' = jobsCompleted
         /\ \/ (busy' <=> busy) /\ UNCHANGED <<submits, cancels>>
            \/ ~busy /\ busy' /\ submits' = submits + 1 /\ cancels' = cancels
            \/ busy /\ ~busy' /\ submits' = submits /\ cancels' = cancels + 1
<1>1. pos \in {1, 2, 3, 4} /\ pos' = (pos % 4) + 1
  BY DEF Store
<1>2. /\ pos' \in 1 .. 4 /\ submits \in Nat /\ cancels \in Nat
      /\ busy <=> eventIn # Dev!NotScheduled
  BY <1>1 DEF SimDevice
<1>3. CASE pos = 1
  <2>1. Dev!write(Dev!OFF_CMD, Dev!CMD_RESET, 4)
    BY <1>3 DEF Store
  <2>2. Dev!Reset
    BY <2>1, SimNumbers
       DEF Dev!write, Dev!WriteCmd, Dev!pktGet, Dev!OFF_CMD,
           Dev!OFF_SRC_BYTES, Dev!OFF_DST_BYTES, Dev!CMD_RESET,
           Dev!CMD_SUBMIT
  <2>3. /\ eventIn' = Dev!NotScheduled /\ busy' = FALSE
        /\ statusReg' = Dev!STATUS_IDLE
        /\ cancels' = IF eventIn # Dev!NotScheduled THEN cancels + 1 ELSE cancels
        /\ UNCHANGED <<submits, srcBytesReg, dstBytesReg, jobsCompleted>>
    BY <2>2 DEF Dev!Reset, Dev!scheduled, Dev!regVars, Dev!statVars
  <2>4. ~busy' /\ cancels' \in Nat
    BY <1>2, <2>3
  <2>5. SimDevice'
    BY <2>3, <2>4 DEF SimDevice, Dev!STATUS_IDLE, Dev!STATUS_BUSY
  <2>6. CASE busy
    <3>1. cancels' = cancels + 1
      BY <1>2, <2>3, <2>6
    <3> QED BY <1>2, <2>3, <2>4, <2>5, <2>6, <3>1
  <2>7. CASE ~busy
    <3>1. cancels' = cancels
      BY <1>2, <2>3, <2>7
    <3> QED BY <1>2, <2>3, <2>4, <2>5, <2>7, <3>1
  <2> QED BY <2>6, <2>7
<1>4. CASE pos = 2
  <2>1. Dev!WriteSrc(JobBytes, 8)
    BY <1>4 DEF Store, Dev!write, Dev!OFF_CMD, Dev!OFF_SRC_BYTES,
                Dev!OFF_DST_BYTES
  <2>2. /\ srcBytesReg' \in Nat
        /\ UNCHANGED <<dstBytesReg, statusReg, busy, eventIn, submits, cancels,
                       jobsCompleted>>
    BY <2>1, SimNumbers DEF Dev!WriteSrc, Dev!pktGet, Dev!jobVars,
                            Dev!statVars
  <2> QED BY <1>2, <2>2 DEF SimDevice
<1>5. CASE pos = 3
  <2>1. Dev!WriteDst(JobBytes, 8)
    BY <1>5 DEF Store, Dev!write, Dev!OFF_CMD, Dev!OFF_SRC_BYTES,
                Dev!OFF_DST_BYTES
  <2>2. /\ dstBytesReg' \in Nat
        /\ UNCHANGED <<srcBytesReg, statusReg, busy, eventIn, submits, cancels,
                       jobsCompleted>>
    BY <2>1, SimNumbers DEF Dev!WriteDst, Dev!pktGet, Dev!jobVars,
                            Dev!statVars
  <2> QED BY <1>2, <2>2 DEF SimDevice
<1>6. CASE pos = 4
  <2>1. Dev!write(Dev!OFF_CMD, Dev!CMD_SUBMIT, 4)
    BY <1>6 DEF Store
  <2>2. Dev!Submit
    BY <2>1, SimNumbers
       DEF Dev!write, Dev!WriteCmd, Dev!pktGet, Dev!OFF_CMD,
           Dev!OFF_SRC_BYTES, Dev!OFF_DST_BYTES, Dev!CMD_RESET,
           Dev!CMD_SUBMIT
  <2>3. CASE Dev!SubmitAccepted
    <3>1. /\ busy' = TRUE /\ statusReg' = Dev!STATUS_BUSY
          /\ eventIn' = Dev!Latency(Dev!TotalBytes)
          /\ submits' = submits + 1
          /\ UNCHANGED <<srcBytesReg, dstBytesReg, cancels, jobsCompleted>>
      BY <2>3 DEF Dev!SubmitAccepted, Dev!regVars, Dev!statVars
    <3>2. eventIn' \in Nat
      BY <3>1, SimNumbers DEF SimDevice
    <3>3. busy' /\ ~busy
      BY <2>3, <3>1 DEF Dev!SubmitAccepted
    <3>4. SimDevice'
      BY <3>1, <3>2, <3>3 DEF SimDevice, Dev!NotScheduled
    <3> QED BY <1>2, <3>1, <3>3, <3>4
  <2>4. CASE Dev!SubmitTooLarge
    <3>1. /\ statusReg' = Dev!STATUS_ERROR
          /\ UNCHANGED <<srcBytesReg, dstBytesReg, cancels, jobsCompleted, busy,
                         eventIn, submits>>
      BY <2>4 DEF Dev!SubmitTooLarge, Dev!regVars, Dev!statVars
    <3>2. ~busy
      BY <2>4 DEF Dev!SubmitTooLarge
    <3> QED BY <1>2, <3>1, <3>2 DEF SimDevice, Dev!STATUS_ERROR,
                                    Dev!STATUS_BUSY
  <2>5. CASE Dev!SubmitWhileBusy
    <3>1. UNCHANGED <<srcBytesReg, dstBytesReg, cancels, jobsCompleted, busy,
                      eventIn, submits, statusReg>>
      BY <2>5 DEF Dev!SubmitWhileBusy, Dev!vars, Dev!regVars, Dev!statVars, Dev!jobVars
    <3> QED BY <1>2, <3>1 DEF SimDevice
  <2> QED BY <2>2, <2>3, <2>4, <2>5 DEF Dev!Submit
<1> QED BY <1>1, <1>3, <1>4, <1>5, <1>6

(* Time passes for a running job only.                                     *)
LEMMA SimTick ==
  ASSUME SimDevice, Dev!Tick
  PROVE  SimDevice' /\ busy /\ UNCHANGED <<busy, submits, cancels, jobsCompleted>>
  BY DEF SimDevice, Dev!Tick, Dev!NotScheduled, Dev!regVars,
         Dev!statVars

LEMMA SimComplete ==
  ASSUME SimDevice, Dev!onComplete
  PROVE  /\ SimDevice' /\ busy /\ ~busy' /\ UNCHANGED <<submits, cancels>>
         /\ jobsCompleted' = jobsCompleted + 1
<1>1. /\ eventIn = 0 /\ eventIn' = Dev!NotScheduled /\ busy' = FALSE
      /\ statusReg' = Dev!STATUS_DONE /\ jobsCompleted' = jobsCompleted + 1
      /\ UNCHANGED <<srcBytesReg, dstBytesReg, submits, cancels>>
  BY DEF Dev!onComplete, Dev!regVars
<1>2. busy /\ ~busy'
  BY <1>1 DEF SimDevice, Dev!NotScheduled
<1> QED BY <1>1, <1>2 DEF SimDevice, Dev!STATUS_DONE, Dev!STATUS_BUSY

(* Where the script is when a line of it runs.                             *)
LEMMA SimAt ==
  ASSUME SimInv, NEW l, At(l)
  PROVE  /\ host = "simulate" /\ line \in 1 .. 7
         /\ l = "insmod" => line = 1
         /\ l = "resetstats" => line = 2
         /\ l = "workbegin" => line = 3
         /\ l = "rocksdb_pnm" => line = 4
         /\ l = "workend" => line = 5
         /\ l = "dumpresetstats" => line = 6
         /\ l = "exit" => line = 7
<1>1. line \in 1 .. 8 /\ line <= Len(Script) /\ Script[line] = l
      /\ host = "simulate"
  BY DEF SimInv, SimControl, At
<1>2. Len(Script) = 7
  BY DEF Script
<1>3. line \in 1 .. 7
  BY <1>1, <1>2
<1> QED BY <1>1, <1>3, ScriptLines

(* A step of the guest's script that leaves the device alone, apart from   *)
(* its statistics before the ROI, and goes to the next line.               *)
LEMMA SimNextLine ==
  ASSUME SimInv, host = "simulate", line \in {1, 2, 4, 5}, line' = line + 1,
         pos' = pos, host' = host, process' = process, ckpt' = ckpt,
         cpu' = cpu, dumped' = dumped, SimDevice', Unused => Unused',
         UNCHANGED <<busy, submits, cancels>>,
         jobsCompleted' = jobsCompleted
  PROVE  SimInv'
<1>1. line' \in {2, 3, 5, 6}
  OBVIOUS
<1>2. BeforeRoi' <=> BeforeRoi
  BY <1>1 DEF BeforeRoi
<1>3. SimControl'
  BY <1>1, <1>2 DEF SimInv, SimControl
<1>4. SimJobs'
  BY <1>1 DEF SimInv, SimJobs, Running
<1> QED BY <1>2, <1>3, <1>4 DEF SimInv

(* What rocksdb_pnm and its worker do without storing to the device.       *)
LEMMA SimProgramStep ==
  ASSUME SimInv, SendJob \/ PollDone \/ AnswerUnpolled
  PROVE  SimInv'
  BY DEF SendJob, PollDone, AnswerUnpolled, devVars, registers, hostVars,
         SimInv, SimDevice, SimControl, SimJobs, Running, BeforeRoi, Unused

LEMMA SimGuest ==
  ASSUME SimInv, Guest
  PROVE  SimInv'
<1>1. SimDevice /\ SimControl /\ SimJobs
  BY DEF SimInv
<1>2. CASE Insmod \/ ProgramEnds \/ WorkEnd
  <2>1. /\ host = "simulate" /\ line \in {1, 4, 5} /\ line' = line + 1
        /\ UNCHANGED <<srcBytesReg, dstBytesReg, statusReg, busy, eventIn,
                       bytesProcessed, jobsCompleted, dmaRecord, submits, cancels,
                       host, process, ckpt, cpu, dumped, pos>>
    <3>1. CASE Insmod
      <4>1. line = 1 /\ host = "simulate"
        BY <3>1, SimAt DEF Insmod
      <4> QED BY <3>1, <4>1 DEF Insmod, devVars, registers, hostVars, program
    <3>2. CASE ProgramEnds
      <4>1. line = 4 /\ host = "simulate"
        BY <3>2, SimAt DEF ProgramEnds
      <4> QED BY <3>2, <4>1 DEF ProgramEnds, devVars, registers,
                                hostVars, program
    <3>3. CASE WorkEnd
      <4>1. line = 5 /\ host = "simulate"
        BY <3>3, SimAt DEF WorkEnd
      <4> QED BY <3>3, <4>1 DEF WorkEnd, devVars, registers,
                                hostVars, program
    <3> QED BY <1>2, <3>1, <3>2, <3>3
  <2>2. SimDevice'
    BY <1>1, <2>1 DEF SimDevice
  <2>3. Unused => Unused'
    BY <2>1 DEF Unused
  <2> QED BY <2>1, <2>2, <2>3, SimNextLine
<1>3. CASE ResetStats
  <2>1. line = 2 /\ host = "simulate"
    BY <1>3, SimAt DEF ResetStats
  <2>2. /\ line' = line + 1 /\ bytesProcessed' = 0 /\ jobsCompleted' = 0
        /\ UNCHANGED <<srcBytesReg, dstBytesReg, statusReg, busy, eventIn, dmaRecord,
                       submits, cancels, host, process, ckpt, cpu, dumped, pos>>
    BY <1>3 DEF ResetStats, StatisticsToZero, registers, hostVars, program
  <2>3. Unused
    BY <2>1 DEF SimInv, BeforeRoi
  <2>4. Unused' /\ jobsCompleted' = jobsCompleted
    BY <2>2, <2>3 DEF Unused
  <2>5. SimDevice'
    BY <1>1, <2>2 DEF SimDevice
  <2> QED BY <2>1, <2>2, <2>4, <2>5, SimNextLine
<1>4. CASE WorkBegin
  <2>1. line = 3 /\ host = "simulate"
    BY <1>4, SimAt DEF WorkBegin
  <2>2. /\ line' = 4 /\ host' = "workbegin"
        /\ UNCHANGED <<srcBytesReg, dstBytesReg, statusReg, busy, eventIn,
                       bytesProcessed, jobsCompleted, dmaRecord, submits, cancels,
                       process, ckpt, cpu, dumped, pos>>
    BY <1>4, <2>1 DEF WorkBegin, devVars, registers, program
  <2>3. BeforeRoi /\ BeforeRoi'
    BY <2>1, <2>2 DEF BeforeRoi
  <2>4. SimDevice'
    BY <1>1, <2>2 DEF SimDevice
  <2>5. SimControl'
    BY <1>1, <2>1, <2>2, <2>3 DEF SimControl
  <2>6. SimJobs'
    BY <1>1, <2>1, <2>2 DEF SimJobs, Running
  <2>7. Unused'
    BY <2>2, <2>3 DEF SimInv, Unused
  <2> QED BY <2>3, <2>4, <2>5, <2>6, <2>7 DEF SimInv
<1>5. CASE Store
  <2>1. line = 4 /\ host = "simulate"
    BY <1>5, SimAt DEF Store
  <2>2. UNCHANGED <<line, host, process, ckpt, cpu, dumped>>
    BY <1>5 DEF Store, hostVars
  <2>3. ~BeforeRoi /\ ~BeforeRoi'
    BY <2>1, <2>2 DEF BeforeRoi
  <2>4. /\ SimDevice' /\ pos' \in 1 .. 4 /\ jobsCompleted' = jobsCompleted
        /\ \/ (busy' <=> busy) /\ UNCHANGED <<submits, cancels>>
           \/ ~busy /\ busy' /\ submits' = submits + 1 /\ cancels' = cancels
           \/ busy /\ ~busy' /\ submits' = submits /\ cancels' = cancels + 1
    BY <1>1, <1>5, SimStore DEF SimControl
  <2>5. SimControl'
    BY <1>1, <2>1, <2>2, <2>3, <2>4 DEF SimControl
  <2>6. SimJobs'
    <3>1. /\ cancels \in Nat /\ jobsCompleted \in Nat /\ dumped = <<>>
          /\ submits = jobsCompleted + cancels + Running
      BY <1>1, <2>1 DEF SimDevice, SimJobs
    <3>2. submits' = jobsCompleted' + cancels' + Running'
      <4>1. CASE (busy' <=> busy) /\ UNCHANGED <<submits, cancels>>
        BY <2>4, <3>1, <4>1 DEF Running
      <4>2. CASE ~busy /\ busy' /\ submits' = submits + 1 /\ cancels' = cancels
        BY <2>4, <3>1, <4>2 DEF Running
      <4>3. CASE busy /\ ~busy' /\ submits' = submits /\ cancels' = cancels + 1
        BY <2>4, <3>1, <4>3 DEF Running
      <4> QED BY <2>4, <4>1, <4>2, <4>3
    <3> QED BY <2>1, <2>2, <3>1, <3>2 DEF SimJobs
  <2> QED BY <2>2, <2>3, <2>4, <2>5, <2>6 DEF SimInv
<1>6. CASE SendJob
  BY <1>6, SimProgramStep DEF SendJob
<1>7. CASE DumpResetStats
  <2>1. line = 6 /\ host = "simulate"
    BY <1>7, SimAt DEF DumpResetStats
  <2>2. /\ line' = 7 /\ bytesProcessed' = 0 /\ jobsCompleted' = 0
        /\ dumped' = Append(dumped, jobsCompleted)
        /\ UNCHANGED <<srcBytesReg, dstBytesReg, statusReg, busy, eventIn, dmaRecord,
                       submits, cancels, host, process, ckpt, cpu, pos>>
    BY <1>7, <2>1 DEF DumpResetStats, StatisticsToZero, registers,
                      hostVars, program
  <2>3. /\ submits = jobsCompleted + cancels + Running /\ dumped = <<>>
        /\ submits \in Nat /\ jobsCompleted \in Nat /\ cancels \in Nat
        /\ Running \in {0, 1} /\ Running' = Running
    BY <1>1, <2>1, <2>2 DEF SimJobs, SimDevice, Running
  <2>4. dumped' = <<jobsCompleted>>
    BY <2>2, <2>3
  <2>5. ~BeforeRoi /\ ~BeforeRoi'
    BY <2>1, <2>2 DEF BeforeRoi
  <2>6. SimDevice'
    BY <1>1, <2>2 DEF SimDevice
  <2>7. SimControl'
    BY <1>1, <2>1, <2>2, <2>5 DEF SimControl
  <2>8. SimJobs'
    BY <2>2, <2>3, <2>4 DEF SimJobs
  <2> QED BY <2>2, <2>5, <2>6, <2>7, <2>8 DEF SimInv
<1>8. CASE Exit
  <2>1. line = 7 /\ host = "simulate"
    BY <1>8, SimAt DEF Exit
  <2>2. /\ line' = 8 /\ host' = "stopped"
        /\ UNCHANGED <<srcBytesReg, dstBytesReg, statusReg, busy, eventIn,
                       bytesProcessed, jobsCompleted, dmaRecord, submits, cancels,
                       process, ckpt, cpu, dumped, pos>>
    BY <1>8, <2>1 DEF Exit, devVars, registers, program
  <2>3. ~BeforeRoi /\ ~BeforeRoi'
    BY <2>1, <2>2 DEF BeforeRoi
  <2>4. SimDevice'
    BY <1>1, <2>2 DEF SimDevice
  <2>5. SimControl'
    BY <1>1, <2>1, <2>2, <2>3 DEF SimControl
  <2>6. SimJobs'
    BY <1>1, <2>1, <2>2 DEF SimJobs, Running
  <2> QED BY <2>2, <2>3, <2>4, <2>5, <2>6 DEF SimInv
<1> QED BY <1>2, <1>3, <1>4, <1>5, <1>6, <1>7, <1>8 DEF Guest

LEMMA SimHost ==
  ASSUME SimInv, Drain \/ SaveCheckpoint \/ SwitchProcessor
  PROVE  SimInv'
<1>1. SimDevice /\ SimControl /\ SimJobs
  BY DEF SimInv
<1>2. /\ UNCHANGED <<srcBytesReg, dstBytesReg, statusReg, busy, eventIn,
                     bytesProcessed, jobsCompleted, dmaRecord, submits, cancels,
                     process, line, pos, dumped>>
      /\ host \in {"workbegin", "drained"}
      /\ \/ host' = "drained" /\ UNCHANGED ckpt
         \/ host' = "stopped"
            /\ ckpt' = [line |-> line, node |-> node, record |-> dmaRecord]
         \/ host' = "simulate" /\ UNCHANGED ckpt /\ cpu' = "TIMING"
  BY DEF Drain, SaveCheckpoint, SwitchProcessor, Dev!drain,
         Dev!drainResume, Dev!regVars, Dev!jobVars, Dev!statVars,
         devVars, registers, guestVars, program
<1>3. line = 4 /\ process = 1 /\ ckpt = NoCheckpoint /\ BeforeRoi
  BY <1>1, <1>2 DEF SimControl, BeforeRoi
<1>4. Unused /\ Unused'
  BY <1>2, <1>3 DEF SimInv, Unused
<1>5. SimDevice'
  BY <1>1, <1>2 DEF SimDevice
<1>6. BeforeRoi' \/ cpu' = "TIMING"
  BY <1>2, <1>3 DEF BeforeRoi
<1>7. SimControl'
  <2>1. dmaRecord = Dev!ResultRecord(0, 0)
    BY <1>4 DEF Unused
  <2>2. ckpt' # NoCheckpoint =>
          /\ host' = "stopped" /\ ckpt'.line = 4
          /\ ckpt'.record = Dev!ResultRecord(0, 0)
    BY <1>2, <1>3, <2>1
  <2>3. line' = 4 /\ process' = 1 /\ pos' \in 1 .. 4
    BY <1>1, <1>2, <1>3 DEF SimControl
  <2>4. host' \in {"workbegin", "drained"} => ckpt' = NoCheckpoint
    BY <1>2, <1>3
  <2>5. host' \in {"simulate", "workbegin", "drained", "stopped"}
    BY <1>2
  <2>6. (NoCheckpoint)' = NoCheckpoint
    BY DEF NoCheckpoint
  <2>7. (Dev!ResultRecord(0, 0))' = Dev!ResultRecord(0, 0)
    BY DEF Dev!ResultRecord
  <2> QED BY <2>2, <2>3, <2>4, <2>5, <2>6, <2>7 DEF SimControl
<1>8. SimJobs'
  BY <1>1, <1>2, <1>3 DEF SimJobs, Running
<1> QED BY <1>4, <1>5, <1>6, <1>7, <1>8 DEF SimInv

LEMMA SimRestore ==
  ASSUME SimInv, Restore
  PROVE  /\ SimInv' /\ Unused
         /\ UNCHANGED <<srcBytesReg, dstBytesReg, statusReg, busy, eventIn,
                        bytesProcessed, jobsCompleted, dmaRecord>>
<1>1. SimDevice /\ SimControl /\ SimJobs
  BY DEF SimInv
<1>2. host = "stopped" /\ process = 1 /\ ckpt # NoCheckpoint
  BY DEF Restore
<1>3. /\ line = 4 /\ BeforeRoi /\ ckpt.line = 4
      /\ ckpt.record = Dev!ResultRecord(0, 0)
  BY <1>1, <1>2 DEF SimControl, BeforeRoi
<1>4. Unused /\ dumped = <<>>
  BY <1>1, <1>3 DEF SimInv, SimJobs
<1>5. /\ process' = 2 /\ line' = 4 /\ host' = "simulate" /\ cpu' = "TIMING"
      /\ UNCHANGED <<ckpt, pos, dumped, submits, cancels>>
  BY <1>3 DEF Restore, StartingCoreType, program
<1>6. UNCHANGED <<srcBytesReg, dstBytesReg, statusReg, busy, eventIn,
                  bytesProcessed, jobsCompleted, dmaRecord>>
  BY <1>3, <1>4 DEF Restore, Unused
<1>7. ~BeforeRoi'
  BY <1>5 DEF BeforeRoi
<1>8. SimDevice'
  BY <1>1, <1>5, <1>6 DEF SimDevice
<1>9. SimControl'
  BY <1>1, <1>3, <1>4, <1>5, <1>7 DEF SimControl
<1>10. SimJobs'
  BY <1>1, <1>3, <1>5, <1>6 DEF SimJobs, Running
<1> QED BY <1>4, <1>5, <1>6, <1>7, <1>8, <1>9, <1>10 DEF SimInv

LEMMA SimDeviceStep ==
  ASSUME SimInv, DeviceTick \/ DeviceCompletes
  PROVE  SimInv'
<1>1. SimDevice /\ SimControl /\ SimJobs
  BY DEF SimInv
<1>2. UNCHANGED <<process, host, cpu, ckpt, line, pos, dumped>>
  BY DEF DeviceTick, DeviceCompletes, hostVars, guestVars, program
<1>3. /\ SimDevice' /\ busy /\ UNCHANGED <<submits, cancels>>
      /\ \/ busy' = busy /\ jobsCompleted' = jobsCompleted
         \/ ~busy' /\ jobsCompleted' = jobsCompleted + 1
  BY <1>1, SimTick, SimComplete DEF DeviceTick, DeviceCompletes
<1>4. ~BeforeRoi /\ ~BeforeRoi'
  BY <1>2, <1>3 DEF SimInv, Unused, BeforeRoi
<1>5. SimControl'
  BY <1>1, <1>2, <1>4 DEF SimControl
<1>6. /\ jobsCompleted' + Running' = jobsCompleted + Running
      /\ jobsCompleted \in Nat /\ jobsCompleted' \in Nat
      /\ Running \in {0, 1} /\ Running' \in {0, 1}
      /\ submits \in Nat /\ cancels \in Nat
  <2>1. jobsCompleted \in Nat /\ submits \in Nat /\ cancels \in Nat
    BY <1>1 DEF SimDevice
  <2>2. CASE busy' = busy /\ jobsCompleted' = jobsCompleted
    BY <2>1, <2>2 DEF Running
  <2>3. CASE ~busy' /\ jobsCompleted' = jobsCompleted + 1
    <3>1. Running = 1 /\ Running' = 0
      BY <1>3, <2>3 DEF Running
    <3> QED BY <2>1, <2>3, <3>1
  <2> QED BY <1>3, <2>2, <2>3
<1>7. SimJobs'
  <2>1. CASE line <= 6
    BY <1>1, <1>2, <1>3, <1>6, <2>1 DEF SimJobs, SimControl
  <2>2. CASE line > 6
    BY <1>1, <1>2, <1>3, <1>6, <2>2 DEF SimJobs, SimControl
  <2> QED BY <1>1, <2>1, <2>2 DEF SimControl
<1> QED BY <1>2, <1>3, <1>4, <1>5, <1>7 DEF SimInv

LEMMA SimSame ==
  ASSUME SimInv, UNCHANGED vars
  PROVE  SimInv'
  BY DEF vars, devVars, registers, hostVars, guestVars, program, SimInv,
         SimDevice, SimControl, SimJobs, Running, BeforeRoi, Unused

LEMMA SimStep == SimInv /\ [Next]_(vars) => SimInv'
  BY SimGuest, SimProgramStep, SimHost, SimRestore, SimDeviceStep, SimSame DEF Next

LEMMA SimInvariant == Spec => []SimInv
  BY SimInit, SimStep, PTL DEF Spec

(* run_pnm.py:56-57: whichever CPU boots, and whether the process switched *)
(* or restored, a job is submitted only on the TIMING CPU.                 *)
THEOREM SimulationRoiOnTiming == Spec => []RoiOnTiming
<1>1. SimInv => RoiOnTiming
  BY DEF SimInv, SimDevice, Unused, RoiOnTiming
<1> QED
  BY <1>1, SimInvariant, PTL

(* run_pnm.py:125-149: the statistics written at the end of the ROI miss   *)
(* only jobs cut off by a later doorbell and at most the one still         *)
(* running, for any number of jobs, any latency and a worker that answers  *)
(* when it will.                                                           *)
THEOREM SimulationDumpConserves == Spec => []DumpConserves
<1>1. ASSUME SimInv PROVE DumpConserves
  <2>1. CASE line <= 6
    BY <1>1, <2>1 DEF SimInv, SimJobs, DumpConserves
  <2>2. CASE line > 6
    <3>1. /\ dumped[1] \in Nat
          /\ submits = dumped[1] + jobsCompleted + cancels + Running
          /\ jobsCompleted + Running <= 1
          /\ jobsCompleted \in Nat /\ submits \in Nat /\ cancels \in Nat
      BY <1>1, <2>2 DEF SimInv, SimJobs, SimDevice
    <3>2. Running \in {0, 1} /\ Running = (IF busy THEN 1 ELSE 0)
      BY DEF Running
    <3> QED BY <3>1, <3>2 DEF DumpConserves
  <2> QED BY <1>1, <2>1, <2>2 DEF SimInv, SimControl
<1> QED
  BY <1>1, SimInvariant, PTL

(* run_pnm.py:183-188: the second process begins with the device state the *)
(* first one saved, although the device serializes none of it: a           *)
(* checkpoint is taken only before the first store to the device.          *)
THEOREM SimulationRestoresDevice == Spec => RestoresDevice
<1>1. ASSUME SimInv, [Next]_(vars)
      PROVE  [process' # process =>
                <<registers, bytesProcessed, jobsCompleted, dmaRecord>>'
                  = <<registers, bytesProcessed, jobsCompleted, dmaRecord>>
             ]_(vars)
  <2>1. CASE Restore
    <3>1. UNCHANGED <<srcBytesReg, dstBytesReg, statusReg, busy, eventIn,
                      bytesProcessed, jobsCompleted, dmaRecord>>
      BY <1>1, <2>1, SimRestore
    <3> QED BY <3>1 DEF registers
  <2>2. CASE Next /\ ~Restore
    <3>1. process' = process
      BY <2>2 DEF Next, Guest, Insmod, ResetStats, WorkBegin,
         SendJob, Store, PollDone, AnswerUnpolled, ProgramEnds, WorkEnd, DumpResetStats,
         Exit, DeviceTick, DeviceCompletes, Drain,
         SaveCheckpoint, SwitchProcessor, hostVars
    <3> QED BY <3>1
  <2>3. CASE UNCHANGED vars
    BY <2>3
  <2> QED BY <1>1, <2>1, <2>2, <2>3
<1> QED
  BY <1>1, SimInvariant, PTL DEF Spec, RestoresDevice

=============================================================================
