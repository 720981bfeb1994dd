---------------------------- MODULE PNMCompactor ----------------------------
(***************************************************************************)
(* The PNM compaction accelerator as gem5 simulates it                     *)
(* (gem5/src/dev/pnm/pnm_compactor.{hh,cc}): an MMIO device whose only     *)
(* work is to let the latency of a job pass.  A guest stores the job's     *)
(* byte counts in SRC_BYTES and DST_BYTES, rings CMD_SUBMIT, and reads     *)
(* STATUS until the completion event has fired.                            *)
(*                                                                         *)
(* The client is the most general one: any store, of any access width, to  *)
(* any register, at any time.  Disciplined clients are modelled by the     *)
(* modules that instantiate this one and use its write, read and drain.    *)
(*                                                                         *)
(* Time is relative.  A tick is visible only while the completion event is *)
(* scheduled, so the event carries the ticks it still has to wait.         *)
(***************************************************************************)
EXTENDS Integers

CONSTANTS
  Modulus,         \* 2^(8*n) for an n-byte access, n \in {1, 2, 4, 8}
  MaxJobBytes,     \* MAX_JOB_BYTES
  ProcessLatency,  \* process_latency, in ticks
  BwNum, BwDen,    \* bandwidth = BwNum/BwDen ticks per byte
  UseDma,          \* use_dma
  Values,          \* values the guest stores
  MaxJobs          \* bound: jobs accepted in one behaviour

AccessSizes == {1, 2, 4, 8}

ASSUME DeviceAssumption ==
  /\ Modulus \in [AccessSizes -> Nat]
  /\ \A n \in AccessSizes : 4 < Modulus[n] /\ Modulus[n] <= Modulus[8]
  /\ MaxJobBytes \in Nat
  /\ ProcessLatency \in Nat
  /\ BwNum \in Nat
  /\ BwDen \in Nat \ {0}
  /\ UseDma \in BOOLEAN
  /\ Values \subseteq Nat
  /\ MaxJobs \in Nat

OFF_SRC_BYTES  == 0
OFF_DST_BYTES  == 8
OFF_CMD        == 16
OFF_STATUS     == 20
OFF_BYTES_PROC == 24
OFF_JOBS_DONE  == 32
Offsets == {OFF_SRC_BYTES, OFF_DST_BYTES, OFF_CMD, OFF_STATUS,
            OFF_BYTES_PROC, OFF_JOBS_DONE}

STATUS_IDLE  == 0
STATUS_BUSY  == 1
STATUS_DONE  == 2
STATUS_ERROR == 4

CMD_SUBMIT == 1
CMD_RESET  == 2

VARIABLES
  srcBytesReg, dstBytesReg, statusReg, busy,
  eventIn,         \* ticks until completeEvent fires, or NotScheduled
  bytesProcessed, jobsCompleted,  \* statistics
  dmaRecord,       \* the result record at dma_addr in guest DRAM
  drainState,      \* the Drainable base class's _drainState
  charged, age,    \* history: bytes whose delay is running, ticks since then
  submits, cancels \* history: jobs accepted, jobs cut off by CMD_RESET

regVars   == <<srcBytesReg, dstBytesReg>>
jobVars   == <<statusReg, busy, eventIn, charged, age, submits, cancels>>
statVars  == <<bytesProcessed, jobsCompleted, dmaRecord>>
vars      == <<regVars, jobVars, statVars, drainState>>

NotScheduled == -1
scheduled == eventIn # NotScheduled

Word == 0 .. Modulus[8] - 1

-----------------------------------------------------------------------------
(* Packet accessors: a store of n bytes replaces the whole register with   *)
(* the n low bytes, a load of n bytes returns the register's n low bytes.  *)
pktGet(v, n) == v % Modulus[n]
pktSet(v, n) == v % Modulus[n]

(* uint64_t arithmetic: the sum of the two registers wraps.                *)
TotalBytes == (srcBytesReg + dstBytesReg) % Modulus[8]

(* static_cast<Tick>(totalBytes * bandwidth) + processLatency              *)
Latency(bytes) == (bytes * BwNum) \div BwDen + ProcessLatency

Record == [bytes : Nat, jobs : Nat]

(* The 16-byte record: the cumulative statistics, the job count cut to     *)
(* 32 bits.                                                                *)
ResultRecord(bytes, jobs) == [bytes |-> bytes % Modulus[8],
                              jobs  |-> jobs % Modulus[4]]

Init ==
  /\ srcBytesReg = 0 /\ dstBytesReg = 0
  /\ statusReg = STATUS_IDLE /\ busy = FALSE
  /\ eventIn = NotScheduled
  /\ bytesProcessed = 0 /\ jobsCompleted = 0
  /\ dmaRecord = ResultRecord(0, 0)
  /\ drainState = "Running"
  /\ charged = 0 /\ age = 0 /\ submits = 0 /\ cancels = 0

-----------------------------------------------------------------------------
(* What a load of n bytes at offset off returns.  Write-only registers and *)
(* unmapped offsets read as zero.                                          *)
read(off, n) ==
  pktSet(CASE off = OFF_STATUS     -> statusReg
           [] off = OFF_BYTES_PROC -> bytesProcessed
           [] off = OFF_JOBS_DONE  -> jobsCompleted
           [] OTHER                -> 0, n)

WriteSrc(v, n) ==
  /\ srcBytesReg' = pktGet(v, n)
  /\ UNCHANGED <<dstBytesReg, jobVars, statVars, drainState>>

WriteDst(v, n) ==
  /\ dstBytesReg' = pktGet(v, n)
  /\ UNCHANGED <<srcBytesReg, jobVars, statVars, drainState>>

SubmitWhileBusy ==
  /\ busy
  /\ UNCHANGED vars

SubmitTooLarge ==
  /\ ~busy
  /\ srcBytesReg > MaxJobBytes
  /\ statusReg' = STATUS_ERROR
  /\ UNCHANGED <<regVars, busy, eventIn, charged, age, submits, cancels,
                 statVars, drainState>>

(* Mutants: the latency is charged for the source bytes alone; a submit    *)
(* does not look at the busy flag; a job without bandwidth latency is not  *)
(* scheduled.                                                              *)
SubmitAccepted_SourceOnly ==
  /\ ~busy
  /\ srcBytesReg <= MaxJobBytes
  /\ busy' = TRUE
  /\ statusReg' = STATUS_BUSY
  /\ eventIn' = Latency(srcBytesReg)
  /\ charged' = TotalBytes
  /\ age' = 0
  /\ submits' = submits + 1
  /\ UNCHANGED <<regVars, cancels, statVars, drainState>>

SubmitAccepted_IgnoresBusy ==
  /\ srcBytesReg <= MaxJobBytes
  /\ busy' = TRUE
  /\ statusReg' = STATUS_BUSY
  /\ eventIn' = Latency(TotalBytes)
  /\ charged' = TotalBytes
  /\ age' = 0
  /\ submits' = submits + 1
  /\ UNCHANGED <<regVars, cancels, statVars, drainState>>

SubmitAccepted_DropsSmall ==
  /\ ~busy
  /\ srcBytesReg <= MaxJobBytes
  /\ busy' = TRUE
  /\ statusReg' = STATUS_BUSY
  /\ eventIn' = IF Latency(TotalBytes) = ProcessLatency THEN NotScheduled
                                                       ELSE Latency(TotalBytes)
  /\ charged' = TotalBytes
  /\ age' = 0
  /\ submits' = submits + 1
  /\ UNCHANGED <<regVars, cancels, statVars, drainState>>

SubmitAccepted ==
  /\ ~busy
  /\ srcBytesReg <= MaxJobBytes
  /\ busy' = TRUE
  /\ statusReg' = STATUS_BUSY
  /\ eventIn' = Latency(TotalBytes)
  /\ charged' = TotalBytes
  /\ age' = 0
  /\ submits' = submits + 1
  /\ UNCHANGED <<regVars, cancels, statVars, drainState>>

Submit == SubmitWhileBusy \/ SubmitTooLarge \/ SubmitAccepted

(* Mutant: the pending completion is not descheduled.                      *)
Reset_KeepsEvent ==
  /\ busy' = FALSE
  /\ statusReg' = STATUS_IDLE
  /\ charged' = 0
  /\ age' = 0
  /\ cancels' = IF scheduled THEN cancels + 1 ELSE cancels
  /\ UNCHANGED <<regVars, eventIn, submits, statVars, drainState>>

(* Mutant: the device stays busy, and takes no job from then on.           *)
Reset_StaysBusy ==
  /\ eventIn' = NotScheduled
  /\ statusReg' = STATUS_IDLE
  /\ charged' = 0
  /\ age' = 0
  /\ cancels' = IF scheduled THEN cancels + 1 ELSE cancels
  /\ UNCHANGED <<regVars, busy, submits, statVars, drainState>>

Reset ==
  /\ eventIn' = NotScheduled
  /\ busy' = FALSE
  /\ statusReg' = STATUS_IDLE
  /\ charged' = 0
  /\ age' = 0
  /\ cancels' = IF scheduled THEN cancels + 1 ELSE cancels
  /\ UNCHANGED <<regVars, submits, statVars, drainState>>

WriteCmd(v, n) ==
  LET cmd == pktGet(v, n) % Modulus[4]
  IN  \/ cmd = CMD_SUBMIT /\ Submit
      \/ cmd = CMD_RESET /\ Reset
      \/ cmd \notin {CMD_SUBMIT, CMD_RESET} /\ UNCHANGED vars

(* One store packet.  Stores to read-only or unmapped offsets are dropped. *)
write(off, v, n) ==
  \/ off = OFF_SRC_BYTES /\ WriteSrc(v, n)
  \/ off = OFF_DST_BYTES /\ WriteDst(v, n)
  \/ off = OFF_CMD /\ WriteCmd(v, n)
  \/ off \notin {OFF_SRC_BYTES, OFF_DST_BYTES, OFF_CMD} /\ UNCHANGED vars

(* The event queue: time passes, and the completion fires when it is due.  *)
Tick ==
  /\ eventIn > 0
  /\ eventIn' = eventIn - 1
  /\ age' = age + 1
  /\ UNCHANGED <<regVars, statusReg, busy, charged, submits, cancels,
                 statVars, drainState>>

(* Mutant: the completion fires one tick early.                            *)
onComplete_Early ==
  /\ eventIn \in {0, 1}
  /\ eventIn' = NotScheduled
  /\ bytesProcessed' = bytesProcessed + TotalBytes
  /\ jobsCompleted' = jobsCompleted + 1
  /\ dmaRecord' = IF UseDma THEN ResultRecord(bytesProcessed', jobsCompleted')
                            ELSE dmaRecord
  /\ statusReg' = STATUS_DONE
  /\ busy' = FALSE
  /\ charged' = 0
  /\ age' = 0
  /\ drainState' = IF drainState = "Draining" THEN "Drained" ELSE drainState
  /\ UNCHANGED <<regVars, submits, cancels>>

(* Mutant: the record is filled before the statistics are counted.         *)
onComplete_RecordFirst ==
  /\ eventIn = 0
  /\ eventIn' = NotScheduled
  /\ bytesProcessed' = bytesProcessed + TotalBytes
  /\ jobsCompleted' = jobsCompleted + 1
  /\ dmaRecord' = IF UseDma THEN ResultRecord(bytesProcessed, jobsCompleted)
                            ELSE dmaRecord
  /\ statusReg' = STATUS_DONE
  /\ busy' = FALSE
  /\ charged' = 0
  /\ age' = 0
  /\ drainState' = IF drainState = "Draining" THEN "Drained" ELSE drainState
  /\ UNCHANGED <<regVars, submits, cancels>>

onComplete ==
  /\ eventIn = 0
  /\ eventIn' = NotScheduled
  /\ bytesProcessed' = bytesProcessed + TotalBytes
  /\ jobsCompleted' = jobsCompleted + 1
  /\ dmaRecord' = IF UseDma THEN ResultRecord(bytesProcessed', jobsCompleted')
                            ELSE dmaRecord
  /\ statusReg' = STATUS_DONE
  /\ busy' = FALSE
  /\ charged' = 0
  /\ age' = 0
  /\ drainState' = IF drainState = "Draining" THEN "Drained" ELSE drainState
  /\ UNCHANGED <<regVars, submits, cancels>>

(* DrainManager::tryDrain calls dmDrain on every object.  It is never      *)
(* called while this object is still Draining: the manager's count is then *)
(* not zero and tryDrain panics.                                           *)
drain ==
  /\ drainState # "Draining"
  /\ drainState' = IF scheduled THEN "Draining" ELSE "Drained"
  /\ UNCHANGED <<regVars, jobVars, statVars>>

drainResume ==
  /\ drainState = "Drained"
  /\ drainState' = "Running"
  /\ UNCHANGED <<regVars, jobVars, statVars>>

GuestStore(off, v, n) == write(off, v, n) /\ submits' <= MaxJobs

Next ==
  \/ \E off \in Offsets, v \in Values, n \in AccessSizes : GuestStore(off, v, n)
  \/ Tick
  \/ onComplete
  \/ drain
  \/ drainResume

(* gem5's event loop never stops while an event is scheduled.              *)
Fairness == WF_vars(Tick) /\ WF_vars(onComplete)

Spec == Init /\ [][Next]_vars /\ Fairness

-----------------------------------------------------------------------------
(* Every register holds a value of its width, and every status value is    *)
(* one of the four the device writes.                                      *)
TypeOK ==
  /\ srcBytesReg \in Word
  /\ dstBytesReg \in Word
  /\ statusReg \in {STATUS_IDLE, STATUS_BUSY, STATUS_DONE, STATUS_ERROR}
  /\ busy \in BOOLEAN
  /\ eventIn \in Nat \cup {NotScheduled}
  /\ bytesProcessed \in Nat
  /\ jobsCompleted \in Nat
  /\ dmaRecord \in Record
  /\ drainState \in {"Running", "Draining", "Drained"}
  /\ charged \in Word
  /\ age \in Nat
  /\ submits \in Nat
  /\ cancels \in Nat

(* The three ways the code says "a job is in flight" agree: the busy flag  *)
(* that CMD_SUBMIT tests, the event that CMD_RESET and drain() test, and   *)
(* the STATUS a guest polls.  In particular an accepted submit never       *)
(* schedules completeEvent twice, which gem5's event queue asserts.        *)
EventIffBusy ==
  /\ busy <=> scheduled
  /\ busy <=> statusReg = STATUS_BUSY

(* The completion of a job fires exactly the latency of the bytes it was   *)
(* submitted with after the submit, whatever registers were rewritten,     *)
(* submits ignored or jobs reset in the meantime: no completion is left    *)
(* over from an earlier job and none is pushed back.                       *)
ExactDelay == scheduled => age + eventIn = Latency(charged)

(* Every accepted job completes once or is cut off once by a reset; JOBS_  *)
(* DONE never counts a cancelled job and never counts one twice.           *)
JobConservation ==
  submits = jobsCompleted + cancels + (IF busy THEN 1 ELSE 0)

(* With use_dma the record in guest DRAM always shows the statistics that  *)
(* BYTES_PROC and JOBS_DONE return, so a guest that has seen STATUS_DONE   *)
(* reads the record of the job that raised it.                             *)
RecordIsCurrent ==
  UseDma => dmaRecord = ResultRecord(bytesProcessed, jobsCompleted)

(* The device changes to Drained only with no completion in flight, so a   *)
(* job started before the CPU switch cannot fire after it.                 *)
DrainedMeansIdle ==
  [][drainState # "Drained" /\ drainState' = "Drained" => ~scheduled']_vars

(* The state of JobEngine that a guest sees in STATUS.                     *)
EngineState == CASE statusReg = STATUS_IDLE  -> "idle"
                 [] statusReg = STATUS_BUSY  -> "running"
                 [] statusReg = STATUS_DONE  -> "done"
                 [] OTHER                    -> "refused"

Engine == INSTANCE JobEngine WITH
            Sizes <- Word, Delay <- Latency, state <- EngineState,
            due <- IF scheduled THEN eventIn ELSE 0, finished <- jobsCompleted

(* The registers, the busy flag and the event together are a timer for one *)
(* job (JobEngine): STATUS_DONE and the count of jobs appear only when the *)
(* full latency of an accepted job has passed without a reset.             *)
ImplementsEngine == Engine!Spec

(* An accepted job leaves the device: its completion fires or the guest    *)
(* resets it.                                                              *)
JobEnds == busy ~> ~busy

=============================================================================
