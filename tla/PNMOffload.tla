----------------------------- MODULE PNMOffload -----------------------------
(***************************************************************************)
(* One compaction offloaded from RocksDB to the PNM worker and the PNM     *)
(* device: the background threads of rocksdb_pnm inside                    *)
(* PNMCompactionService::Schedule and Wait (tools/pnm_compaction_service.h *)
(* and its caller in db/compaction/compaction_service_job.cc), the threads *)
(* of pnm_compaction_unit inside handle_job (tools/pnm_unit_main.cc), the  *)
(* socket between them, and the device both processes map (PNMCompactor).  *)
(*                                                                         *)
(* A job has its own thread, its own connection and its own handler        *)
(* thread, so all three are indexed by the job.  A frame is sent or        *)
(* received whole, or fails.  Every MMIO store and every STATUS load is a  *)
(* step of its own.  Two mutexes are modelled: mmio_mutex_ of the service  *)
(* and g_compact_mutex of the worker; acquiring one is merged with the     *)
(* first step it protects, releasing it with the last.                     *)
(***************************************************************************)
EXTENDS Integers, FiniteSets

CONSTANTS
  Jobs,            \* compactions RocksDB hands to the service
  NoJob,           \* not a job
  MaxConcurrent,   \* compactions RocksDB runs at a time (1 in db_bench)
  Sizes,           \* input sizes stat() can add up to
  Faults,          \* which failures may happen, a subset of AllFaults
  MmioModes,       \* <<service maps /dev/pnm, worker maps /dev/pnm>>
  Modulus, MaxJobBytes, ProcessLatency, BwNum, BwDen, UseDma

AllFaults == {"bind", "connect", "send", "recv", "secondary", "compact",
              "crash", "result", "rename"}

ASSUME OffloadAssumption ==
  /\ NoJob \notin Jobs
  /\ MaxConcurrent \in Nat \ {0}
  /\ Sizes \subseteq 0 .. Modulus[8] - 1
  /\ Faults \subseteq AllFaults
  /\ MmioModes \subseteq BOOLEAN \X BOOLEAN

VARIABLES
  srcBytesReg, dstBytesReg, statusReg, busy, eventIn, bytesProcessed,
  jobsCompleted, dmaRecord, drainState, charged, age, submits, cancels,
  jpc,             \* where the thread that runs the job is
  upc,             \* where the worker thread of the job's connection is
  chan,            \* the job's connection
  unit,            \* the worker process: "starting", "up" or "dead"
  secondary,       \* g_secondary_db is open
  mmioLock,        \* holder of mmio_mutex_
  compactLock,     \* holder of g_compact_mutex
  svcMmio, unitMmio,  \* mmio_base_ and g_mmio_base are mapped
  size,            \* src_bytes the doorbell computed for the job
  owner,           \* history: the job that rang CMD_SUBMIT last
  elapsed,         \* history: jobs whose device delay has passed or that the
                   \*          device refused with STATUS_ERROR
  cut              \* history: jobs whose delay a later CMD_RESET cancelled

Dev == INSTANCE PNMCompactor WITH Values <- Sizes, MaxJobs <- 0

ASSUME OffloadDeviceAssumption == Dev!DeviceAssumption

devVars  == <<srcBytesReg, dstBytesReg, statusReg, busy, eventIn,
              bytesProcessed, jobsCompleted, dmaRecord, drainState, charged,
              age, submits, cancels>>
unitVars == <<upc, unit, secondary, compactLock>>
jobVars  == <<jpc, mmioLock, size>>
histVars == <<owner, elapsed, cut>>
modeVars == <<svcMmio, unitMmio>>
vars == <<devVars, unitVars, jobVars, chan, histVars, modeVars>>

Closed == [svc |-> FALSE, unit |-> FALSE, req |-> "none", resp |-> "none"]

Terminal == {"installed", "compactedLocally", "failed"}
Active == {j \in Jobs : jpc[j] \notin Terminal \cup {"idle"}}

Init ==
  /\ Dev!Init
  /\ jpc = [j \in Jobs |-> "idle"]
  /\ upc = [j \in Jobs |-> "none"]
  /\ chan = [j \in Jobs |-> Closed]
  /\ unit = "starting"
  /\ secondary = FALSE
  /\ mmioLock = NoJob
  /\ compactLock = NoJob
  /\ \E mode \in MmioModes : svcMmio = mode[1] /\ unitMmio = mode[2]
  /\ size = [j \in Jobs |-> 0]
  /\ owner = NoJob
  /\ elapsed = {}
  /\ cut = {}

-----------------------------------------------------------------------------
(* The job's thread in rocksdb_pnm.                                        *)

GoTo(j, from, to) == jpc[j] = from /\ jpc' = [jpc EXCEPT ![j] = to]

(* RocksDB picks a compaction and calls Schedule.                          *)
Start(j) ==
  /\ GoTo(j, "idle", "connect")
  /\ Cardinality(Active) < MaxConcurrent
  /\ UNCHANGED <<devVars, unitVars, chan, mmioLock, size, histVars, modeVars>>

(* connect_to_unit: retried until the worker listens, or given up.         *)
Connect(j) ==
  /\ unit = "up"
  /\ GoTo(j, "connect", "send")
  /\ chan' = [chan EXCEPT ![j] = [Closed EXCEPT !.svc = TRUE, !.unit = TRUE]]
  /\ UNCHANGED <<devVars, unitVars, mmioLock, size, histVars, modeVars>>

ConnectFails(j) ==
  /\ unit = "dead" \/ "connect" \in Faults
  /\ GoTo(j, "connect", "local")
  /\ UNCHANGED <<devVars, unitVars, chan, mmioLock, size, histVars, modeVars>>

(* pnm_send_frame of the job, before the doorbell is rung.                 *)
SendJob(j) ==
  /\ chan[j].unit
  /\ GoTo(j, "send", IF svcMmio THEN "reset" ELSE "wait")
  /\ chan' = [chan EXCEPT ![j].req = "whole"]
  /\ UNCHANGED <<devVars, unitVars, mmioLock, size, histVars, modeVars>>

SendFails(j) ==
  /\ ~chan[j].unit \/ "send" \in Faults
  /\ GoTo(j, "send", "local")
  /\ chan' = [chan EXCEPT ![j].req = "partial", ![j].svc = FALSE]
  /\ UNCHANGED <<devVars, unitVars, mmioLock, size, histVars, modeVars>>

(* Mutants: the doorbell does not take mmio_mutex_; it does not reset the  *)
(* device first.                                                           *)
RingReset_Unlocked(j) ==
  /\ GoTo(j, "reset", "src")
  /\ mmioLock' = j
  /\ \E s \in Sizes : size' = [size EXCEPT ![j] = s]
  /\ Dev!write(Dev!OFF_CMD, Dev!CMD_RESET, 4)
  /\ cut' = IF Dev!scheduled THEN cut \cup {owner} ELSE cut
  /\ UNCHANGED <<unitVars, chan, owner, elapsed, modeVars>>

RingReset_Skipped(j) ==
  /\ mmioLock = NoJob
  /\ GoTo(j, "reset", "src")
  /\ mmioLock' = j
  /\ \E s \in Sizes : size' = [size EXCEPT ![j] = s]
  /\ UNCHANGED <<devVars, unitVars, chan, owner, elapsed, cut, modeVars>>

(* The doorbell: four stores under mmio_mutex_.  src_bytes is whatever the *)
(* input files that can be stat()ed add up to.                             *)
RingReset(j) ==
  /\ mmioLock = NoJob
  /\ GoTo(j, "reset", "src")
  /\ mmioLock' = j
  /\ \E s \in Sizes : size' = [size EXCEPT ![j] = s]
  /\ Dev!write(Dev!OFF_CMD, Dev!CMD_RESET, 4)
  /\ cut' = IF Dev!scheduled THEN cut \cup {owner} ELSE cut
  /\ UNCHANGED <<unitVars, chan, owner, elapsed, modeVars>>

RingSrc(j) ==
  /\ GoTo(j, "src", "dst")
  /\ Dev!write(Dev!OFF_SRC_BYTES, size[j], 8)
  /\ UNCHANGED <<unitVars, chan, mmioLock, size, histVars, modeVars>>

RingDst(j) ==
  /\ GoTo(j, "dst", "submit")
  /\ Dev!write(Dev!OFF_DST_BYTES, size[j], 8)
  /\ UNCHANGED <<unitVars, chan, mmioLock, size, histVars, modeVars>>

RingSubmit(j) ==
  /\ GoTo(j, "submit", "wait")
  /\ Dev!write(Dev!OFF_CMD, Dev!CMD_SUBMIT, 4)
  /\ mmioLock' = NoJob
  /\ owner' = j
  /\ elapsed' = IF statusReg' = Dev!STATUS_ERROR THEN elapsed \cup {j}
                                                 ELSE elapsed
  /\ UNCHANGED <<unitVars, chan, size, cut, modeVars>>

(* Wait: blocked in pnm_recv_frame until the answer or the end of stream.  *)
(* An answer already in the socket survives the worker's death.            *)
WaitSucceeds(j) ==
  /\ chan[j].resp = "ok"
  /\ GoTo(j, "wait", "result")
  /\ chan' = [chan EXCEPT ![j].svc = FALSE]
  /\ UNCHANGED <<devVars, unitVars, mmioLock, size, histVars, modeVars>>

WaitReportsFailure(j) ==
  /\ chan[j].resp = "fail"
  /\ GoTo(j, "wait", "failed")
  /\ chan' = [chan EXCEPT ![j].svc = FALSE]
  /\ UNCHANGED <<devVars, unitVars, mmioLock, size, histVars, modeVars>>

(* The stream ended without an answer.                                     *)
WaitLosesWorker(j) ==
  /\ chan[j].resp = "none" /\ ~chan[j].unit
  /\ GoTo(j, "wait", "local")
  /\ chan' = [chan EXCEPT ![j].svc = FALSE]
  /\ UNCHANGED <<devVars, unitVars, mmioLock, size, histVars, modeVars>>

(* recv() fails although the worker lives, and goes on with the job.       *)
RecvError(j) ==
  /\ "recv" \in Faults
  /\ GoTo(j, "wait", "local")
  /\ chan' = [chan EXCEPT ![j].svc = FALSE]
  /\ UNCHANGED <<devVars, unitVars, mmioLock, size, histVars, modeVars>>

(* The caller decodes the result and renames the output files into the DB. *)
Install(j) ==
  /\ GoTo(j, "result", "installed")
  /\ UNCHANGED <<devVars, unitVars, chan, mmioLock, size, histVars, modeVars>>

ResultUnreadable(j) ==
  /\ "result" \in Faults
  /\ GoTo(j, "result", "local")
  /\ UNCHANGED <<devVars, unitVars, chan, mmioLock, size, histVars, modeVars>>

RenameFails(j) ==
  /\ "rename" \in Faults
  /\ GoTo(j, "result", "failed")
  /\ UNCHANGED <<devVars, unitVars, chan, mmioLock, size, histVars, modeVars>>

(* kUseLocal: the same thread compacts on the host CPU.                    *)
CompactLocally(j) ==
  /\ GoTo(j, "local", "compactedLocally")
  /\ UNCHANGED <<devVars, unitVars, chan, mmioLock, size, histVars, modeVars>>

-----------------------------------------------------------------------------
(* The worker process pnm_compaction_unit.                                 *)

UnitGoTo(j, from, to) == upc[j] = from /\ upc' = [upc EXCEPT ![j] = to]

Listen ==
  /\ unit = "starting"
  /\ \/ unit' = "up"
     \/ "bind" \in Faults /\ unit' = "dead"
  /\ UNCHANGED <<devVars, jobVars, chan, upc, secondary, compactLock,
                 histVars, modeVars>>

Accept(j) ==
  /\ unit = "up" /\ chan[j].unit
  /\ UnitGoTo(j, "none", "recv")
  /\ UNCHANGED <<devVars, jobVars, chan, unit, secondary, compactLock,
                 histVars, modeVars>>

RecvJob(j) ==
  /\ chan[j].req = "whole"
  /\ UnitGoTo(j, "recv", "lock")
  /\ UNCHANGED <<devVars, jobVars, chan, unit, secondary, compactLock,
                 histVars, modeVars>>

RecvFails(j) ==
  /\ chan[j].req # "whole" /\ ~chan[j].svc
  /\ UnitGoTo(j, "recv", "closed")
  /\ chan' = [chan EXCEPT ![j].unit = FALSE]
  /\ UNCHANGED <<devVars, jobVars, unit, secondary, compactLock,
                 histVars, modeVars>>

(* Take g_compact_mutex and open the secondary DB if it is not open yet.   *)
EnsureSecondary(j) ==
  /\ compactLock = NoJob
  /\ compactLock' = j
  /\ \/ /\ UnitGoTo(j, "lock", "compact")
        /\ secondary' = TRUE
     \/ /\ ~secondary /\ "secondary" \in Faults
        /\ UnitGoTo(j, "lock", "fallback")
        /\ UNCHANGED secondary
  /\ UNCHANGED <<devVars, jobVars, chan, unit, histVars, modeVars>>

(* Send the answer, or fail to; leave handle_job, which releases           *)
(* g_compact_mutex, and close the connection.                              *)
Respond(j, answer) ==
  /\ \E resp \in {answer, "none"} :
       /\ resp = "none" => "send" \in Faults
       /\ chan' = [chan EXCEPT ![j].resp = resp, ![j].unit = FALSE]
  /\ compactLock' = NoJob
  /\ UNCHANGED <<devVars, jobVars, unit, secondary, histVars, modeVars>>

(* OpenAndCompact into a directory of the job's own; it answers without    *)
(* looking at the device.                                                  *)
Fallback(j) ==
  /\ UnitGoTo(j, "fallback", "closed")
  /\ \/ Respond(j, "ok")
     \/ "compact" \in Faults /\ Respond(j, "fail")

(* Catch up with the primary's MANIFEST, decode the input, compact and     *)
(* encode the result; the last three answer 0x01 when they fail.           *)
Compact(j) ==
  /\ UnitGoTo(j, "compact", IF unitMmio THEN "poll" ELSE "reply")
  /\ UNCHANGED <<devVars, jobVars, chan, unit, secondary, compactLock,
                 histVars, modeVars>>

CompactFails(j) ==
  /\ "compact" \in Faults
  /\ UnitGoTo(j, "compact", "closed")
  /\ Respond(j, "fail")

(* Mutants: the busy bit ends the poll too; the error bit does not.        *)
PollExits_OnBusy(st) ==
  st \in {Dev!STATUS_BUSY, Dev!STATUS_DONE, Dev!STATUS_ERROR}
PollExits_NotOnError(st) == st = Dev!STATUS_DONE

(* The worker's own copy of the status bits, tested with &.                *)
PollExits(st) == st \in {Dev!STATUS_DONE, Dev!STATUS_ERROR}

Poll(j) ==
  /\ PollExits(Dev!read(Dev!OFF_STATUS, 4))
  /\ UnitGoTo(j, "poll", "reply")
  /\ UNCHANGED <<devVars, jobVars, chan, unit, secondary, compactLock,
                 histVars, modeVars>>

Reply(j) ==
  /\ UnitGoTo(j, "reply", "closed")
  /\ Respond(j, "ok")

(* The worker dies: the kernel closes its sockets and its mutex, its       *)
(* threads and its secondary DB are gone.  Nobody restarts it.             *)
Crash ==
  /\ "crash" \in Faults
  /\ unit = "up"
  /\ unit' = "dead"
  /\ upc' = [j \in Jobs |-> "closed"]
  /\ chan' = [j \in Jobs |-> [chan[j] EXCEPT !.unit = FALSE]]
  /\ compactLock' = NoJob
  /\ secondary' = FALSE
  /\ UNCHANGED <<devVars, jobVars, histVars, modeVars>>

-----------------------------------------------------------------------------
DeviceTick ==
  /\ Dev!Tick
  /\ UNCHANGED <<unitVars, jobVars, chan, histVars, modeVars>>

DeviceCompletes ==
  /\ Dev!onComplete
  /\ elapsed' = elapsed \cup {owner}
  /\ UNCHANGED <<unitVars, jobVars, chan, owner, cut, modeVars>>

Device == DeviceTick \/ DeviceCompletes

Schedule(j) ==
  \/ Connect(j) \/ ConnectFails(j) \/ SendJob(j) \/ SendFails(j)
  \/ RingReset(j) \/ RingSrc(j) \/ RingDst(j) \/ RingSubmit(j)

Wait(j) == WaitSucceeds(j) \/ WaitReportsFailure(j) \/ WaitLosesWorker(j)

Finish(j) ==
  Install(j) \/ ResultUnreadable(j) \/ RenameFails(j) \/ CompactLocally(j)

JobThread(j) == Schedule(j) \/ Wait(j) \/ Finish(j)

HandleJob(j) ==
  \/ Accept(j) \/ RecvJob(j) \/ RecvFails(j) \/ EnsureSecondary(j)
  \/ Fallback(j) \/ Compact(j) \/ CompactFails(j) \/ Poll(j) \/ Reply(j)

(* All jobs are over: the only state the system may rest in.               *)
AllOver ==
  /\ \A j \in Jobs : jpc[j] \in Terminal
  /\ UNCHANGED vars

Next ==
  \/ \E j \in Jobs : Start(j) \/ JobThread(j) \/ RecvError(j) \/ HandleJob(j)
  \/ Listen \/ Crash \/ Device \/ AllOver

(* Every thread that can run is scheduled, and simulated time passes.      *)
(* RocksDB need not start a job, the worker need not crash, and a blocked  *)
(* recv() need not fail.                                                   *)
Fairness ==
  /\ \A j \in Jobs : WF_vars(JobThread(j)) /\ WF_vars(HandleJob(j))
  /\ WF_vars(Listen)
  /\ WF_vars(Device)

Spec == Init /\ [][Next]_vars /\ Fairness

-----------------------------------------------------------------------------
JobStates == Terminal \cup {"idle", "connect", "send", "reset", "src", "dst",
                            "submit", "wait", "result", "local"}
UnitStates == {"none", "recv", "lock", "compact", "fallback", "poll", "reply",
               "closed"}
Channel == [svc : BOOLEAN, unit : BOOLEAN, req : {"none", "partial", "whole"},
            resp : {"none", "ok", "fail"}]

(* The state of both processes and of the device has its type.             *)
OffloadTypeOK ==
  /\ Dev!TypeOK
  /\ jpc \in [Jobs -> JobStates]
  /\ upc \in [Jobs -> UnitStates]
  /\ chan \in [Jobs -> Channel]
  /\ unit \in {"starting", "up", "dead"}
  /\ secondary \in BOOLEAN
  /\ mmioLock \in Jobs \cup {NoJob}
  /\ compactLock \in Jobs \cup {NoJob}
  /\ svcMmio \in BOOLEAN /\ unitMmio \in BOOLEAN
  /\ size \in [Jobs -> Dev!Word]
  /\ owner \in Jobs \cup {NoJob}
  /\ elapsed \subseteq Jobs
  /\ cut \subseteq Jobs

(* Bytes the doorbell of job j asks the device to charge: dst_bytes is     *)
(* estimated as src_bytes, and the device adds the two in uint64_t.        *)
Charge(j) == (size[j] + size[j]) % Modulus[8]

(* Mutual exclusion of the two critical sections.                          *)
DoorbellExclusive ==
  \A j \in Jobs : jpc[j] \in {"src", "dst", "submit"} => mmioLock = j
WorkerExclusive ==
  \A j \in Jobs :
    upc[j] \in {"compact", "fallback", "poll", "reply"} => compactLock = j

(* A delay that is running on the device was charged for exactly the bytes *)
(* of the job that rang last, and the registers still hold them when       *)
(* onComplete reads them again: no doorbell of another thread slips in     *)
(* between a job's stores, none rewrites the registers of a running job.   *)
ChargedForOwner ==
  busy => /\ owner \in Jobs
          /\ size[owner] <= MaxJobBytes
          /\ charged = Charge(owner)
          /\ Dev!TotalBytes = Charge(owner)

(* STATUS_DONE and STATUS_ERROR always speak of the job that rang last.    *)
StatusOfOwner ==
  PollExits(statusReg) => owner \in elapsed

(* A worker that polls after its job's doorbell was rung leaves the loop   *)
(* only when its own delay has passed, or a later doorbell has cut it off: *)
(* never on an answer the device gave to an earlier job.                   *)
PollSeesOwnDelay ==
  \A j \in Jobs :
    svcMmio /\ upc[j] = "poll" /\ jpc[j] = "wait" /\ PollExits(statusReg) =>
      j \in elapsed \cup cut

(* The jobs whose delay passed, not those the device refused.              *)
Counted == {j \in elapsed : size[j] <= MaxJobBytes}

(* pnm_compactor.cc:194-195: BYTES_PROC is the sum of what the doorbells   *)
(* of those jobs asked for and JOBS_DONE their number: each of them is     *)
(* counted once, with its own bytes, and jobs cut off or refused add       *)
(* nothing.  The sum is a ledger of the jobs with its running totals.      *)
BytesAccounted ==
  \E job \in [1 .. jobsCompleted -> Jobs],
     total \in [0 .. jobsCompleted -> 0 .. bytesProcessed] :
    /\ Counted = {job[i] : i \in 1 .. jobsCompleted}
    /\ \A i, k \in 1 .. jobsCompleted : job[i] = job[k] => i = k
    /\ total[0] = 0
    /\ \A i \in 1 .. jobsCompleted : total[i] = total[i - 1] + Charge(job[i])
    /\ total[jobsCompleted] = bytesProcessed

(* Every rung doorbell is resolved: its delay passes, the device refuses   *)
(* it, or a later doorbell cuts it off.                                    *)
DelayResolved ==
  \A j \in Jobs : owner = j ~> j \in elapsed \cup cut

(* Every job RocksDB starts comes back from the service, whatever fails.   *)
JobsFinish ==
  \A j \in Jobs : j \in Active ~> jpc[j] \in Terminal

(* What Wait's comment says: it returns success only after the compaction  *)
(* and the PNM timing model have completed (pnm_compaction_service.h:149). *)
WaitAfterDelay ==
  \A j \in Jobs : jpc[j] \in {"result", "installed"} => j \in elapsed

=============================================================================
