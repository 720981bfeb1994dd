# Verification of the PNM compaction offload

The repository adds a *processing-near-memory* (PNM) compaction unit to a gem5
full-system simulation and lets RocksDB's `db_bench` offload compactions to it.
This project models what the repository itself adds: a gem5 device, a
compaction service inside RocksDB, a worker process, the protocol between them,
their launcher, the kernel driver and the experiment script. It also models the
upstream code that these depend on for their correctness: gem5's drain protocol
and the patched bridge in front of the device, and RocksDB's file numbers,
renames and installation around a remote compaction. It checks them with TLC
and proves the main safety properties with TLAPS. Paths below are relative to `src/`.

## 1. The system

| Component | Code | State | Operations |
|---|---|---|---|
| PNM device | `gem5/src/dev/pnm/pnm_compactor.{hh,cc}` | `srcBytesReg`, `dstBytesReg`, `statusReg`, `busy`, `completeEvent`, two statistics, a DMA record, a drain state | `read`, `write` (`CMD_SUBMIT`, `CMD_RESET`), `onComplete`, `drain` |
| Compaction service | `rocksdb/tools/pnm_compaction_service.h` | the mapping of `/dev/pnm`, `mmio_mutex_`, one socket per job | constructor, `Schedule`, `Wait` |
| Caller of the service | `rocksdb/db/compaction/compaction_service_job.cc` | the job's status, its output files | send input, interpret the answer, rename outputs into the DB |
| Worker | `rocksdb/tools/pnm_unit_main.cc` | `g_mmio_base`, `g_secondary_db`, `g_compact_mutex`, one thread per connection | `main` (bind, listen, accept), `ensure_secondary`, `handle_job` |
| IPC | `rocksdb/tools/pnm_ipc.h` | a UNIX stream socket | `pnm_send_frame`, `pnm_recv_frame`, `append_frame`, `parse_field` |
| Table files | `rocksdb/tools/pnm_unit_main.cc`, `rocksdb/db/compaction/*`, `rocksdb/db/db_impl/*`, `rocksdb/db/version_edit_handler.cc` | two file number counters, the staging directory, the DB directory, the MANIFEST, `pending_outputs_` | catch-up, open and finish an output, rename, verify, install, full scan, flush |
| Drain manager | `gem5/src/sim/drain.{hh,cc}`, `gem5/src/python/m5/simulate.py`, `gem5/configs/yonsei/run_pnm.py` | `_count`, `_state`, each object's `_drainState` | `tryDrain`, `signalDrainDone`, `resume`, `m5.drain()` |
| Launcher | `rocksdb/tools/db_bench_pnm_main.cc` | the worker's pid | fork/exec, kill at exit |
| Kernel module | `gem5/configs/yonsei/pnm_module.c` | four registrations | `pnm_init` and its unwinding, `pnm_mmap`, `pnm_exit` |
| Experiment | `gem5/configs/yonsei/run_pnm.py` | the CPU type, a checkpoint, statistics | the guest's script, the handlers of its m5 operations |
| IO bridge | `gem5/src/mem/bridge.cc` (patched) | reserved response slots, retry flag | timing request and response |

**How they interact.** A RocksDB background thread calls `Schedule`: it connects
to the worker, *sends the job*, and then rings the device's doorbell with four
MMIO stores (`RESET`, `SRC_BYTES`, `DST_BYTES`, `SUBMIT`) under `mmio_mutex_`.
The worker's thread compacts on the CPU under `g_compact_mutex`, then polls the
device's `STATUS` until it shows `DONE` or `ERROR`, and answers. `Wait` blocks on
the socket. The device does no work: it lets the latency of the job's bytes
pass. Both processes map the device; it is the only thing they share besides
the socket and the files. The configuration script drains the simulator when
the region of interest begins, before rocksdb_pnm starts; `m5.drain()` itself may
be called at any point of the above, and the device and the drain manager have to
get it right there too.

**What is hard.** The worker and the doorbell race: nothing orders "the worker
polls" after "the doorbell was rung". A doorbell resets whatever the device was
doing. Either process can fail at every call, and the worker can die. The poll
has no timeout and holds a mutex. The device keeps three representations of
"a job is in flight". A drain may begin between any two stores, and a store
that is already on its way arrives after the device has said it is drained.
The worker takes its file numbers from a MANIFEST that does not mention the
files it has just staged, and the primary moves those files one by one while
other threads install and delete theirs. A socket moves any number of bytes.
Workers and socket paths survive the runs that made them. The device is not
part of a checkpoint, and two of its registers are statistics.
`PROJECT.json` lists these hazards with the lines where they bite and the
properties that would catch them.

**What correctness means, per component.** Device: exact delays, no lost, extra
or doubly counted completion, a current DMA record, drained means idle. Service
and worker: every job comes back, a running delay belongs to the job that rang
last and is charged for its bytes, `STATUS` is not misread. Drain: the count is
right, the switch happens in a quiet system, every drain ends. IPC: a frame
arrives whole or not at all. Table files: what a version names is the finished
output it describes, under an id of its own; a job's outputs appear together;
nothing in use is deleted, nothing of a failed job stays. Launcher: a run is
served by its own worker and ends. Driver: nothing leaks, and what is registered
is undone in order. Experiment: the benchmark is measured on the right CPU, from
an unharmed device, and the statistics account for its jobs.

## 2. The modules

`PNMCompactor` is the device. One operator per branch of `PNMCompactor::write`
(`WriteSrc`, `WriteDst`, `SubmitWhileBusy`, `SubmitTooLarge`, `SubmitAccepted`,
`Reset`), `read`, `onComplete` and `drain`, each with the whole effect of the
handler. The client is the most general one: any store, of 1, 2, 4 or 8 bytes,
to any offset, at any time.

- Integers have the width of the code: `pktGet` and `pktSet` cut to the access
  width, the sum of the two byte registers wraps at 64 bits, the record's job
  count at 32. `Modulus` maps an access width to its number of values, so a run
  can scale the words down; the proofs hold for every `Modulus` with
  `4 < Modulus[n] <= Modulus[8]`.
- Time is relative: `eventIn` is the number of ticks `completeEvent` still has
  to wait (`NotScheduled` when it is not in the event queue).
- `double` bandwidth is the rational `BwNum/BwDen` ticks per byte, and the cast
  to `Tick` is the integer division. The rounding of `double` for totals above
  2^53 bytes is not modelled; `MAX_JOB_BYTES` bounds only `src_bytes`.
- Statistics are integers. gem5 keeps them in a `double`, exact below 2^53.
- `charged`, `age`, `submits`, `cancels` are history variables: no guard reads
  them.

`PNMOffload` composes the device with the service's threads, the worker's
threads and the sockets. A job has its own thread, connection and handler
thread, so `jpc`, `upc` and `chan` are functions of the job. Every MMIO store is
a step of its own, and a poll step is the `STATUS` load that ends the loop.
Acquiring a mutex is merged with the first step it protects and releasing it
with the last. The correspondence with the code:

| Actions | Code |
|---|---|
| `Start`, `Connect`, `ConnectFails`, `SendJob`, `SendFails` | `Schedule` up to line 102, `connect_to_unit` |
| `RingReset`, `RingSrc`, `RingDst`, `RingSubmit` | the doorbell, lines 104-138 |
| `WaitSucceeds`, `WaitReportsFailure`, `WaitLosesWorker`, `RecvError` | `Wait` and the status switch of its caller |
| `Install`, `ResultUnreadable`, `RenameFails`, `CompactLocally` | the rest of the caller |
| `Listen`, `Accept` | `main` of the worker |
| `RecvJob`, `RecvFails`, `EnsureSecondary`, `Fallback`, `Compact`, `CompactFails`, `Poll`, `Reply` | `handle_job` |
| `Crash` | death of the worker process; the kernel closes its sockets, nobody restarts it |
| `DeviceTick`, `DeviceCompletes` | gem5's event queue |

`Faults` says which failures may happen: `bind` (the worker exits), `connect`
(50 retries are used up), `send` (of the job or of the answer), `recv` (an error
in `Wait` while the worker lives and goes on), `secondary` (`ensure_secondary` fails),
`compact` (decode, compaction or encode fails), `crash`, `result` (the answer
cannot be decoded), `rename`. `MmioModes` says which process could map
`/dev/pnm`. `owner`, `elapsed` and `cut` are history variables.

`PNMDrain` composes the device with `DrainManager`, the loop of `m5.drain()`,
a script that calls it at any time and one CPU whose program rings the doorbell.
(`run_pnm.py` calls it once per process, at workbegin.) The CPU is
`TimingSimpleCPU` of `gem5/src/cpu/simple/timing.cc`: `drain()` finds it drained
between instructions, a store that was outstanding when the drain began still
arrives, and `tryCompleteDrain` signals when it has. `Overlap` says whether the
program may ring while a delay is still running, which the stale-DONE race of
section 3 makes possible.

`Bridge` is the IO bridge that every MMIO access of the guest passes, in timing
mode. `AcceptReq`, `StallReq` and `RefuseWhileStalled` are the outcomes of
`recvTimingReq`; `ReqSent`/`ReqRefused` and `RespSent`/`RespRefused` those of the
two `trySendTiming`; `QueueResp`/`DropOrphan` those of the patched
`recvTimingResp`. `reqSend` and `respSend` say whether a queue's `sendEvent` is
scheduled or its head was refused and the peer owes a retry. A retry that the
bridge sends lets the stalled sender call `recvTimingReq` again, as a step of
its own. Delays are left out: a scheduled event fires at any later time.

`JobEngine` is what the device promises: it takes one job at a time, lets the
latency of its bytes pass in full, and only then counts it and reports it.
`PNMCompactor` implements it (`ImplementsEngine`): status values map to the four
states, `eventIn` to what is still due.

`PNMIpc` is one connection at the level of bytes. `SendSome` and `RecvSome` are
one `send()` and one `recv()` of any length; lengths have four bytes of `Base`
values, so a run with `Base = 2` wraps at 16. `Message`, `append_frame` and
`parse_field` build and take apart the job. EINTR repeats a call with nothing
changed and is a stuttering step. `FrameChannel` is the abstract channel, one
frame delivered whole or an error; each direction of `PNMIpc` implements it
(`WholeFrames`). That is the channel `PNMOffload` uses.

`PNMStaging` follows table files from the worker's staging directory to the
version of the primary. The worker's steps are `CatchUp`, `OpenOutput`,
`FinishOutput`, `ReplyOk`; the primary's are `Start` (captures a file number in
`pending_outputs_`), `RenameNext` (one iteration of the installation loop),
`Verify`, `Install` (the version edit), and on a failure `SetBGError`, `Scan` and
`Purge`. `slots` is the number of compactions RocksDB runs at a time;
`behind` is history. A catch-up takes the MANIFEST's number, or a larger one that
the primary has given to a log file (`MarkFileNumberUsed`). A background error stops
background work or not, by its severity; a flush that finds it stopped, before or
after it has written its table, installs nothing and scans. `VerifyOutputFiles` reads the file it finds under a name: an unfinished
table fails; another job's finished table fails only when its size differs, so
both outcomes are possible. A file is identified with the output last written
to it. `VersionInstall` is what readers are promised: the outputs of a job appear
in one step, all of them, once, and never disappear (`AtomicInstall`).

`PNMSimulation` is an experiment: the lines of the guest's script that matter to
gem5, three ways to run `run_pnm.py`, and the device. `Restore` starts a
second process with a fresh device and the guest of the checkpoint.
`StatisticsToZero` resets the statistics behind two registers. Only this module
has `m5 resetstats`: `JobConservation` and `RecordIsCurrent` of `PNMCompactor` are
about a device whose statistics nobody resets. rocksdb_pnm is a number of jobs.
Its threads send them (`SendJob`) and ring for them (`Store`); the worker, another
process, answers them, with a poll that ends on whichever job's `DONE` it sees
(`PollDone`) or, when the job failed, the worker was lost or has not mapped the
device, without one (`AnswerUnpolled`). No order is assumed between a job's doorbell
and its answer. The program ends when every job it sent was rung for and answered.

`PNMLauncher` is a sequence of runs of rocksdb_pnm with the worker each of them
forks, and the socket path they share. Workers are ended by SIGTERM at any point;
with the fault `kill` a run ends without `atexit`, at any time, and leaves its worker
wherever that is. The history variable `early` holds the runs that were killed
before their worker had bound.

`PNMModule` is the driver: the registrations of `pnm_init` in their order, the
labels that undo them, `pnm_exit`, and processes that open, map, close and unmap.
That the kernel refuses to unload a module in use, which both `.owner` fields ask
it to, is an assumption, the guard of `Rmmod`: no property is stated about it.

The `*Proofs` modules hold the theorems. The `MC*`
modules give the scaled-down words and the sets a cfg needs. Operators named
`X_Something` just above an operator `X` are mutants of it: bugs that the
properties must catch. No specification uses them.

## 3. The runs

| Run | Instance | Shows |
|---|---|---|
| `device` | words of 16 and 8 values, stores of {0, 1, 2, 9, 15}, two jobs | `EventIffBusy`, `ExactDelay`, `JobConservation`, `RecordIsCurrent`, `ImplementsEngine`, `JobEnds` |
| `offload` | 2 jobs at once, all faults | `ChargedForOwner`, `PollSeesOwnDelay`, `BytesAccounted`, `JobsFinish`, `DelayResolved` |
| `drain` | 3 doorbells, 3 drains, no overlap | `NoDrainPanic`, `SwitchOnlyWhenIdle`, `DrainFinishes` |
| `bridge` | 3 reads, 2 posted writes, 2 request and 2 response slots | `SlotsMatchRequests`, `SendEventMatchesQueue`, `StallHasReason`, `EveryPacketServed` |
| `ipc` | one job and its answer, 6 jobs and 5 answers to choose from, a socket of 3 bytes, lengths modulo 16 | `IpcTypeOK`, `FieldsAsSent`, `OutcomeIsAnswer`, `WholeFrames`, `ExchangeEnds` |
| `staging` | 2 jobs, one at a time and both at once, up to 2 outputs, 1 flush, all faults | `StagingTypeOK`, `InstalledOwnAlone`, `DistinctIds`, `NoOrphans`, `PurgeSparesPending`, `AtomicInstall` |
| `simulation` | 3 ways to run, up to 3 jobs | `RoiOnTiming`, `DumpConserves`, `RestoresDevice`, `RunFinishes` |
| `launcher` | 3 runs, all faults | `OwnWorkerServes`, `LeftoverSocketHarmless`, `RunEnds`, `OwnOnceListening` |
| `module` | 3 loads, 3 processes, mappings of 1 and 2 pages | `NothingLeaked`, `ReverseOrder` |
| `stale_done` | 2 jobs, no fault | **violated**: `WaitAfterDelay` |
| `reset_during_drain` | 2 doorbells, 1 drain, overlap | **violated**: `DrainFinishes` |
| `staging_overwrite` | 2 concurrent jobs, no fault | **violated**: `InstalledOwn` |

The type invariants other than `IpcTypeOK` and `StagingTypeOK`, `StatusOfOwner` and
`DrainedMeansIdle` are proved for every instance and not repeated in a run.

**Bounds.** In `device` the values are chosen so that each branch is met: 9 + 9
wraps the 16-value word, 15 exceeds `MAX_JOB_BYTES` (9), 9 stored with a narrow
access arrives as 1, 0 leaves only the fixed latency, and 1 and 2 are the two
commands. Two jobs are enough for a job to meet what the previous one left; the
proofs cover any number. In the offload runs a size of 5 is charged as
(5 + 5) % 8 = 2 bytes and 7 is refused; a job of 0 bytes is met in `device`. Two jobs let a
job meet what a finished one left, or a running one; the proofs cover any
number. The modes of the mappings are all but the one where only the worker has
one (see below). In the drain runs `rung` and `drains` bound doorbells and drains; three of each let a second
drain meet what the first left at every position of the doorbell.
In `bridge` five packets fill both queues, together and
each alone. In `ipc` the inputs give messages that fit, that wrap to length 0, that are cut
inside a field and whose own field length wraps; a socket of 3 bytes splits
every header. In `staging` `slots` is chosen in the initial state: with one,
the second job meets what the first left in the staging directory; with two, it
meets the first while that renames and installs; two outputs leave a job half
renamed. The properties that hold only one at a time say so (`slots = 1`). In
`launcher` three runs let a worker two runs old interfere, and a run may be killed at
any time. A worker orphaned before it had bound can remove the path of a later
one, or bind between the later one's `unlink` and `bind`. Hence
`LeftoverSocketHarmless` says that a bind fails only in or after a run killed that
early, and `OwnOnceListening` is about runs with no such run before them. `SYMMETRY` is used on the job
names in `staging`, which has no liveness property.

**Fairness.** Weak fairness of the device's tick and completion: gem5's event
loop never stops while an event is scheduled. Weak fairness of each job's
service thread and worker thread: both kernels' schedulers run a runnable
thread, and a worker waiting for `g_compact_mutex` waits for holders that all
release it (with two jobs there is one waiter, so no strong fairness is
needed); a blocked `recv` never has to fail (`RecvError`). Weak fairness of the drain script's steps and of the arrival of an
outstanding store. In `bridge`, strong fairness of the two successful sends: a
bus that refuses a packet sends a retry when it is free and cannot refuse for
ever; weak fairness of senders and devices. In `ipc`, weak fairness of both
processes and of a transfer that can go on: bytes and room for them, or the end
of the stream; an error never has to happen. In `simulation`, of the guest, the
worker's poll, the event queue and the handlers: gem5 simulates until a handler
says otherwise, an answer without a poll never has to happen,
db_bench's workload is finite, and the second command of a checkpointed
experiment is run. In `launcher`, of the processes, the finite benchmark and
the delivery of a pending signal. Nothing makes RocksDB start a job, the script drain, or a
fault happen.

`reset_during_drain` does not check for deadlock: the drain that never ends is
such a state. Neither do `simulation`, `launcher` and `module`, where everything
ends: the experiment, the last run, the last unload. In the other runs deadlock
is checked.

### What the violated runs show

- **Stale DONE.** Job 1 ends, `STATUS` stays `DONE`. Job 2 is sent, the worker
  compacts it and polls before `Schedule` has rung the doorbell, sees job 1's
  `DONE`, and answers. The doorbell is rung afterwards, and `Wait` finds the
  answer already there and returns while the job's delay runs, unlike its comment
  says. `PollSeesOwnDelay` shows how far this goes: a worker
  that polls *after* its own doorbell is never misled.
- **Reset while draining.** `CMD_RESET` removes the completion event of a device
  that owes the drain manager a signal; `m5.drain()` does not return. With a
  guest that rings only when the device is idle (`drain`), every drain ends.
- **Overwritten output.** The worker's mutex is free as soon as it has answered.
  With two compactions at a time the next job catches up to the same MANIFEST,
  gets the number the first job's staged file still has, and truncates it. With
  one compaction at a time, db_bench's default, the primary has
  renamed before the next job starts: `InstalledOwnAlone` of `staging`.

### Other disagreements met while modelling

No run is kept for these; the constants that reproduce them are given.

- **Fallback.** When the secondary DB cannot be opened, the fallback answers
  without polling, though `gem5/docs/DB_BENCH_CUSTOMIZATION.md:54-55` says that
  the response comes after the poll: `WaitAfterDelay` with one job and the fault
  `secondary`.
- **Overlap.** `pnm_compaction_service.h:10-12` says that jobs never overlap on
  the device. Because of the stale answer RocksDB may start job 3 while job 2's
  delay runs, and job 3's doorbell resets it: `cut` is not empty, with three jobs,
  one at a time and no fault. The device's statistics then miss job 2;
  `DumpConserves` says that they miss no others but the last, which may still be
  running when they are written.
- **Half mapped.** Both processes map `/dev/pnm` on their own. When only the
  worker can, it polls after every compaction for a doorbell that is never rung,
  holding `g_compact_mutex`; no job returns: `JobsFinish` with
  `MmioModes = {<<FALSE, TRUE>>}`.
- **Same id.** A table's unique id is made of the session and the number it was
  written under. The worker's counter is set back when outputs were staged and
  not installed. If the next catch-up fails, whose status is ignored
  (`pnm_unit_main.cc:183`), a number is used twice in one session:
  `DistinctIds` without its `~behind`, with three jobs one at a time and the faults
  `catchup` and `result`. Without failed catch-ups ids differ, because an installed
  job always moves the MANIFEST past its numbers.
- **Counters.** `gem5/docs/GEM5_CUSTOMIZATIONS.md:40-41` calls `BYTES_PROC` and
  `JOBS_DONE` cumulative. They are statistics and go back to zero at the script's
  own `m5 resetstats` and `m5 dumpresetstats` (`StatisticsToZero` in
  `PNMSimulation`).

## 4. The proofs

`PNMCompactorProofs` proves for every value of the constants allowed by
`DeviceAssumption`:

- `DeviceInvariant`: `TypeOK`, `EventIffBusy`, `ExactDelay`, `JobConservation`
  and `RecordIsCurrent` together are inductive. They are proved together
  because `JobConservation` is not inductive alone: that `Reset` counts a
  cancelled job, and that `onComplete` ends the job that was counted, needs
  `busy` to agree with the event (`EventIffBusy`).
- Corollaries for each, and the action property `DeviceDrainedMeansIdle`.
- `DeviceImplementsEngine`: under the inductive invariant every step of the
  device is a step of `JobEngine` or leaves its state alone.

`PNMOffloadProofs` proves for any set of jobs, any concurrency, any set of
sizes, faults and modes:

- `OffloadInvariant`: `OffloadInv` is inductive. It strengthens
  `ChargedForOwner` and `StatusOfOwner` with the mutual exclusion of the two
  critical sections and with `RegistersOfDoorbell`, which says what the
  registers hold and that the device is idle at each position of a doorbell:
  from this follows that the submit charges the job's own bytes.
- `OffloadTypeCorrect`, `OffloadChargedForOwner`, `OffloadStatusOfOwner`,
  `OffloadExclusive`.
- `OffloadPollSeesOwnDelay`, from `RungResolved` on top of `OffloadInv`: a job that
  rang is the last to have rung, or its delay has passed or was reset. A doorbell
  keeps it because it submits to an idle device.
- `OffloadCountsEachJobOnce`, an action property, from `CountedOnce`: a job rings
  once, its size is fixed from then on, and it is not counted while its delay
  runs. `OffloadBytesAccounted` follows. `BytesAccounted` states the sum as a
  ledger, the counted jobs in some order with the running total of their bytes,
  ending in `BYTES_PROC` and `JOBS_DONE`: a completion adds a line to it, where
  a fold over the set would need an induction.

`BridgeProofs` proves for any set of packets and any limits:

- `BridgeInvariant`: `BridgeInv` is inductive. The counter is decremented with
  no test, so that it stays within its limits follows only from
  `SlotsMatchRequests`, an equation with a cardinality; a step that moves a
  packet keeps it because a packet is in one place at a time (`OnePlace`).
- `BridgeTypeCorrect`, `BridgeSlots`, `BridgeSendEvents`, `BridgeStalls`. The second
  also shows that the discarding branch the patch adds to the response side's
  `trySendTiming` is never taken: no orphan gets that far.

`PNMDrainProofs` proves for any number of doorbells and drains, and for a guest
that may ring while a delay runs as well (`Overlap`): `DrainInv` is
inductive. It says that the manager's count is the number of objects that owe a
signal, and which objects are drained at each point of the script; from it follow
`DrainTypeCorrect`, `DrainNeverPanics` and `DrainSwitchIdle`.

`PNMLauncherProofs` proves for any number of runs and any faults: `LauncherInv` is
inductive. It orders the runs (`InOrder`), ties a worker's state to its run's
(`UnitOfRun`), and says for the runs before any that was killed too early
(`Clean`) that the path is free between their worker's `unlink` and its `bind`, and
then its own or gone for as long as the run lasts (`PathOfRun`). Corollaries: `LauncherTypeCorrect`, `LauncherOwnWorker`,
`LauncherLeftover`, and the action property `LauncherOwnOnceListening`.

`PNMGuestProofs` is about the driver and the experiment. It proves for any set of
processes and sizes: `ModuleInv`, which says what is registered at each point of
`pnm_init` and `pnm_exit`, is inductive; `ModuleTypeCorrect`, `ModuleNothingLeaked` and
`ModuleReverseOrder` follow.

About the experiment it proves, for any number of jobs and the three modelled ways
to run it, that `SimInv` is inductive: before the measured region the device is as
it was built (`Unused`), from there on the CPU is TIMING, and every submitted job was
counted, was cut off or is running (`SimJobs`). `SimulationRoiOnTiming` is
immediate. `SimulationRestoresDevice` holds because the checkpoint is taken
before the region, when there is nothing to lose: it is not the device's
doing. `SimulationDumpConserves` is `SimJobs` at the dump; it needs that the
statistics were reset before the first job, and that no doorbell comes after it.

`PNMIpcProofs` proves for every message and answer, every socket capacity, any
`Base` above 1, any sequence of short counts and any death of a side, that
`IpcInv` is inductive:

- `StreamInv` is the loops' argument: in each direction what the receiver has,
  what the socket holds and what `send_all` has left are consecutive pieces of
  header and body. `RecvInv` says which piece the receiver is at, so that the
  length it decodes is the one that was encoded (`LengthOfHeader`: four digits of
  `Base`).
- `ExchangeInv` follows the frames through both processes: the worker parses
  what it received, the service reads the answer to its own job.
- `ParseMessage` is the lemma about the encoding: if no field's own length
  wraps, taking the whole message apart gives back its three fields, and every
  proper prefix of it is found malformed.
- Theorems: `IpcTypes`, `FieldsAsSentTheorem`, `OutcomeIsAnswerTheorem`, and
  `IpcRefinesChannel`: each direction implements `FrameChannel`.

`PNMStagingProofs` proves for any number of jobs, outputs and flushes and any
failures that `StagingInv` is inductive. Its layers build on each other:

- `WorkerInv`, `PartialInv`: the worker works for a thread that waits, and an
  unfinished file belongs to a job that is writing it or never answers.
- `HeldInv`, `SafeInv`: a thread's captured number is not above any number its
  own metadata holds. A scan spares every number that is not below the smallest captured one,
  which is why it never condemns a file in use; `PurgeSparesTheorem` is the
  result, with any number of jobs at a time.
- `NumbersInv`, `MetasInv`, `LiveInv`: a number names one table; a job's metadata
  are the outputs it has moved so far, or all that it compacted itself.
- `AloneInv` (one compaction at a time): announced outputs not yet renamed are
  still in the staging directory under their numbers. Hence
  `InstalledOwnTheorem`; `staging_overwrite` shows that it fails with two.
- `UidInv`, `IdsInv`: staged numbers are above every unique id the worker gave to
  a file of the version, because each rename also takes a number of the
  primary's and the MANIFEST carries it to the next catch-up. Hence
  `DistinctIdsTheorem`.
- `OrphanInv`: a file nobody owns is left by a job that has yet to scan, or
  condemned by its scan. Hence `NoOrphansTheorem`.
- `StagingRefinesInstall`: under the invariant every step installs all outputs
  of one job or leaves what readers see alone.

The only assumptions are the `ASSUME`s on the constants, which TLC evaluates
in every run.

**Only model-checked.** Liveness (`JobEnds`, `JobsFinish`, `DelayResolved`,
`DrainFinishes`, `EveryPacketServed`, `ExchangeEnds`,
`RunFinishes`, `RunEnds`): it rests on fairness and ENABLED, which the prover does
not reason about. Every safety property and every refinement of the passing runs is a
theorem.

## 5. Not modelled

The repository holds gem5 and RocksDB in full, about 1.6 million lines; its own
code is thirteen files with some 1,900 lines, and changes to a dozen upstream
ones. The modules cover the former but for configuration and logging, and the
upstream code that the former's correctness depends on. The rest of gem5 (ISAs,
CPUs, GPU, Ruby) and RocksDB (its other APIs, tools, bindings) has no bearing on
the offload and is left out.

- The caller's failure to serialize the job's input, before `Schedule` is called.
- Atomic and functional accesses through the bridge (they do not change its
  state); the patched caches and crossbar.
- What a compaction computes, the contents of inputs and results, RocksDB's
  serialization, log output, statistics other than the device's.
- Staging: the `OpenAndCompact` fallback, whose outputs have a directory of their
  own per job; blob files; `paranoid_file_checks`; periodic full scans; failures
  of a local compaction, of writing a flushed table and of the MANIFEST write; one
  table stands for all outputs of a local compaction. `AtomicInstall` says nothing
  about two compactions at a time, of which `staging_overwrite` shows the worst. `NoOrphans` is about behaviours without a
  flush and one compaction at a time: another one under way keeps a failed job's
  files alive through the scan, and no later scan comes.
- The worker's answer to a malformed message is in `PNMIpc`; in `PNMOffload` it is
  unreachable, since the messages `Schedule` builds parse.
- Experiment: booting on the atomic CPU and switching, which the script says
  stops gem5; the board; `run_baseline.py`, which has neither device nor worker;
  the image builder.
- Launcher: pinning processes to cores.
- Other SimObjects in the drain: the device and one CPU stand for them.

## 6. Plan

Done: the device, the offload protocol, the drain and the bridge; then the IPC,
the table files, the abstract device, the experiment with its checkpoints, the
launcher and the driver; proofs for all of them, with the refinements of
`JobEngine`, `FrameChannel` and `VersionInstall`.

Left: action properties that the inductive invariants already give (that a job's
phases only move forward, that a file of the version is never written again),
and a bound on the delay a job can see as a theorem about `PNMOffload`.
