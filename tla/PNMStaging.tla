----------------------------- MODULE PNMStaging -----------------------------
(***************************************************************************)
(* The table files of offloaded compactions, from the worker's staging     *)
(* directory to the version of the primary DB.                             *)
(*                                                                         *)
(* The worker (tools/pnm_unit_main.cc) compacts on one secondary DB that   *)
(* it keeps open: its outputs go to the shared directory kSecondaryPath    *)
(* under file numbers that each catch-up takes from the MANIFEST           *)
(* (db/version_edit_handler.cc).  It leaves g_compact_mutex when it has    *)
(* answered; the primary (db/compaction/compaction_service_job.cc) then    *)
(* renames the files into the DB directory one by one, verifies them, and  *)
(* logs a version edit.  A failed job stops background work, and a full    *)
(* scan deletes what it left (db/db_impl/db_impl_files.cc).  Flushes run   *)
(* in between.                                                             *)
(*                                                                         *)
(* A file is the output <<thread, k>> last written to it.  Table contents, *)
(* inputs and their deletion are left out.                                 *)
(***************************************************************************)
EXTENDS Integers, FiniteSets

CONSTANTS
  Jobs,            \* compactions
  FlushThread,     \* the thread that flushes memtables
  NoJob,           \* not a job
  Concurrency,     \* how many compactions RocksDB may run at a time, a set
  MaxOutputs,      \* bound: output files of a compaction
  MaxFlushes,      \* bound: flushes
  Faults           \* which failures may happen, a subset of AllFaults

AllFaults == {"catchup", "compact", "crash", "result", "rename"}

Threads == Jobs \cup {FlushThread}

ASSUME StagingAssumption ==
  /\ IsFiniteSet(Jobs)
  /\ FlushThread \notin Jobs /\ NoJob \notin Threads
  /\ Concurrency \subseteq Nat \ {0}
  /\ MaxOutputs \in Nat /\ MaxFlushes \in Nat
  /\ Faults \subseteq AllFaults

VARIABLES
  slots,           \* compactions at a time (1 with max_background_jobs = 2)
  nextFile,        \* the primary's VersionSet::next_file_number_
  manifestNext,    \* next file number in the last MANIFEST record
  live,            \* files of the current version, as their metadata
  dbDir,           \* files in the DB directory
  pending,         \* pending_outputs_: number a thread captured, 0 if none
  stopped,         \* error_handler_.IsBGWorkStopped()
  tpc,             \* where the primary's thread is
  metas,           \* outputs the thread adds to the version, as metadata
  doomed,          \* files the thread's full scan found obsolete
  flushes,         \* flushes begun
  moved,           \* output files of the job renamed so far
  unitUp,          \* the worker process runs
  unitNext,        \* the secondary's next_file_number_, 0 before it is open
  compactLock,     \* holder of g_compact_mutex
  upc,             \* where the worker thread of the job is
  first, outs,     \* the job's first staged number, and how many it opened
  staging,         \* files in kSecondaryPath
  partial,         \* outputs begun and not finished
  behind           \* history: a catch-up has failed

primaryVars == <<slots, nextFile, manifestNext, live, dbDir, pending, stopped, tpc,
                 metas, doomed, flushes, moved>>
unitVars    == <<unitUp, unitNext, compactLock, upc, first, outs, partial,
                 behind>>
vars        == <<primaryVars, unitVars, staging>>

Active == {j \in Jobs : tpc[j] \notin {"idle", "ended"}}

Init ==
  /\ slots \in Concurrency
  /\ nextFile = 2 /\ manifestNext = 2
  /\ live = {} /\ dbDir = {} /\ staging = {}
  /\ pending = [t \in Threads |-> 0]
  /\ stopped = FALSE
  /\ tpc = [t \in Threads |-> "idle"]
  /\ metas = [t \in Threads |-> {}]
  /\ doomed = [t \in Threads |-> {}]
  /\ flushes = 0
  /\ moved = [j \in Jobs |-> 0]
  /\ unitUp = TRUE
  /\ unitNext = 0
  /\ compactLock = NoJob
  /\ upc = [j \in Jobs |-> "none"]
  /\ first = [j \in Jobs |-> 0] /\ outs = [j \in Jobs |-> 0]
  /\ partial = {}
  /\ behind = FALSE

(* A table's unique id is made of the session id of the DB that wrote it   *)
(* and the number it was written under.                                    *)
UniqueId(session, n) == [session |-> session, num |-> n]
Meta(n, out, uid)    == [num |-> n, out |-> out, uid |-> uid]
File(n, out)         == [num |-> n, of |-> out]

StagedNumber(j, k) == first[j] + k - 1
StagedFiles(j, k)  == {f \in staging : f.num = StagedNumber(j, k)}

-----------------------------------------------------------------------------
(* The worker.                                                             *)

(* Mutant: the secondary is caught up when it is opened, and no more.      *)
CatchUp_AtOpenOnly(j) ==
  /\ upc[j] = "queued" /\ compactLock = NoJob
  /\ compactLock' = j
  /\ unitNext' = 3 /\ behind' = behind
  /\ first' = [first EXCEPT ![j] = unitNext']
  /\ upc' = [upc EXCEPT ![j] = "compacting"]
  /\ UNCHANGED <<primaryVars, unitUp, outs, partial, staging>>

(* handle_job under the lock: TryCatchUpWithPrimary sets the next file     *)
(* number from the MANIFEST, also backwards, and past any log file it      *)
(* finds, whose number the primary gave out; its status is ignored, and a  *)
(* failed one leaves the number alone.                                     *)
CatchUp(j) ==
  /\ upc[j] = "queued" /\ compactLock = NoJob
  /\ compactLock' = j
  /\ \/ /\ unitNext' \in {manifestNext + 1} \cup (manifestNext + 1 .. nextFile)
        /\ behind' = behind
     \/ /\ "catchup" \in Faults /\ unitNext # 0
        /\ unitNext' = unitNext /\ behind' = TRUE
  /\ first' = [first EXCEPT ![j] = unitNext']
  /\ upc' = [upc EXCEPT ![j] = "compacting"]
  /\ UNCHANGED <<primaryVars, unitUp, outs, partial, staging>>

(* Mutant: the file is opened without O_TRUNC, what it held stays.         *)
OpenOutput_KeepsOld(j) ==
  /\ upc[j] = "compacting"
  /\ outs[j] < MaxOutputs
  /\ unitNext' = unitNext + 1
  /\ outs' = [outs EXCEPT ![j] = @ + 1]
  /\ staging' = IF \E f \in staging : f.num = unitNext THEN staging
                ELSE staging \cup {File(unitNext, <<j, outs[j] + 1>>)}
  /\ partial' = partial \cup {<<j, outs[j] + 1>>}
  /\ upc' = [upc EXCEPT ![j] = "writing"]
  /\ UNCHANGED <<primaryVars, behind, unitUp, compactLock, first>>

(* OpenCompactionOutputFile: a new number; an existing file is truncated.  *)
OpenOutput(j) ==
  /\ upc[j] = "compacting"
  /\ outs[j] < MaxOutputs
  /\ unitNext' = unitNext + 1
  /\ outs' = [outs EXCEPT ![j] = @ + 1]
  /\ LET out == <<j, outs[j] + 1>>
     IN  /\ staging' = {f \in staging : f.num # unitNext}
                         \cup {File(unitNext, out)}
         /\ partial' = partial \cup {out}
  /\ upc' = [upc EXCEPT ![j] = "writing"]
  /\ UNCHANGED <<primaryVars, behind, unitUp, compactLock, first>>

FinishOutput(j) ==
  /\ upc[j] = "writing"
  /\ partial' = partial \ {<<j, outs[j]>>}
  /\ upc' = [upc EXCEPT ![j] = "compacting"]
  /\ UNCHANGED <<primaryVars, behind, unitUp, unitNext, compactLock, first,
                 outs, staging>>

(* The answer with the names of the outputs; handle_job returns and        *)
(* releases the lock.                                                      *)
ReplyOk(j) ==
  /\ upc[j] = "compacting"
  /\ upc' = [upc EXCEPT ![j] = "ok"]
  /\ compactLock' = NoJob
  /\ UNCHANGED <<primaryVars, behind, unitUp, unitNext, first, outs, partial,
                 staging>>

(* A failed compaction leaves its files in the staging directory.          *)
CompactFails(j) ==
  /\ "compact" \in Faults
  /\ upc[j] \in {"compacting", "writing"}
  /\ upc' = [upc EXCEPT ![j] = "fail"]
  /\ compactLock' = NoJob
  /\ UNCHANGED <<primaryVars, behind, unitUp, unitNext, first, outs, partial,
                 staging>>

(* The worker dies; answers it has sent can still be read.                 *)
Crash ==
  /\ "crash" \in Faults
  /\ unitUp
  /\ unitUp' = FALSE
  /\ compactLock' = NoJob
  /\ upc' = [j \in Jobs |-> IF upc[j] \in {"queued", "compacting", "writing"}
                            THEN "dead" ELSE upc[j]]
  /\ UNCHANGED <<primaryVars, behind, unitNext, first, outs, partial,
                 staging>>

-----------------------------------------------------------------------------
(* The primary's compaction threads.                                       *)

Step(t, from, to) == tpc[t] = from /\ tpc' = [tpc EXCEPT ![t] = to]

(* BackgroundCallCompaction captures the next file number; Schedule sends  *)
(* the job, or falls back when there is no worker.                         *)
Start(j) ==
  /\ ~stopped
  /\ Cardinality(Active) < slots
  /\ Step(j, "idle", IF unitUp THEN "wait" ELSE "local")
  /\ pending' = [pending EXCEPT ![j] = nextFile]
  /\ upc' = IF unitUp THEN [upc EXCEPT ![j] = "queued"] ELSE upc
  /\ UNCHANGED <<slots, nextFile, manifestNext, live, dbDir, stopped, metas,
                 doomed, flushes, moved, unitUp, unitNext, compactLock, first,
                 outs, partial, behind, staging>>

OnlyStep == UNCHANGED <<slots, nextFile, manifestNext, live, dbDir, pending,
                        stopped, metas, doomed, flushes, moved, unitVars,
                        staging>>

Received(j)         == upc[j] = "ok" /\ Step(j, "wait", "install") /\ OnlyStep
ResultUnreadable(j) == /\ "result" \in Faults
                       /\ upc[j] = "ok" /\ Step(j, "wait", "local") /\ OnlyStep
WorkerLost(j)       == upc[j] = "dead" /\ Step(j, "wait", "local") /\ OnlyStep

WaitFailed(j)       == upc[j] = "fail" /\ Step(j, "wait", "failing") /\ OnlyStep

(* The status of a failed job becomes a background error, whatever failed; *)
(* its severity decides if background work stops.                          *)
SetBGError(j) ==
  /\ Step(j, "failing", "failed")
  /\ stopped' \in {stopped, TRUE}
  /\ UNCHANGED <<slots, nextFile, manifestNext, live, dbDir, pending, metas,
                 doomed, flushes, moved, unitVars, staging>>

(* One iteration of the installation loop: a new file number, and the      *)
(* rename of the staged file to it.                                        *)
RenameNext(j) ==
  /\ tpc[j] = "install" /\ moved[j] < outs[j]
  /\ LET k == moved[j] + 1
     IN  \E f \in StagedFiles(j, k) :
           /\ staging' = staging \ {f}
           /\ dbDir' = dbDir \cup {File(nextFile, f.of)}
           /\ metas' = [metas EXCEPT ![j] = @ \cup
                {Meta(nextFile, <<j, k>>, UniqueId("unit", f.num))}]
  /\ moved' = [moved EXCEPT ![j] = @ + 1]
  /\ nextFile' = nextFile + 1
  /\ UNCHANGED <<slots, manifestNext, live, pending, stopped, tpc, doomed,
                 flushes, unitVars>>

RenameFails(j) ==
  /\ moved[j] < outs[j]
  /\ "rename" \in Faults \/ StagedFiles(j, moved[j] + 1) = {}
  /\ Step(j, "install", "failing")
  /\ nextFile' = nextFile + 1
  /\ UNCHANGED <<slots, manifestNext, live, dbDir, pending, stopped, metas,
                 doomed, flushes, moved, unitVars, staging>>

(* VerifyOutputFiles opens each file with the size and the unique id of    *)
(* its metadata: a file that is not finished fails; another job's output   *)
(* that was written under the same number has the same unique id and fails *)
(* only if its size differs.                                               *)
Foreign(m)  == \E f \in dbDir : f.num = m.num /\ f.of # m.out
Complete(m) == \A f \in dbDir : f.num = m.num => f.of \notin partial

Verify(j) ==
  /\ moved[j] = outs[j]
  /\ \A m \in metas[j] : Complete(m)
  /\ Step(j, "install", "verified")
  /\ OnlyStep

VerifyFails(j) ==
  /\ moved[j] = outs[j]
  /\ \E m \in metas[j] : Foreign(m) \/ ~Complete(m)
  /\ Step(j, "install", "failing")
  /\ OnlyStep

(* Mutant: the number is read and not taken.                               *)
CompactLocally_PeeksNumber(j) ==
  /\ Step(j, "local", "verified")
  /\ dbDir' = dbDir \cup {File(nextFile, <<j, 0>>)}
  /\ metas' = [metas EXCEPT ![j] =
                 {Meta(nextFile, <<j, 0>>, UniqueId("db", nextFile))}]
  /\ UNCHANGED <<slots, nextFile, manifestNext, live, pending, stopped,
                 doomed, flushes, moved, unitVars, staging>>

(* The job runs on the CPU and writes to the DB directory itself: one      *)
(* output stands for all, and a failure of it is left out.                 *)
CompactLocally(j) ==
  /\ Step(j, "local", "verified")
  /\ dbDir' = dbDir \cup {File(nextFile, <<j, 0>>)}
  /\ metas' = [metas EXCEPT ![j] =
                 {Meta(nextFile, <<j, 0>>, UniqueId("db", nextFile))}]
  /\ nextFile' = nextFile + 1
  /\ UNCHANGED <<slots, manifestNext, live, pending, stopped, doomed, flushes,
                 moved, unitVars, staging>>

(* Mutant: the last output is left out of the version edit.                *)
Install_DropsLast(j) ==
  /\ Step(j, "verified", "ended")
  /\ live' = live \cup {m \in metas[j] : \E n \in metas[j] : n.num > m.num}
  /\ manifestNext' = nextFile
  /\ pending' = [pending EXCEPT ![j] = 0]
  /\ UNCHANGED <<slots, nextFile, dbDir, stopped, metas, doomed, flushes,
                 moved, unitVars, staging>>

(* InstallCompactionResults: LogAndApply writes the edit with the current  *)
(* next file number; then the captured number is released.                 *)
Install(j) ==
  /\ Step(j, "verified", "ended")
  /\ live' = live \cup metas[j]
  /\ manifestNext' = nextFile
  /\ pending' = [pending EXCEPT ![j] = 0]
  /\ UNCHANGED <<slots, nextFile, dbDir, stopped, metas, doomed, flushes,
                 moved, unitVars, staging>>

(* Mutant: files of running jobs are not kept.                             *)
Keep_LiveOnly(n, held) == \E m \in live : m.num = n

(* Files a full scan keeps: those of the version, and those not older than *)
(* some captured number.                                                   *)
Keep(n, held) ==
  \/ \E m \in live : m.num = n
  \/ \E t \in Threads : held[t] # 0 /\ held[t] <= n

Obsolete(held) == {f.num : f \in {g \in dbDir : ~Keep(g.num, held)}}

(* Mutant: the captured number is released after the scan.                 *)
Scan_HoldsNumber(t, from) ==
  /\ Step(t, from, "purge")
  /\ pending' = [pending EXCEPT ![t] = 0]
  /\ doomed' = [doomed EXCEPT ![t] = Obsolete(pending)]
  /\ UNCHANGED <<slots, nextFile, manifestNext, live, dbDir, stopped, metas,
                 flushes, moved, unitVars, staging>>

(* After a failure: release the captured number, FindObsoleteFiles with a  *)
(* full scan; then PurgeObsoleteFiles, outside the mutex.                  *)
Scan(t, from) ==
  /\ Step(t, from, "purge")
  /\ pending' = [pending EXCEPT ![t] = 0]
  /\ doomed' = [doomed EXCEPT ![t] = Obsolete(pending')]
  /\ UNCHANGED <<slots, nextFile, manifestNext, live, dbDir, stopped, metas,
                 flushes, moved, unitVars, staging>>

Purge(t, to) ==
  /\ Step(t, "purge", to)
  /\ dbDir' = {f \in dbDir : f.num \notin doomed[t]}
  /\ UNCHANGED <<slots, nextFile, manifestNext, live, pending, stopped, metas,
                 doomed, flushes, moved, unitVars, staging>>

-----------------------------------------------------------------------------
(* The flush thread.                                                       *)
BeginFlush ==
  /\ ~stopped /\ flushes < MaxFlushes
  /\ Step(FlushThread, "idle", "flush")
  /\ flushes' = flushes + 1
  /\ pending' = [pending EXCEPT ![FlushThread] = nextFile]
  /\ UNCHANGED <<slots, nextFile, manifestNext, live, dbDir, stopped, metas,
                 doomed, moved, unitVars, staging>>

WriteFlush ==
  /\ ~stopped
  /\ Step(FlushThread, "flush", "flushed")
  /\ LET out == <<FlushThread, flushes>>
     IN  /\ dbDir' = dbDir \cup {File(nextFile, out)}
         /\ metas' = [metas EXCEPT ![FlushThread] =
                        {Meta(nextFile, out, UniqueId("db", nextFile))}]
  /\ nextFile' = nextFile + 1
  /\ UNCHANGED <<slots, manifestNext, live, pending, stopped, doomed, flushes,
                 moved, unitVars, staging>>

InstallFlush ==
  /\ ~stopped
  /\ Step(FlushThread, "flushed", "idle")
  /\ live' = live \cup metas[FlushThread]
  /\ manifestNext' = nextFile
  /\ pending' = [pending EXCEPT ![FlushThread] = 0]
  /\ UNCHANGED <<slots, nextFile, dbDir, stopped, metas, doomed, flushes,
                 moved, unitVars, staging>>

(* A flush that finds background work stopped, before it writes its table  *)
(* or after, installs nothing and ends with a full scan.                   *)
SkipFlush == stopped /\ \E at \in {"flush", "flushed"} : Scan(FlushThread, at)

Flush == BeginFlush \/ WriteFlush \/ InstallFlush \/ SkipFlush
           \/ Purge(FlushThread, "idle")

Unit(j) == \/ CatchUp(j) \/ OpenOutput(j) \/ FinishOutput(j) \/ ReplyOk(j)
           \/ CompactFails(j)

Compaction(j) ==
  \/ Start(j) \/ Received(j) \/ ResultUnreadable(j) \/ WorkerLost(j)
  \/ WaitFailed(j) \/ SetBGError(j) \/ RenameNext(j) \/ RenameFails(j)
  \/ Verify(j) \/ VerifyFails(j) \/ CompactLocally(j) \/ Install(j)
  \/ Scan(j, "failed") \/ Purge(j, "ended")

AllIdle == /\ \A j \in Jobs : tpc[j] \in {"idle", "ended"}
           /\ tpc[FlushThread] = "idle"

(* The rest of the benchmark: reads, writes, the end.                      *)
Idle == AllIdle /\ UNCHANGED vars

Next == \/ \E j \in Jobs : Unit(j) \/ Compaction(j)
        \/ Crash \/ Flush \/ Idle

Spec == Init /\ [][Next]_vars

-----------------------------------------------------------------------------
Outputs   == Jobs \X (0 .. MaxOutputs) \cup {FlushThread} \X (1 .. MaxFlushes)
UniqueIds == [session : {"unit", "db"}, num : Nat]
Files     == [num : Nat, of : Outputs]
Metadata  == [num : Nat, out : Outputs, uid : UniqueIds]

(* Numbers, directories and threads have their types; the files of the DB  *)
(* directory have numbers that NewFileNumber has given out.                *)
StagingTypeOK ==
  /\ slots \in Concurrency /\ behind \in BOOLEAN
  /\ nextFile \in Nat /\ manifestNext \in 0 .. nextFile /\ unitNext \in Nat
  /\ \A f \in dbDir : f.num < nextFile
  /\ live \subseteq Metadata
  /\ dbDir \subseteq Files /\ staging \subseteq Files
  /\ pending \in [Threads -> Nat]
  /\ stopped \in BOOLEAN /\ unitUp \in BOOLEAN
  /\ tpc \in [Threads -> {"idle", "wait", "local", "install", "verified",
                          "failing", "failed", "purge", "ended", "flush",
                          "flushed"}]
  /\ metas \in [Threads -> SUBSET Metadata]
  /\ doomed \in [Threads -> SUBSET Nat]
  /\ flushes \in 0 .. MaxFlushes
  /\ moved \in [Jobs -> 0 .. MaxOutputs] /\ outs \in [Jobs -> 0 .. MaxOutputs]
  /\ first \in [Jobs -> Nat]
  /\ compactLock \in Jobs \cup {NoJob}
  /\ upc \in [Jobs -> {"none", "queued", "compacting", "writing", "ok",
                       "fail", "dead"}]
  /\ partial \subseteq Outputs

(* pnm_unit_main.cc:70-71, "secondary has one output dir; one job at a     *)
(* time": a file of the version is the finished output that its metadata   *)
(* describes, not one that a later job wrote over it in the shared         *)
(* directory before it was renamed.                                        *)
InstalledOwn ==
  \A m \in live : /\ File(m.num, m.out) \in dbDir
                  /\ m.out \notin partial

(* db_impl_secondary.cc:1452-1457: the worker's own session id is used "to *)
(* make sure the unique id is unique".  Caches name blocks by it, so two   *)
(* files of a version must not share one: as long as every catch-up worked *)
(* and jobs do not overlap, they do not, whatever else failed.             *)
DistinctIds ==
  slots = 1 /\ ~behind => \A m, n \in live : m.uid = n.uid => m = n

(* db_impl_files.cc:673-677: a full scan, taken under the mutex and acted  *)
(* on outside it, never deletes a file of the version, or one that another *)
(* thread has written or renamed and not yet installed.                    *)
PurgeSparesPending ==
  LET writing == {u \in Threads : tpc[u] \in {"install", "verified", "flushed"}}
  IN  \A m \in live \cup UNION {metas[u] : u \in writing} :
        /\ \A t \in Threads : m.num \notin doomed[t]
        /\ \E f \in dbDir : f.num = m.num

(* db_impl_compaction_flush.cc:3954-3956: what a failed compaction moved   *)
(* or wrote to the DB directory is gone when no background work runs.  (A  *)
(* flush or another compaction that is under way when the job fails keeps  *)
(* the files: its captured number is smaller, and no later scan comes.)    *)
NoOrphans ==
  AllIdle /\ flushes = 0 /\ slots = 1 =>
    \A f \in dbDir : \E m \in live : m.num = f.num

(* One compaction at a time keeps that promise, whatever fails.            *)
InstalledOwnAlone == slots = 1 => InstalledOwn

(* What readers reach through the current version, when compactions run    *)
(* one at a time; with two at once nothing is promised (InstalledOwn).     *)
Contents  ==
  {f.of : f \in {g \in dbDir : slots = 1 /\ \E m \in live : m.num = g.num}}
Announced == [j \in Jobs |-> IF upc[j] = "ok" THEN outs[j] ELSE 0]

VI == INSTANCE VersionInstall WITH visible <- Contents, answer <- Announced

(* compaction_service_job.cc:227-275: with one compaction at a time, the   *)
(* loop of renames, its failures and the scans of other threads in between *)
(* keep the promise of VersionInstall: the outputs a worker announced      *)
(* appear together or never, a job appears once, and nothing disappears.   *)
AtomicInstall == VI!Spec

=============================================================================
