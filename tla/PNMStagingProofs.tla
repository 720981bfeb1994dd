-------------------------- MODULE PNMStagingProofs --------------------------
(***************************************************************************)
(* Proofs about PNMStaging, for any jobs, any number of compactions at a   *)
(* time, any number of outputs and flushes, and any failures.              *)
(*                                                                         *)
(* The inductive invariant is built in layers, each preserved with the     *)
(* help of the ones before it: types, the worker's thread and the thread   *)
(* of the primary that waits for it, the file numbers that are held, which *)
(* outputs a thread may install, and then what holds when compactions do   *)
(* not overlap.                                                            *)
(***************************************************************************)
EXTENDS PNMStaging, FiniteSetTheorems, TLAPS

InFlight(t) == tpc[t] \in {"install", "verified", "flushed"}

(* Files of the version, and files about to be installed in it.            *)
Owned == live \cup UNION {metas[t] : t \in {u \in Threads : InFlight(u)}}

-----------------------------------------------------------------------------
(* The layers of the inductive invariant.                                  *)

(* Types, which thread does what, and what a flush under way implies.      *)
TypeInv ==
  /\ StagingTypeOK
  /\ nextFile > 0
  /\ \A j \in Jobs : tpc[j] \notin {"flush", "flushed"}
  /\ tpc[FlushThread] \in {"idle", "flush", "flushed", "purge"}
  /\ tpc[FlushThread] # "idle" => flushes > 0

(* The worker works for a thread that waits, and holds the lock meanwhile; *)
(* only an announced job is renamed.                                       *)
WorkerInv ==
  \A j \in Jobs :
    /\ upc[j] \in {"queued", "compacting", "writing"} => tpc[j] = "wait"
    /\ tpc[j] = "idle" => upc[j] = "none"
    /\ tpc[j] = "install" => upc[j] = "ok"
    /\ upc[j] \in {"compacting", "writing"} =>
         compactLock = j /\ unitNext = first[j] + outs[j]
    /\ upc[j] \in {"none", "queued"} => outs[j] = 0
    /\ tpc[j] \in {"idle", "wait", "local"} => moved[j] = 0 /\ metas[j] = {}
    /\ moved[j] <= outs[j]

(* An unfinished output belongs to a job that is writing it, or that never *)
(* answers.                                                                *)
PartialInv ==
  \A p \in partial :
    /\ p[1] \in Jobs /\ p[2] > 0
    /\ upc[p[1]] \in {"writing", "fail", "dead"}
    /\ upc[p[1]] = "writing" => p[2] = outs[p[1]]

(* What a thread writes or renames is not older than the number it holds.  *)
Holds(t) ==
  /\ tpc[t] \notin {"idle", "ended", "purge"} => pending[t] \in 1 .. nextFile
  /\ tpc[t] \in {"idle", "ended", "purge"} => pending[t] = 0
  /\ InFlight(t) => \A m \in metas[t] : pending[t] <= m.num

HeldInv ==
  /\ \A t \in Threads : Holds(t)
  /\ \A m \in Owned : m.num < nextFile

(* No scan has condemned a file of the version or one about to be in it.   *)
SafeInv ==
  /\ \A t \in Threads : \A n \in doomed[t] : n < nextFile
  /\ \A m \in Owned :
       /\ \A t \in Threads : m.num \notin doomed[t]
       /\ \E f \in dbDir : f.num = m.num

(* A number names one file of a directory, and one table.                  *)
NumbersInv ==
  /\ \A f, g \in dbDir : f.num = g.num => f = g
  /\ \A f, g \in staging : f.num = g.num => f = g
  /\ \A m, n \in Owned : m.num = n.num => m = n

(* The metadata of a thread about to install: the output of a local        *)
(* compaction, or those of the announced ones that were renamed.           *)
LocalMetas(j)  == \E m \in metas[j] : metas[j] = {m} /\ m.out = <<j, 0>>
RemoteMetas(j) ==
  /\ upc[j] = "ok"
  /\ \A m \in metas[j] : \E k \in 1 .. moved[j] : m.out = <<j, k>>
  /\ \A k \in 1 .. moved[j] : \E m \in metas[j] : m.out = <<j, k>>
  /\ \A m, n \in metas[j] : m.out = n.out => m = n

JobMetas(j) ==
  /\ tpc[j] = "install" => RemoteMetas(j)
  /\ tpc[j] = "verified" =>
       LocalMetas(j) \/ (RemoteMetas(j) /\ moved[j] = outs[j])

FlushMetas ==
  tpc[FlushThread] = "flushed" =>
    \E m \in metas[FlushThread] :
      metas[FlushThread] = {m} /\ m.out = <<FlushThread, flushes>>

MetasInv == (\A j \in Jobs : JobMetas(j)) /\ FlushMetas

(* A job of the version has ended; a flush is counted before its table.    *)
LiveInv ==
  \A m \in live :
    \/ /\ m.out[1] \in Jobs /\ tpc[m.out[1]] = "ended"
       /\ m.out[2] = 0 \/ upc[m.out[1]] = "ok"
    \/ /\ m.out[1] = FlushThread
       /\ m.out[2] <= flushes
       /\ tpc[FlushThread] \in {"flush", "flushed"} => m.out[2] < flushes

(* One compaction at a time: what is announced is in the staging directory *)
(* until it is renamed, and what is owned is the file it should be.        *)
OneActive == \A j, k \in Active : j = k

Staged(j) ==
  upc[j] \in {"compacting", "writing", "ok"} /\ tpc[j] \in {"wait", "install"} =>
    \A k \in moved[j] + 1 .. outs[j] : File(StagedNumber(j, k), <<j, k>>) \in staging

AloneInv ==
  slots = 1 => /\ OneActive
               /\ \A j \in Jobs : Staged(j)
               /\ \A m \in Owned : File(m.num, m.out) \in dbDir

(* A table made by the primary has its number in its id, one made by the   *)
(* worker its staged number.                                               *)
FromUnit(M) == {m \in M : m.uid.session = "unit"}

UidInv ==
  /\ \A m \in Owned : m.uid.session = "db" => m.uid.num = m.num
  /\ \A j \in Jobs : InFlight(j) =>
       \A m \in FromUnit(metas[j]) :
         m.out[2] > 0 /\ m.uid.num = StagedNumber(j, m.out[2])
  /\ InFlight(FlushThread) => FromUnit(metas[FlushThread]) = {}

(* One compaction at a time, every catch-up worked: staged numbers lie     *)
(* above those of the installed tables, and below the next file number     *)
(* once as many numbers were taken as files were renamed.                  *)
Above(j) ==
  upc[j] \in {"compacting", "writing", "ok"} /\ tpc[j] # "ended" =>
    /\ first[j] + moved[j] <= nextFile + 1
    /\ \A m \in FromUnit(live) : m.uid.num < first[j]

IdsInv ==
  slots = 1 /\ ~behind =>
    /\ \A m \in FromUnit(live) : m.uid.num <= manifestNext
    /\ \A j \in Jobs : Above(j)
    /\ \A m, n \in live : m.uid = n.uid => m = n

(* One compaction at a time, no flush: a file is owned, or left by a job   *)
(* that has failed and has yet to scan, or condemned by its scan.          *)
Left(f) ==
  \E j \in Jobs : \/ tpc[j] \in {"failing", "failed"}
                  \/ tpc[j] = "purge" /\ f.num \in doomed[j]

OrphanInv ==
  slots = 1 /\ flushes = 0 =>
    \A f \in dbDir : (\E m \in Owned : m.num = f.num) \/ Left(f)

StagingInv ==
  /\ TypeInv /\ WorkerInv /\ PartialInv /\ HeldInv /\ SafeInv /\ NumbersInv
  /\ MetasInv /\ LiveInv /\ AloneInv /\ UidInv /\ IdsInv /\ OrphanInv

-----------------------------------------------------------------------------
(* Types.                                                                  *)

LEMMA TypeInit == Init => TypeInv
<1> SUFFICES ASSUME Init PROVE TypeInv
  OBVIOUS
<1>1. behind \in BOOLEAN /\ stopped \in BOOLEAN /\ unitUp \in BOOLEAN
  BY DEF Init
<1>2. /\ pending \in [Threads -> Nat] /\ metas \in [Threads -> SUBSET Metadata]
      /\ doomed \in [Threads -> SUBSET Nat]
      /\ tpc \in [Threads -> {"idle"}] /\ upc \in [Jobs -> {"none"}]
  BY DEF Init
<1>3. /\ moved \in [Jobs -> 0 .. MaxOutputs] /\ outs \in [Jobs -> 0 .. MaxOutputs]
      /\ first \in [Jobs -> Nat] /\ flushes \in 0 .. MaxFlushes
  BY StagingAssumption DEF Init
<1>4. tpc[FlushThread] = "idle" /\ \A j \in Jobs : tpc[j] = "idle"
  BY <1>2 DEF Threads
<1> QED
  BY <1>1, <1>2, <1>3, <1>4 DEF Init, TypeInv, StagingTypeOK

LEMMA TypeUnit ==
  ASSUME TypeInv, NEW j \in Jobs, Unit(j) PROVE TypeInv'
<1> USE StagingAssumption DEF TypeInv, StagingTypeOK, primaryVars
<1>1. CASE CatchUp(j)
  <2>1. behind' \in BOOLEAN
    BY <1>1 DEF CatchUp
  <2>2. unitNext' \in Nat
    BY <1>1 DEF CatchUp
  <2>3. /\ compactLock' = j
        /\ first' = [first EXCEPT ![j] = unitNext']
        /\ upc' = [upc EXCEPT ![j] = "compacting"]
        /\ UNCHANGED <<primaryVars, unitUp, outs, partial, staging>>
    BY <1>1 DEF CatchUp
  <2> QED BY <2>1, <2>2, <2>3
<1>2. CASE OpenOutput(j)
  <2>1. <<j, outs[j] + 1>> \in Outputs
    BY <1>2 DEF OpenOutput, Outputs
  <2>2. File(unitNext, <<j, outs[j] + 1>>) \in Files
    BY <2>1 DEF Files, File
  <2>3. staging' \subseteq Files /\ partial' \subseteq Outputs
    BY <1>2, <2>1, <2>2 DEF OpenOutput
  <2>4. outs' \in [Jobs -> 0 .. MaxOutputs] /\ unitNext' \in Nat
    BY <1>2 DEF OpenOutput
  <2> QED BY <1>2, <2>3, <2>4 DEF OpenOutput
<1>3. CASE FinishOutput(j) \/ ReplyOk(j) \/ CompactFails(j)
  BY <1>3 DEF FinishOutput, ReplyOk, CompactFails
<1> QED BY <1>1, <1>2, <1>3 DEF Unit

LEMMA TypeCompaction ==
  ASSUME TypeInv, NEW j \in Jobs, Compaction(j) PROVE TypeInv'
<1> USE StagingAssumption DEF TypeInv, StagingTypeOK, unitVars, Threads, Step
<1>1. CASE Start(j)
  BY <1>1 DEF Start
<1>2. CASE Received(j) \/ ResultUnreadable(j) \/ WorkerLost(j) \/ WaitFailed(j)
             \/ SetBGError(j) \/ Verify(j) \/ VerifyFails(j)
  <2>1. PICK s \in {"local", "install", "verified", "failing", "failed"} :
          tpc' = [tpc EXCEPT ![j] = s]
    BY <1>2 DEF Received, ResultUnreadable, WorkerLost, WaitFailed, SetBGError,
                Verify, VerifyFails
  <2>2. stopped' \in BOOLEAN
    BY <1>2 DEF Received, ResultUnreadable, WorkerLost, WaitFailed, SetBGError,
                Verify, VerifyFails, OnlyStep
  <2>3. UNCHANGED <<slots, nextFile, manifestNext, live, dbDir, pending, metas,
                    doomed, flushes, moved, unitVars, staging>>
    BY <1>2 DEF Received, ResultUnreadable, WorkerLost, WaitFailed, SetBGError,
                Verify, VerifyFails, OnlyStep
  <2> QED BY <2>1, <2>2, <2>3
<1>3. CASE RenameNext(j)
  <2>1. PICK f \in StagedFiles(j, moved[j] + 1) :
          /\ staging' = staging \ {f}
          /\ dbDir' = dbDir \cup {File(nextFile, f.of)}
          /\ metas' = [metas EXCEPT ![j] = @ \cup
               {Meta(nextFile, <<j, moved[j] + 1>>, UniqueId("unit", f.num))}]
    BY <1>3 DEF RenameNext
  <2>2. f \in Files
    BY DEF StagedFiles
  <2>3. <<j, moved[j] + 1>> \in Outputs
    BY <1>3 DEF RenameNext, Outputs
  <2>4. Meta(nextFile, <<j, moved[j] + 1>>, UniqueId("unit", f.num)) \in Metadata
    BY <2>2, <2>3 DEF Files, Meta, UniqueId, UniqueIds, Metadata
  <2>5. metas' \in [Threads -> SUBSET Metadata]
    BY <2>1, <2>4
  <2>6. dbDir' \subseteq Files /\ \A g \in dbDir' : g.num < nextFile'
    BY <1>3, <2>1, <2>2 DEF Files, File, RenameNext
  <2>7. moved' \in [Jobs -> 0 .. MaxOutputs] /\ nextFile' \in Nat /\ nextFile' > 0
        /\ manifestNext' \in 0 .. nextFile'
    BY <1>3 DEF RenameNext
  <2> QED BY <1>3, <2>1, <2>5, <2>6, <2>7 DEF RenameNext
<1>4. CASE RenameFails(j)
  <2>1. /\ tpc' = [tpc EXCEPT ![j] = "failing"] /\ nextFile' = nextFile + 1
        /\ UNCHANGED <<slots, manifestNext, live, dbDir, pending, stopped, metas,
                       doomed, flushes, moved, unitVars, staging>>
    BY <1>4 DEF RenameFails
  <2>2. \A g \in dbDir' : g.num < nextFile'
    BY <2>1 DEF Files
  <2> QED BY <2>1, <2>2
<1>5. CASE CompactLocally(j)
  <2>1. <<j, 0>> \in Outputs
    BY DEF Outputs
  <2>2. Meta(nextFile, <<j, 0>>, UniqueId("db", nextFile)) \in Metadata
    BY <2>1 DEF Meta, UniqueId, UniqueIds, Metadata
  <2>3. metas' \in [Threads -> SUBSET Metadata]
    BY <1>5, <2>2 DEF CompactLocally
  <2>4. dbDir' \subseteq Files /\ \A g \in dbDir' : g.num < nextFile'
    BY <1>5, <2>1 DEF Files, File, CompactLocally
  <2> QED BY <1>5, <2>3, <2>4 DEF CompactLocally
<1>6. CASE Install(j)
  BY <1>6 DEF Install
<1>7. CASE Scan(j, "failed")
  <2>1. Obsolete(pending') \subseteq Nat
    BY DEF Obsolete, Files
  <2> QED BY <1>7, <2>1 DEF Scan
<1>8. CASE Purge(j, "ended")
  BY <1>8 DEF Purge
<1> QED BY <1>1, <1>2, <1>3, <1>4, <1>5, <1>6, <1>7, <1>8 DEF Compaction

LEMMA TypeFlush == ASSUME TypeInv, Flush PROVE TypeInv'
<1> USE StagingAssumption DEF TypeInv, StagingTypeOK, unitVars, Threads, Step
<1>1. CASE BeginFlush
  BY <1>1 DEF BeginFlush
<1>2. CASE WriteFlush
  <2>1. <<FlushThread, flushes>> \in Outputs
    BY <1>2 DEF WriteFlush, Outputs
  <2>2. Meta(nextFile, <<FlushThread, flushes>>, UniqueId("db", nextFile)) \in Metadata
    BY <2>1 DEF Meta, UniqueId, UniqueIds, Metadata
  <2>3. metas' \in [Threads -> SUBSET Metadata]
    BY <1>2, <2>2 DEF WriteFlush
  <2>4. dbDir' \subseteq Files /\ \A g \in dbDir' : g.num < nextFile'
    BY <1>2, <2>1 DEF Files, File, WriteFlush
  <2> QED BY <1>2, <2>3, <2>4 DEF WriteFlush
<1>3. CASE InstallFlush
  BY <1>3 DEF InstallFlush
<1>4. CASE SkipFlush
  <2>1. Obsolete(pending') \subseteq Nat
    BY DEF Obsolete, Files
  <2>2. PICK at \in {"flush", "flushed"} : Scan(FlushThread, at)
    BY <1>4 DEF SkipFlush
  <2> QED BY <2>1, <2>2 DEF Scan
<1>5. CASE Purge(FlushThread, "idle")
  BY <1>5 DEF Purge
<1> QED BY <1>1, <1>2, <1>3, <1>4, <1>5 DEF Flush

LEMMA TypeStep == TypeInv /\ [Next]_vars => TypeInv'
<1>1. ASSUME TypeInv, Crash PROVE TypeInv'
  BY <1>1 DEF Crash, TypeInv, StagingTypeOK, primaryVars
<1>2. ASSUME TypeInv, UNCHANGED vars PROVE TypeInv'
  BY <1>2 DEF TypeInv, StagingTypeOK, vars, primaryVars, unitVars
<1> QED BY <1>1, <1>2, TypeUnit, TypeCompaction, TypeFlush DEF Next, Idle

-----------------------------------------------------------------------------
(* The worker, and the thread that waits for it.                           *)

LEMMA WorkerInit == Init => WorkerInv /\ PartialInv
  BY DEF Init, WorkerInv, PartialInv, Threads

LEMMA WorkerUnit ==
  ASSUME TypeInv, WorkerInv, NEW j \in Jobs, Unit(j) PROVE WorkerInv'
<1> USE DEF TypeInv, StagingTypeOK, WorkerInv, primaryVars
<1>1. CASE CatchUp(j)
  BY <1>1, StagingAssumption DEF CatchUp, Threads
<1>2. CASE OpenOutput(j)
  BY <1>2 DEF OpenOutput
<1>3. CASE FinishOutput(j)
  BY <1>3 DEF FinishOutput
<1>4. CASE ReplyOk(j)
  BY <1>4 DEF ReplyOk
<1>5. CASE CompactFails(j)
  BY <1>5 DEF CompactFails
<1> QED BY <1>1, <1>2, <1>3, <1>4, <1>5 DEF Unit

LEMMA WorkerCompaction ==
  ASSUME TypeInv, WorkerInv, NEW j \in Jobs, Compaction(j) PROVE WorkerInv'
<1> USE DEF TypeInv, StagingTypeOK, WorkerInv, unitVars, Threads, Step, OnlyStep
<1>1. CASE Start(j)
  BY <1>1 DEF Start
<1>2. CASE Received(j)
  BY <1>2 DEF Received
<1>3. CASE ResultUnreadable(j)
  BY <1>3 DEF ResultUnreadable
<1>4. CASE WorkerLost(j)
  BY <1>4 DEF WorkerLost
<1>5. CASE WaitFailed(j)
  BY <1>5 DEF WaitFailed
<1>6. CASE SetBGError(j)
  BY <1>6 DEF SetBGError
<1>7. CASE RenameNext(j)
  <2>1. \A k \in Jobs : k # j => metas'[k] = metas[k]
    BY <1>7 DEF RenameNext
  <2> QED BY <1>7, <2>1 DEF RenameNext
<1>8. CASE RenameFails(j)
  BY <1>8 DEF RenameFails
<1>9. CASE Verify(j)
  BY <1>9 DEF Verify
<1>10. CASE VerifyFails(j)
  BY <1>10 DEF VerifyFails
<1>11. CASE CompactLocally(j)
  BY <1>11 DEF CompactLocally
<1>12. CASE Install(j)
  BY <1>12 DEF Install
<1>13. CASE Scan(j, "failed")
  BY <1>13 DEF Scan
<1>14. CASE Purge(j, "ended")
  BY <1>14 DEF Purge
<1> QED BY <1>1, <1>2, <1>3, <1>4, <1>5, <1>6, <1>7, <1>8, <1>9, <1>10,
           <1>11, <1>12, <1>13, <1>14 DEF Compaction

LEMMA WorkerStep == TypeInv /\ WorkerInv /\ [Next]_vars => WorkerInv'
<1> USE DEF TypeInv, StagingTypeOK, WorkerInv, unitVars
<1>1. ASSUME TypeInv, WorkerInv, Crash PROVE WorkerInv'
  BY <1>1 DEF Crash, primaryVars
<1>2. ASSUME TypeInv, WorkerInv, UNCHANGED vars PROVE WorkerInv'
  BY <1>2 DEF vars, primaryVars
<1>3. ASSUME TypeInv, WorkerInv, Flush PROVE WorkerInv'
  <2>1. \A j \in Jobs : tpc'[j] = tpc[j] /\ metas'[j] = metas[j]
    BY <1>3, StagingAssumption
       DEF Flush, BeginFlush, WriteFlush, InstallFlush, SkipFlush, Scan, Purge,
           Step, Threads
  <2>2. UNCHANGED <<upc, compactLock, unitNext, first, outs, moved>>
    BY <1>3 DEF Flush, BeginFlush, WriteFlush, InstallFlush, SkipFlush, Scan, Purge
  <2> QED BY <1>3, <2>1, <2>2
<1> QED BY <1>1, <1>2, <1>3, WorkerUnit, WorkerCompaction DEF Next, Idle

LEMMA PartialStep ==
  TypeInv /\ WorkerInv /\ PartialInv /\ [Next]_vars => PartialInv'
<1> SUFFICES ASSUME TypeInv, WorkerInv, PartialInv, [Next]_vars
             PROVE  PartialInv'
  OBVIOUS
<1> USE DEF TypeInv, StagingTypeOK, WorkerInv, PartialInv
<1>1. ASSUME NEW j \in Jobs, OpenOutput(j) PROVE PartialInv'
  <2>1. \A p \in partial : p[1] # j
    BY <1>1 DEF OpenOutput
  <2>2. /\ \A k \in Jobs : k # j => upc'[k] = upc[k] /\ outs'[k] = outs[k]
        /\ upc'[j] = "writing" /\ outs'[j] = outs[j] + 1
        /\ partial' = partial \cup {<<j, outs[j] + 1>>}
    BY <1>1 DEF OpenOutput
  <2> QED BY <2>1, <2>2
<1>2. ASSUME NEW j \in Jobs, FinishOutput(j) PROVE PartialInv'
  <2>1. \A p \in partial : p[1] = j => p = <<j, outs[j]>>
    BY <1>2 DEF FinishOutput, Outputs
  <2>2. /\ \A k \in Jobs : k # j => upc'[k] = upc[k]
        /\ outs' = outs /\ partial' = partial \ {<<j, outs[j]>>}
    BY <1>2 DEF FinishOutput
  <2> QED BY <2>1, <2>2
<1>3. ASSUME UNCHANGED <<partial, outs>>,
             \A k \in Jobs : \/ upc'[k] = upc[k]
                             \/ upc[k] \notin {"writing", "fail", "dead"}
                             \/ upc'[k] \in {"fail", "dead"}
      PROVE PartialInv'
  BY <1>3
<1>4. ASSUME NEW j \in Jobs, CatchUp(j) \/ ReplyOk(j) \/ CompactFails(j)
      PROVE PartialInv'
  BY <1>4, <1>3 DEF CatchUp, ReplyOk, CompactFails
<1>5. CASE Crash
  BY <1>5, <1>3 DEF Crash
<1>6. ASSUME NEW j \in Jobs, Start(j) PROVE PartialInv'
  BY <1>6, <1>3 DEF Start, Step
<1>7. CASE UNCHANGED <<partial, outs, upc>>
  BY <1>7, <1>3
<1>8. ASSUME NEW j \in Jobs, Compaction(j), ~Start(j) PROVE PartialInv'
  BY <1>7, <1>8
     DEF Compaction, Received, ResultUnreadable, WorkerLost, WaitFailed, SetBGError,
         RenameNext, RenameFails, Verify, VerifyFails, CompactLocally, Install,
         Scan, Purge, OnlyStep, unitVars
<1>9. CASE Flush
  BY <1>7, <1>9 DEF Flush, BeginFlush, WriteFlush, InstallFlush, SkipFlush, Scan,
                    Purge, unitVars
<1> QED BY <1>1, <1>2, <1>4, <1>5, <1>6, <1>7, <1>8, <1>9
        DEF Next, Unit, Idle, vars, unitVars

-----------------------------------------------------------------------------
(* What a step does to the files that are owned.                           *)

LEMMA InOwned ==
  \A m : m \in Owned <=>
    m \in live \/ \E t \in Threads : InFlight(t) /\ m \in metas[t]
  BY DEF Owned

LEMMA InOwnedNext ==
  \A m : m \in Owned' <=>
    m \in live' \/ \E t \in Threads : InFlight(t)' /\ m \in metas'[t]
  BY DEF Owned

(* The steps that put a file in the DB directory.                          *)
Adds == (\E j \in Jobs : RenameNext(j) \/ CompactLocally(j)) \/ WriteFlush

(* The metadata and the file that such a step adds.                        *)
Added(m, f) ==
  \/ m.uid = UniqueId("db", nextFile) /\ f.of = m.out
  \/ \E j \in Jobs : \E g \in StagedFiles(j, moved[j] + 1) :
       /\ RenameNext(j) /\ m.out = <<j, moved[j] + 1>>
       /\ m.uid = UniqueId("unit", g.num) /\ f.of = g.of

(* They give it a number that was never used.                              *)
LEMMA AddStep ==
  ASSUME TypeInv, WorkerInv, Adds
  PROVE  /\ nextFile' = nextFile + 1
         /\ UNCHANGED <<slots, manifestNext, live, pending, doomed, flushes>>
         /\ \E m \in Metadata : \E f \in Files :
              /\ m.num = nextFile /\ f.num = nextFile /\ Added(m, f)
              /\ Owned' = Owned \cup {m}
              /\ dbDir' = dbDir \cup {f}
<1> USE DEF TypeInv, StagingTypeOK, InFlight
<1>1. ASSUME NEW t \in Threads, NEW m \in Metadata, UNCHANGED live,
             InFlight(t)', InFlight(t) \/ metas[t] = {},
             \A u \in Threads \ {t} : tpc'[u] = tpc[u],
             metas' = [metas EXCEPT ![t] = @ \cup {m}]
      PROVE  Owned' = Owned \cup {m}
  <2>1. \A n : n \in Owned' <=> n \in Owned \/ n = m
    BY <1>1, InOwned, InOwnedNext
  <2> QED BY <2>1
<1>2. ASSUME NEW j \in Jobs, RenameNext(j)
      PROVE \E m \in Metadata : \E f \in Files :
              /\ m.num = nextFile /\ f.num = nextFile /\ Added(m, f)
              /\ Owned' = Owned \cup {m}
              /\ dbDir' = dbDir \cup {f}
  <2>1. PICK f \in StagedFiles(j, moved[j] + 1) :
          /\ staging' = staging \ {f}
          /\ dbDir' = dbDir \cup {File(nextFile, f.of)}
          /\ metas' = [metas EXCEPT ![j] = @ \cup
               {Meta(nextFile, <<j, moved[j] + 1>>, UniqueId("unit", f.num))}]
    BY <1>2 DEF RenameNext
  <2> DEFINE m == Meta(nextFile, <<j, moved[j] + 1>>, UniqueId("unit", f.num))
             g == File(nextFile, f.of)
  <2>2. f \in Files
    BY DEF StagedFiles
  <2>3. <<j, moved[j] + 1>> \in Outputs
    BY <1>2, StagingAssumption DEF RenameNext, Outputs
  <2>4. m \in Metadata /\ m.num = nextFile
    BY <2>2, <2>3 DEF Files, Meta, UniqueId, UniqueIds, Metadata
  <2>5. g \in Files /\ g.num = nextFile /\ g.of = f.of
    BY <2>2 DEF Files, File
  <2>6. m.out = <<j, moved[j] + 1>> /\ m.uid = UniqueId("unit", f.num)
    BY DEF Meta
  <2>7. UNCHANGED <<live, tpc>> /\ tpc[j] = "install" /\ j \in Threads
    BY <1>2 DEF RenameNext, Threads
  <2> HIDE DEF m, g
  <2>8. metas' = [metas EXCEPT ![j] = @ \cup {m}]
    BY <2>1 DEF m
  <2>9. Owned' = Owned \cup {m}
    BY <1>1, <2>4, <2>7, <2>8
  <2>10. dbDir' = dbDir \cup {g}
    BY <2>1 DEF g
  <2>11. Added(m, g)
    BY <1>2, <2>5, <2>6 DEF Added
  <2> QED BY <2>4, <2>5, <2>9, <2>10, <2>11
<1>3. ASSUME NEW t \in Threads, NEW out \in Outputs,
             tpc[t] \in {"local", "flush"}, metas[t] = {} \/ t = FlushThread,
             UNCHANGED live,
             \/ tpc' = [tpc EXCEPT ![t] = "verified"]
             \/ tpc' = [tpc EXCEPT ![t] = "flushed"],
             dbDir' = dbDir \cup {File(nextFile, out)},
             metas' = [metas EXCEPT ![t] = {Meta(nextFile, out, UniqueId("db", nextFile))}]
      PROVE \E m \in Metadata : \E f \in Files :
              /\ m.num = nextFile /\ f.num = nextFile /\ Added(m, f)
              /\ Owned' = Owned \cup {m}
              /\ dbDir' = dbDir \cup {f}
  <2> DEFINE m == Meta(nextFile, out, UniqueId("db", nextFile))
             g == File(nextFile, out)
  <2>1. m \in Metadata /\ m.num = nextFile
    BY DEF Meta, UniqueId, UniqueIds, Metadata
  <2>2. g \in Files /\ g.num = nextFile
    BY DEF Files, File
  <2>3. Added(m, g)
    BY DEF Added, Meta, File
  <2> HIDE DEF m, g
  <2>4. metas' = [metas EXCEPT ![t] = {m}]
    BY <1>3 DEF m
  <2>5. \A n : n \in Owned' <=> n \in Owned \/ n = m
    BY <1>3, <2>4, InOwned, InOwnedNext
  <2>6. dbDir' = dbDir \cup {g}
    BY <1>3 DEF g
  <2> QED BY <2>1, <2>2, <2>3, <2>5, <2>6
<1>4. ASSUME NEW j \in Jobs, CompactLocally(j)
      PROVE \E m \in Metadata : \E f \in Files :
              /\ m.num = nextFile /\ f.num = nextFile /\ Added(m, f)
              /\ Owned' = Owned \cup {m}
              /\ dbDir' = dbDir \cup {f}
  <2>1. <<j, 0>> \in Outputs /\ j \in Threads
    BY StagingAssumption DEF Outputs, Threads
  <2>2. metas[j] = {}
    BY <1>4 DEF CompactLocally, Step, WorkerInv
  <2> QED BY <1>3, <1>4, <2>1, <2>2 DEF CompactLocally, Step
<1>5. CASE WriteFlush
  <2>1. <<FlushThread, flushes>> \in Outputs /\ FlushThread \in Threads
    BY <1>5, StagingAssumption DEF WriteFlush, Step, Outputs, Threads
  <2> QED BY <1>3, <1>5, <2>1 DEF WriteFlush, Step
<1>6. /\ nextFile' = nextFile + 1
      /\ UNCHANGED <<slots, manifestNext, live, pending, doomed, flushes>>
  BY DEF Adds, RenameNext, CompactLocally, WriteFlush
<1> QED BY <1>2, <1>4, <1>5, <1>6 DEF Adds

(* No other step makes a file owned, or puts one in the DB directory.      *)
LEMMA OtherStep ==
  ASSUME TypeInv, WorkerInv, [Next]_vars, ~Adds
  PROVE  /\ Owned' \subseteq Owned
         /\ nextFile' \in {nextFile, nextFile + 1} /\ dbDir' \subseteq dbDir
<1> USE DEF TypeInv, StagingTypeOK, InFlight
<1>1. ASSUME UNCHANGED <<live, metas>>,
             \A t \in Threads : \/ InFlight(t)' => InFlight(t)
                                \/ metas[t] = {}
      PROVE Owned' \subseteq Owned
  BY <1>1, InOwned, InOwnedNext
<1>2. ASSUME NEW t \in Threads, InFlight(t), UNCHANGED metas,
             live' = live \cup metas[t],
             \A u \in Threads : InFlight(u)' => InFlight(u)
      PROVE Owned' \subseteq Owned
  BY <1>2, InOwned, InOwnedNext
<1>3. CASE UNCHANGED primaryVars
  BY <1>1, <1>3 DEF primaryVars
<1>4. ASSUME NEW j \in Jobs, Compaction(j)
      PROVE  /\ Owned' \subseteq Owned
             /\ nextFile' \in {nextFile, nextFile + 1} /\ dbDir' \subseteq dbDir
  <2> USE DEF Step, Threads
  <2>1. CASE Start(j)
    BY <1>1, <2>1 DEF Start
  <2>2. CASE Received(j)
    BY <1>1, <2>2 DEF Received, OnlyStep, WorkerInv
  <2>3. CASE ResultUnreadable(j) \/ WorkerLost(j) \/ WaitFailed(j) \/ SetBGError(j)
    BY <1>1, <2>3 DEF ResultUnreadable, WorkerLost, WaitFailed, SetBGError, OnlyStep
  <2>4. CASE RenameFails(j)
    BY <1>1, <2>4 DEF RenameFails
  <2>5. CASE Verify(j) \/ VerifyFails(j)
    BY <1>1, <2>5 DEF Verify, VerifyFails, OnlyStep
  <2>6. CASE Install(j)
    BY <1>2, <2>6 DEF Install
  <2>7. CASE Scan(j, "failed")
    BY <1>1, <2>7 DEF Scan
  <2>8. CASE Purge(j, "ended")
    BY <1>1, <2>8 DEF Purge
  <2> QED BY <1>4, <2>1, <2>2, <2>3, <2>4, <2>5, <2>6, <2>7, <2>8
          DEF Compaction, Adds
<1>5. CASE Flush
  <2> USE DEF Step, Threads
  <2>1. CASE BeginFlush
    BY <1>1, <2>1 DEF BeginFlush
  <2>2. CASE InstallFlush
    BY <1>2, <2>2 DEF InstallFlush
  <2>3. CASE SkipFlush
    BY <1>1, <2>3 DEF SkipFlush, Scan
  <2>4. CASE Purge(FlushThread, "idle")
    BY <1>1, <2>4 DEF Purge
  <2> QED BY <1>5, <2>1, <2>2, <2>3, <2>4 DEF Flush, Adds
<1>6. ASSUME NEW j \in Jobs, Unit(j) PROVE UNCHANGED primaryVars
  BY <1>6 DEF Unit, CatchUp, OpenOutput, FinishOutput, ReplyOk, CompactFails
<1> QED BY <1>3, <1>4, <1>5, <1>6 DEF Next, Crash, Idle, vars

-----------------------------------------------------------------------------
(* Captured numbers, condemned numbers, and numbers in use.                *)

LEMMA NumbersInit == Init => HeldInv /\ SafeInv /\ NumbersInv
<1> SUFFICES ASSUME Init PROVE HeldInv /\ SafeInv /\ NumbersInv
  OBVIOUS
<1>1. \A t \in Threads : tpc[t] = "idle" /\ pending[t] = 0 /\ doomed[t] = {}
  BY DEF Init
<1>2. Owned = {}
  BY <1>1, InOwned DEF Init, InFlight
<1> QED
  BY <1>1, <1>2 DEF Init, HeldInv, Holds, SafeInv, NumbersInv, InFlight

(* A step of one thread leaves what the others hold.                       *)
LEMMA HoldsFrame ==
  ASSUME TypeInv, HeldInv, NEW t \in Threads,
         nextFile' \in {nextFile, nextFile + 1},
         tpc'[t] = tpc[t], pending'[t] = pending[t], metas'[t] = metas[t]
  PROVE  Holds(t)'
  BY DEF TypeInv, StagingTypeOK, HeldInv, Holds, InFlight

LEMMA HoldsCompaction ==
  ASSUME TypeInv, WorkerInv, HeldInv, NEW j \in Jobs, Compaction(j)
  PROVE  Holds(j)'
<1> USE DEF TypeInv, StagingTypeOK, HeldInv, Holds, InFlight, Step, Threads
<1>1. CASE Start(j)
  BY <1>1 DEF Start
<1>2. CASE Received(j)
  BY <1>2 DEF Received, OnlyStep, WorkerInv
<1>3. CASE ResultUnreadable(j) \/ WorkerLost(j) \/ WaitFailed(j) \/ SetBGError(j)
  BY <1>3 DEF ResultUnreadable, WorkerLost, WaitFailed, SetBGError, OnlyStep
<1>4. CASE RenameNext(j)
  <2>1. PICK m : m.num = nextFile /\ metas'[j] = metas[j] \cup {m}
    BY <1>4 DEF RenameNext, Meta
  <2>2. /\ tpc' = tpc /\ pending' = pending /\ nextFile' = nextFile + 1
        /\ tpc[j] = "install"
    BY <1>4 DEF RenameNext
  <2> QED BY <2>1, <2>2
<1>5. CASE RenameFails(j)
  BY <1>5 DEF RenameFails
<1>6. CASE Verify(j) \/ VerifyFails(j)
  BY <1>6 DEF Verify, VerifyFails, OnlyStep
<1>7. CASE CompactLocally(j)
  <2>1. PICK m : m.num = nextFile /\ metas'[j] = {m}
    BY <1>7 DEF CompactLocally, Meta
  <2>2. pending' = pending /\ nextFile' = nextFile + 1 /\ tpc'[j] = "verified"
        /\ tpc[j] = "local"
    BY <1>7 DEF CompactLocally
  <2> QED BY <2>1, <2>2
<1>8. CASE Install(j)
  BY <1>8 DEF Install
<1>9. CASE Scan(j, "failed")
  BY <1>9 DEF Scan
<1>10. CASE Purge(j, "ended")
  BY <1>10 DEF Purge
<1> QED BY <1>1, <1>2, <1>3, <1>4, <1>5, <1>6, <1>7, <1>8, <1>9, <1>10
        DEF Compaction

LEMMA HoldsFlush ==
  ASSUME TypeInv, HeldInv, Flush PROVE Holds(FlushThread)'
<1> USE DEF TypeInv, StagingTypeOK, HeldInv, Holds, InFlight, Step, Threads
<1>1. CASE BeginFlush
  BY <1>1 DEF BeginFlush
<1>2. CASE WriteFlush
  <2> DEFINE m == Meta(nextFile, <<FlushThread, flushes>>, UniqueId("db", nextFile))
  <2>1. m.num = nextFile /\ metas'[FlushThread] = {m}
    BY <1>2 DEF WriteFlush, Meta
  <2>2. /\ pending' = pending /\ nextFile' = nextFile + 1
        /\ tpc[FlushThread] = "flush" /\ tpc'[FlushThread] = "flushed"
    BY <1>2 DEF WriteFlush
  <2> QED BY <2>1, <2>2
<1>3. CASE InstallFlush
  BY <1>3 DEF InstallFlush
<1>4. CASE SkipFlush
  BY <1>4 DEF SkipFlush, Scan
<1>5. CASE Purge(FlushThread, "idle")
  BY <1>5 DEF Purge
<1> QED BY <1>1, <1>2, <1>3, <1>4, <1>5 DEF Flush

LEMMA HeldStep ==
  TypeInv /\ WorkerInv /\ HeldInv /\ [Next]_vars => HeldInv'
<1> SUFFICES ASSUME TypeInv, WorkerInv, HeldInv, [Next]_vars PROVE HeldInv'
  OBVIOUS
<1> USE StagingAssumption
<1>1. nextFile' \in {nextFile, nextFile + 1}
  BY AddStep, OtherStep
<1>2. \A m \in Owned' : m.num < nextFile'
  <2>1. \A m \in Owned : m.num \in Nat
    BY InOwned DEF TypeInv, StagingTypeOK, Metadata
  <2>2. nextFile \in Nat
    BY DEF TypeInv, StagingTypeOK
  <2>3. CASE Adds
    BY <2>1, <2>2, <2>3, AddStep DEF HeldInv
  <2>4. CASE ~Adds
    BY <2>1, <2>2, <2>4, OtherStep DEF HeldInv
  <2> QED BY <2>3, <2>4
<1>3. ASSUME NEW j \in Jobs, Compaction(j), NEW t \in Threads \ {j}
      PROVE  Holds(t)'
  <2>1. tpc'[t] = tpc[t] /\ pending'[t] = pending[t] /\ metas'[t] = metas[t]
    BY <1>3 DEF Compaction, Start, Received, ResultUnreadable, WorkerLost,
                WaitFailed, SetBGError, RenameNext, RenameFails, Verify,
                VerifyFails, CompactLocally, Install, Scan, Purge, OnlyStep, Step,
                TypeInv, StagingTypeOK, Threads
  <2> QED BY <1>1, <2>1, HoldsFrame
<1>4. ASSUME Flush, NEW t \in Threads \ {FlushThread} PROVE Holds(t)'
  <2>1. tpc'[t] = tpc[t] /\ pending'[t] = pending[t] /\ metas'[t] = metas[t]
    BY <1>4 DEF Flush, BeginFlush, WriteFlush, InstallFlush, SkipFlush, Scan,
                Purge, Step, TypeInv, StagingTypeOK, Threads
  <2> QED BY <1>1, <2>1, HoldsFrame
<1>5. ASSUME UNCHANGED primaryVars, NEW t \in Threads PROVE Holds(t)'
  BY <1>1, <1>5, HoldsFrame DEF primaryVars
<1>6. \A t \in Threads : Holds(t)'
  BY <1>3, <1>4, <1>5, HoldsCompaction, HoldsFlush
     DEF Next, Unit, CatchUp, OpenOutput, FinishOutput, ReplyOk, CompactFails,
         Crash, Idle, vars
<1> QED BY <1>2, <1>6 DEF HeldInv

(* A full scan spares what is owned after it: it is in the version, or not *)
(* older than the number that another thread holds.                        *)
LEMMA ScanSpares ==
  ASSUME TypeInv, HeldInv, NEW t \in Threads,
         NEW from \in {"failed", "flush", "flushed"}, Scan(t, from),
         NEW m \in Owned'
  PROVE  m.num \notin doomed'[t]
<1> USE DEF TypeInv, StagingTypeOK
<1>1. doomed'[t] = Obsolete(pending')
  BY DEF Scan
<1>2. SUFFICES Keep(m.num, pending')
  BY <1>1 DEF Obsolete
<1>3. CASE m \in live
  BY <1>3 DEF Keep
<1>4. ASSUME NEW u \in Threads, tpc'[u] \in {"install", "verified", "flushed"},
             m \in metas[u]
      PROVE  Keep(m.num, pending')
  <2>1. u # t /\ tpc'[u] = tpc[u]
    BY <1>4 DEF Scan, Step
  <2>2. pending'[u] = pending[u]
    BY <2>1 DEF Scan
  <2>3. pending[u] # 0 /\ pending[u] <= m.num
    BY <1>4, <2>1 DEF HeldInv, Holds, InFlight
  <2> QED BY <2>2, <2>3 DEF Keep
<1>5. m \in live \/ \E u \in Threads : InFlight(u)' /\ m \in metas[u]
  BY DEF Owned, Scan
<1> QED BY <1>3, <1>4, <1>5 DEF InFlight

LEMMA SafeStep ==
  TypeInv /\ WorkerInv /\ HeldInv /\ SafeInv /\ [Next]_vars => SafeInv'
<1> SUFFICES ASSUME TypeInv, WorkerInv, HeldInv, SafeInv, [Next]_vars
             PROVE  SafeInv'
  OBVIOUS
<1>1. /\ nextFile \in Nat /\ \A m \in Owned : m.num \in Nat /\ m.num < nextFile
      /\ \A f \in dbDir : f.num \in Nat /\ f.num < nextFile
      /\ \A t \in Threads : doomed[t] \subseteq Nat
  BY InOwned DEF TypeInv, StagingTypeOK, Metadata, Files, HeldInv
<1>2. CASE Adds
  <2>1. PICK m, f : /\ m.num = nextFile /\ f.num = nextFile
                    /\ Owned' = Owned \cup {m}
                    /\ dbDir' = dbDir \cup {f}
    BY <1>2, AddStep
  <2>2. UNCHANGED doomed /\ nextFile' = nextFile + 1
    BY <1>2, AddStep
  <2> QED BY <1>1, <2>1, <2>2 DEF SafeInv
<1>3. ASSUME NEW t \in Threads, NEW from \in {"failed", "flush", "flushed"},
             Scan(t, from), ~Adds
      PROVE  SafeInv'
  <2>1. \A m \in Owned' : m.num \notin doomed'[t]
    BY <1>3, ScanSpares
  <2>2. \A n \in doomed'[t] : n < nextFile
    BY <1>1, <1>3 DEF Scan, Obsolete, TypeInv, StagingTypeOK
  <2>3. \A u \in Threads \ {t} : doomed'[u] = doomed[u]
    BY <1>3 DEF Scan, TypeInv, StagingTypeOK
  <2>4. UNCHANGED <<dbDir, nextFile>> /\ Owned' \subseteq Owned
    BY <1>3, OtherStep DEF Scan
  <2> QED BY <2>1, <2>2, <2>3, <2>4 DEF SafeInv
<1>4. ASSUME NEW t \in Threads, NEW to, Purge(t, to), ~Adds PROVE SafeInv'
  <2>1. UNCHANGED <<doomed, nextFile>> /\ Owned' \subseteq Owned
    BY <1>4, OtherStep DEF Purge
  <2>2. dbDir' = {f \in dbDir : f.num \notin doomed[t]}
    BY <1>4 DEF Purge
  <2> QED BY <2>1, <2>2 DEF SafeInv
<1>5. CASE UNCHANGED <<dbDir, doomed>> /\ ~Adds
  BY <1>1, <1>5, OtherStep DEF SafeInv
<1>6. ASSUME NEW j \in Jobs, Unit(j) PROVE UNCHANGED <<dbDir, doomed>>
  BY <1>6 DEF Unit, CatchUp, OpenOutput, FinishOutput, ReplyOk, CompactFails,
              primaryVars
<1>7. ASSUME NEW j \in Jobs, Compaction(j)
      PROVE  \/ UNCHANGED <<dbDir, doomed>> \/ Adds
             \/ Scan(j, "failed") \/ Purge(j, "ended")
  BY <1>7 DEF Compaction, Start, Received, ResultUnreadable, WorkerLost,
              WaitFailed, SetBGError, RenameFails, Verify, VerifyFails, Install,
              OnlyStep, Adds
<1>8. ASSUME Flush
      PROVE  \/ UNCHANGED <<dbDir, doomed>> \/ Adds
             \/ \E at \in {"flush", "flushed"} : Scan(FlushThread, at)
             \/ Purge(FlushThread, "idle")
  BY <1>8 DEF Flush, BeginFlush, InstallFlush, SkipFlush, Adds
<1>9. Jobs \subseteq Threads /\ FlushThread \in Threads
  BY DEF Threads
<1>10. ASSUME Crash \/ Idle \/ UNCHANGED vars PROVE UNCHANGED <<dbDir, doomed>>
  BY <1>10 DEF Crash, Idle, vars, primaryVars
<1> QED BY <1>2, <1>3, <1>4, <1>5, <1>6, <1>7, <1>8, <1>9, <1>10 DEF Next

LEMMA NumbersStep ==
  TypeInv /\ WorkerInv /\ HeldInv /\ NumbersInv /\ [Next]_vars => NumbersInv'
<1> SUFFICES ASSUME TypeInv, WorkerInv, HeldInv, NumbersInv, [Next]_vars
             PROVE  NumbersInv'
  OBVIOUS
<1>1. /\ nextFile \in Nat /\ \A m \in Owned : m.num # nextFile
      /\ \A f \in dbDir : f.num # nextFile
  BY InOwned DEF TypeInv, StagingTypeOK, Metadata, Files, HeldInv
<1>2. /\ \A f, g \in dbDir' : f.num = g.num => f = g
      /\ \A m, n \in Owned' : m.num = n.num => m = n
  BY <1>1, AddStep, OtherStep DEF NumbersInv
<1>3. ASSUME NEW j \in Jobs, OpenOutput(j)
      PROVE  \A f, g \in staging' : f.num = g.num => f = g
  BY <1>3 DEF OpenOutput, File, NumbersInv
<1>4. \/ staging' \subseteq staging \/ \E j \in Jobs : OpenOutput(j)
  BY DEF Next, Unit, CatchUp, FinishOutput, ReplyOk, CompactFails, Crash, Idle,
         Compaction, Start, Received, ResultUnreadable, WorkerLost, WaitFailed,
         SetBGError, RenameNext, RenameFails, Verify, VerifyFails, CompactLocally,
         Install, Scan, Purge, OnlyStep, Flush, BeginFlush, WriteFlush,
         InstallFlush, SkipFlush, vars
<1> QED BY <1>2, <1>3, <1>4 DEF NumbersInv

-----------------------------------------------------------------------------
(* What a thread may install, and what has been installed.                 *)

(* A step of a compaction's thread leaves the other threads alone.         *)
LEMMA CompactionFrame ==
  ASSUME TypeInv, NEW j \in Jobs, Compaction(j)
  PROVE  /\ \A t \in Threads \ {j} : tpc'[t] = tpc[t] /\ metas'[t] = metas[t]
         /\ \A k \in Jobs \ {j} : moved'[k] = moved[k]
         /\ UNCHANGED <<slots, flushes, unitUp, unitNext, compactLock, first, outs,
                        partial, behind>>
  BY DEF Compaction, Start, Received, ResultUnreadable, WorkerLost,
         WaitFailed, SetBGError, RenameNext, RenameFails, Verify,
         VerifyFails, CompactLocally, Install, Scan, Purge, OnlyStep, Step,
         TypeInv, StagingTypeOK, Threads, unitVars

LEMMA FlushFrame ==
  ASSUME TypeInv, Flush
  PROVE  /\ \A j \in Jobs : tpc'[j] = tpc[j] /\ metas'[j] = metas[j]
         /\ UNCHANGED <<slots, moved, unitVars, staging>>
  BY StagingAssumption
     DEF Flush, BeginFlush, WriteFlush, InstallFlush, SkipFlush, Scan, Purge,
         Step, TypeInv, StagingTypeOK, Threads

LEMMA UnitFrame ==
  ASSUME (\E j \in Jobs : Unit(j)) \/ Crash \/ Idle \/ UNCHANGED vars
  PROVE  UNCHANGED primaryVars
  BY DEF Unit, CatchUp, OpenOutput, FinishOutput, ReplyOk, CompactFails, Crash,
         Idle, vars

(* An answer, once sent, does not change.                                  *)
LEMMA AnswerStable ==
  ASSUME TypeInv, WorkerInv, [Next]_vars, NEW j \in Jobs, upc[j] = "ok"
  PROVE  upc'[j] = "ok" /\ outs'[j] = outs[j] /\ first'[j] = first[j]
<1> USE DEF TypeInv, StagingTypeOK
<1>1. ASSUME NEW k \in Jobs, Unit(k)
      PROVE  upc'[j] = "ok" /\ outs'[j] = outs[j] /\ first'[j] = first[j]
  BY <1>1 DEF Unit, CatchUp, OpenOutput, FinishOutput, ReplyOk, CompactFails
<1>2. ASSUME NEW k \in Jobs, Start(k)
      PROVE  upc'[j] = "ok" /\ outs'[j] = outs[j] /\ first'[j] = first[j]
  BY <1>2 DEF Start, Step, WorkerInv
<1>3. ASSUME NEW k \in Jobs, Compaction(k), ~Start(k)
      PROVE  UNCHANGED <<upc, outs, first>>
  BY <1>3 DEF Compaction, Received, ResultUnreadable, WorkerLost, WaitFailed,
              SetBGError, RenameNext, RenameFails, Verify, VerifyFails,
              CompactLocally, Install, Scan, Purge, OnlyStep, unitVars
<1>4. ASSUME Flush PROVE UNCHANGED <<upc, outs, first>>
  BY <1>4, FlushFrame DEF unitVars
<1>5. CASE Crash
  BY <1>5 DEF Crash
<1> QED BY <1>1, <1>2, <1>3, <1>4, <1>5 DEF Next, Idle, vars, unitVars

LEMMA MetasInit == Init => MetasInv /\ LiveInv
  BY DEF Init, MetasInv, JobMetas, FlushMetas, LiveInv, Threads

LEMMA JobMetasFrame ==
  ASSUME NEW j \in Jobs, JobMetas(j), tpc'[j] = tpc[j], metas'[j] = metas[j],
         moved'[j] = moved[j],
         upc[j] = "ok" => upc'[j] = "ok" /\ outs'[j] = outs[j]
  PROVE  JobMetas(j)'
  BY DEF JobMetas, LocalMetas, RemoteMetas

LEMMA JobMetasStep ==
  ASSUME TypeInv, WorkerInv, NEW j \in Jobs, JobMetas(j), Compaction(j)
  PROVE  JobMetas(j)'
<1> USE DEF TypeInv, StagingTypeOK, JobMetas, Step, Threads
<1>1. CASE Received(j)
  BY <1>1 DEF Received, OnlyStep, unitVars, WorkerInv, RemoteMetas
<1>2. CASE RenameNext(j)
  <2>1. PICK f \in StagedFiles(j, moved[j] + 1) :
          metas' = [metas EXCEPT ![j] = @ \cup
            {Meta(nextFile, <<j, moved[j] + 1>>, UniqueId("unit", f.num))}]
    BY <1>2 DEF RenameNext
  <2> DEFINE m == Meta(nextFile, <<j, moved[j] + 1>>, UniqueId("unit", f.num))
  <2>2. metas'[j] = metas[j] \cup {m} /\ m.out = <<j, moved[j] + 1>>
    BY <2>1 DEF Meta
  <2> HIDE DEF m
  <2>3. /\ tpc[j] = "install" /\ UNCHANGED <<tpc, upc, outs>>
        /\ moved'[j] = moved[j] + 1
    BY <1>2 DEF RenameNext, unitVars
  <2>4. RemoteMetas(j)
    BY <2>3
  <2>5. \A n \in metas'[j] : \E k \in 1 .. moved'[j] : n.out = <<j, k>>
    BY <2>2, <2>3, <2>4 DEF RemoteMetas
  <2>6. \A k \in 1 .. moved'[j] : \E n \in metas'[j] : n.out = <<j, k>>
    BY <2>2, <2>3, <2>4 DEF RemoteMetas
  <2>7. \A n \in metas[j] : n.out # m.out
    BY <2>2, <2>4 DEF RemoteMetas
  <2>8. \A n, p \in metas'[j] : n.out = p.out => n = p
    BY <2>2, <2>4, <2>7 DEF RemoteMetas
  <2>9. RemoteMetas(j)'
    BY <2>3, <2>4, <2>5, <2>6, <2>8 DEF RemoteMetas
  <2> QED BY <2>3, <2>9
<1>3. CASE Verify(j)
  BY <1>3 DEF Verify, OnlyStep, unitVars, RemoteMetas
<1>4. CASE CompactLocally(j)
  <2> DEFINE m == Meta(nextFile, <<j, 0>>, UniqueId("db", nextFile))
  <2>1. metas'[j] = {m} /\ m.out = <<j, 0>> /\ tpc'[j] = "verified"
    BY <1>4 DEF CompactLocally, Meta
  <2> HIDE DEF m
  <2>2. LocalMetas(j)'
    BY <2>1 DEF LocalMetas
  <2> QED BY <2>1, <2>2
<1>5. ASSUME tpc'[j] \notin {"install", "verified"} PROVE JobMetas(j)'
  BY <1>5
<1>6. CASE Start(j) \/ ResultUnreadable(j) \/ WorkerLost(j) \/ WaitFailed(j)
             \/ SetBGError(j) \/ RenameFails(j) \/ VerifyFails(j) \/ Install(j)
             \/ Scan(j, "failed") \/ Purge(j, "ended")
  <2>1. tpc'[j] \notin {"install", "verified"}
    BY <1>6 DEF Start, ResultUnreadable, WorkerLost, WaitFailed, SetBGError,
                RenameFails, VerifyFails, Install, Scan, Purge
  <2> QED BY <1>5, <2>1
<1> QED BY <1>1, <1>2, <1>3, <1>4, <1>6 DEF Compaction

LEMMA MetasStep == TypeInv /\ WorkerInv /\ MetasInv /\ [Next]_vars => MetasInv'
<1> SUFFICES ASSUME TypeInv, WorkerInv, MetasInv, [Next]_vars PROVE MetasInv'
  OBVIOUS
<1>1. ASSUME NEW j \in Jobs, tpc'[j] = tpc[j], metas'[j] = metas[j],
             moved'[j] = moved[j]
      PROVE  JobMetas(j)'
  BY <1>1, AnswerStable, JobMetasFrame DEF MetasInv
<1>2. ASSUME UNCHANGED flushes, tpc'[FlushThread] = tpc[FlushThread],
             metas'[FlushThread] = metas[FlushThread]
      PROVE  FlushMetas'
  BY <1>2 DEF MetasInv, FlushMetas
<1>3. CASE UNCHANGED primaryVars
  BY <1>1, <1>2, <1>3 DEF primaryVars, MetasInv
<1>4. ASSUME NEW j \in Jobs, Compaction(j) PROVE MetasInv'
  <2>1. FlushMetas'
    BY <1>2, <1>4, CompactionFrame, StagingAssumption DEF Threads
  <2>2. JobMetas(j)'
    BY <1>4, JobMetasStep DEF MetasInv
  <2>3. \A k \in Jobs \ {j} : JobMetas(k)'
    BY <1>1, <1>4, CompactionFrame DEF Threads
  <2> QED BY <2>1, <2>2, <2>3 DEF MetasInv
<1>5. CASE Flush
  <2>1. \A j \in Jobs : JobMetas(j)'
    BY <1>1, <1>5, FlushFrame
  <2>2. ASSUME WriteFlush PROVE FlushMetas'
    <3> DEFINE m == Meta(nextFile, <<FlushThread, flushes>>, UniqueId("db", nextFile))
    <3>1. m.out = <<FlushThread, flushes>>
      BY DEF Meta
    <3>2. metas'[FlushThread] = {m} /\ flushes' = flushes
      BY <2>2 DEF WriteFlush, TypeInv, StagingTypeOK, Threads
    <3> HIDE DEF m
    <3> QED BY <3>1, <3>2 DEF FlushMetas
  <2>3. ASSUME tpc'[FlushThread] # "flushed" PROVE FlushMetas'
    BY <2>3 DEF FlushMetas
  <2>4. ASSUME \/ BeginFlush \/ InstallFlush \/ SkipFlush
               \/ Purge(FlushThread, "idle")
        PROVE  FlushMetas'
    BY <2>3, <2>4 DEF BeginFlush, InstallFlush, SkipFlush, Scan, Purge, Step,
                      TypeInv, StagingTypeOK, Threads
  <2>5. FlushMetas'
    BY <1>5, <2>2, <2>4 DEF Flush
  <2> QED BY <2>1, <2>5 DEF MetasInv
<1> QED BY <1>3, <1>4, <1>5, UnitFrame DEF Next

LEMMA LiveStep ==
  TypeInv /\ WorkerInv /\ MetasInv /\ LiveInv /\ [Next]_vars => LiveInv'
<1> SUFFICES ASSUME TypeInv, WorkerInv, MetasInv, LiveInv, [Next]_vars
             PROVE  LiveInv'
  OBVIOUS
<1> USE StagingAssumption DEF TypeInv, StagingTypeOK, LiveInv, Step, Threads
<1>1. CASE UNCHANGED primaryVars
  BY <1>1, AnswerStable DEF primaryVars
<1>2. ASSUME NEW j \in Jobs, Compaction(j) PROVE LiveInv'
  <2>1. \A k \in Jobs : upc[k] = "ok" => upc'[k] = "ok"
    BY AnswerStable
  <2>2. \A k \in Jobs : tpc[k] = "ended" => k # j
    BY <1>2 DEF Compaction, Start, Received, ResultUnreadable, WorkerLost,
                WaitFailed, SetBGError, RenameNext, RenameFails, Verify,
                VerifyFails, CompactLocally, Install, Scan, Purge
  <2>3. /\ \A k \in Jobs : tpc[k] = "ended" => tpc'[k] = "ended"
        /\ tpc'[FlushThread] = tpc[FlushThread] /\ flushes' = flushes
    BY <1>2, <2>2, CompactionFrame
  <2>4. CASE Install(j)
    <3>1. tpc'[j] = "ended" /\ live' = live \cup metas[j] /\ tpc[j] = "verified"
      BY <2>4 DEF Install
    <3>2. \A m \in metas[j] : m.out[1] = j /\ (m.out[2] = 0 \/ upc[j] = "ok")
      <4>1. CASE LocalMetas(j)
        BY <4>1 DEF LocalMetas
      <4>2. CASE RemoteMetas(j)
        BY <4>2 DEF RemoteMetas
      <4> QED BY <3>1, <4>1, <4>2 DEF MetasInv, JobMetas
    <3> QED BY <2>1, <2>3, <3>1, <3>2
  <2>5. CASE UNCHANGED live
    BY <2>1, <2>3, <2>5
  <2> QED BY <1>2, <2>4, <2>5
          DEF Compaction, Start, Received, ResultUnreadable, WorkerLost,
              WaitFailed, SetBGError, RenameNext, RenameFails, Verify,
              VerifyFails, CompactLocally, Scan, Purge, OnlyStep
<1>3. CASE Flush
  <2>1. \A m \in live : m.out[1] \in Jobs =>
          tpc'[m.out[1]] = tpc[m.out[1]] /\ upc'[m.out[1]] = upc[m.out[1]]
    BY <1>3, FlushFrame DEF unitVars
  <2>2. \A m \in live : m.out[2] \in Nat
    BY DEF Metadata, Outputs
  <2>3. CASE BeginFlush
    BY <2>1, <2>2, <2>3 DEF BeginFlush
  <2>4. CASE WriteFlush
    BY <2>1, <2>2, <2>4 DEF WriteFlush
  <2>5. CASE InstallFlush
    <3>1. tpc'[FlushThread] = "idle" /\ live' = live \cup metas[FlushThread]
          /\ tpc[FlushThread] = "flushed" /\ flushes' = flushes
      BY <2>5 DEF InstallFlush
    <3>2. \A m \in metas[FlushThread] : m.out[1] = FlushThread /\ m.out[2] = flushes
      BY <3>1 DEF MetasInv, FlushMetas
    <3> QED BY <2>1, <2>2, <3>1, <3>2
  <2>6. CASE SkipFlush \/ Purge(FlushThread, "idle")
    BY <2>1, <2>2, <2>6 DEF SkipFlush, Scan, Purge
  <2> QED BY <1>3, <2>3, <2>4, <2>5, <2>6 DEF Flush
<1> QED BY <1>1, <1>2, <1>3, UnitFrame DEF Next

-----------------------------------------------------------------------------
(* One compaction at a time.                                               *)

LEMMA AloneInit == Init => AloneInv /\ UidInv /\ IdsInv /\ OrphanInv
<1> SUFFICES ASSUME Init PROVE AloneInv /\ UidInv /\ IdsInv /\ OrphanInv
  OBVIOUS
<1>1. (\A t \in Threads : tpc[t] = "idle") /\ (\A j \in Jobs : upc[j] = "none")
  BY DEF Init
<1>2. Owned = {}
  BY <1>1, InOwned DEF Init, InFlight
<1>3. AloneInv
  BY <1>1, <1>2 DEF AloneInv, OneActive, Active, Staged, Threads
<1>4. UidInv
  BY <1>1, <1>2 DEF UidInv, InFlight, Threads
<1>5. IdsInv
  BY <1>1 DEF Init, IdsInv, Above, FromUnit
<1>6. OrphanInv
  BY DEF Init, OrphanInv
<1> QED BY <1>3, <1>4, <1>5, <1>6

(* The scheduler starts a compaction only when none is active.             *)
LEMMA OneActiveStep ==
  ASSUME TypeInv, slots = 1, OneActive, [Next]_vars PROVE OneActive'
<1> USE DEF TypeInv, StagingTypeOK, OneActive, Threads
<1>1. ASSUME NEW j \in Jobs, Start(j) PROVE OneActive'
  <2>1. IsFiniteSet(Active)
    BY StagingAssumption, FS_Subset DEF Active
  <2>2. Cardinality(Active) = 0
    BY <1>1, <2>1, FS_CardinalityType DEF Start
  <2>3. Active = {}
    BY <2>1, <2>2, FS_EmptySet
  <2>4. \A k \in Jobs \ {j} : tpc'[k] = tpc[k]
    BY <1>1 DEF Start, Step
  <2> QED BY <2>3, <2>4 DEF Active
<1>2. ASSUME \A j \in Jobs : tpc[j] \in {"idle", "ended"} => tpc'[j] \in {"idle", "ended"}
      PROVE  OneActive'
  BY <1>2 DEF Active
<1>3. ASSUME NEW j \in Jobs, Compaction(j), ~Start(j) PROVE OneActive'
  <2>1. tpc[j] \notin {"idle", "ended"}
    BY <1>3 DEF Compaction, Received, ResultUnreadable, WorkerLost, WaitFailed,
                SetBGError, RenameNext, RenameFails, Verify, VerifyFails,
                CompactLocally, Install, Scan, Purge, Step
  <2> QED BY <1>2, <1>3, <2>1, CompactionFrame
<1>4. CASE Flush
  BY <1>2, <1>4, FlushFrame
<1>5. CASE UNCHANGED primaryVars
  BY <1>2, <1>5 DEF primaryVars
<1> QED BY <1>1, <1>3, <1>4, <1>5, UnitFrame DEF Next

(* The file that the loop renames next is the output that was announced.   *)
LEMMA RenamesOwn ==
  ASSUME TypeInv, WorkerInv, NumbersInv, NEW j \in Jobs, Staged(j),
         RenameNext(j), NEW g \in StagedFiles(j, moved[j] + 1)
  PROVE  g = File(StagedNumber(j, moved[j] + 1), <<j, moved[j] + 1>>)
<1>1. File(StagedNumber(j, moved[j] + 1), <<j, moved[j] + 1>>) \in staging
  BY DEF Staged, RenameNext, WorkerInv, TypeInv, StagingTypeOK
<1>2. g \in staging /\ g.num = StagedNumber(j, moved[j] + 1)
  BY DEF StagedFiles
<1> QED BY <1>1, <1>2 DEF NumbersInv, File

LEMMA StagedUnit ==
  ASSUME TypeInv, WorkerInv, slots = 1, OneActive, NEW j \in Jobs, Staged(j),
         NEW k \in Jobs, Unit(k)
  PROVE  Staged(j)'
<1> USE DEF TypeInv, StagingTypeOK, Staged, StagedNumber, primaryVars
<1>1. CASE CatchUp(k)
  BY <1>1 DEF CatchUp, WorkerInv
<1>2. CASE OpenOutput(k)
  <2>1. tpc[k] = "wait" /\ k \in Active
    BY <1>2 DEF OpenOutput, WorkerInv, Active
  <2>2. CASE k # j
    <3>1. j \notin Active
      BY <2>1, <2>2 DEF OneActive
    <3> QED BY <1>2, <3>1 DEF OpenOutput, Active
  <2>3. CASE k = j
    <3>1. /\ moved[j] = 0 /\ unitNext = first[j] + outs[j]
          /\ outs'[j] = outs[j] + 1
          /\ UNCHANGED <<moved, first, tpc>>
          /\ staging' = {f \in staging : f.num # unitNext}
                           \cup {File(unitNext, <<j, outs[j] + 1>>)}
      BY <1>2, <2>1, <2>3 DEF OpenOutput, WorkerInv
    <3>2. ASSUME NEW i \in 1 .. outs[j]
          PROVE  File(first[j] + i - 1, <<j, i>>) \in staging'
      <4>1. File(first[j] + i - 1, <<j, i>>) \in staging
        BY <1>2, <2>1, <2>3, <3>1 DEF OpenOutput
      <4>2. first[j] + i - 1 # unitNext
        BY <3>1
      <4>3. File(first[j] + i - 1, <<j, i>>).num = first[j] + i - 1
        BY DEF File
      <4> QED BY <3>1, <4>1, <4>2, <4>3
    <3>3. unitNext = first[j] + (outs[j] + 1) - 1
      BY <3>1
    <3>4. \A i \in 1 .. outs[j] + 1 : File(first[j] + i - 1, <<j, i>>) \in staging'
      BY <3>1, <3>2, <3>3
    <3> QED BY <3>1, <3>4
  <2> QED BY <2>2, <2>3
<1>3. CASE FinishOutput(k)
  BY <1>3 DEF FinishOutput
<1>4. CASE ReplyOk(k)
  BY <1>4 DEF ReplyOk
<1>5. CASE CompactFails(k)
  BY <1>5 DEF CompactFails
<1> QED BY <1>1, <1>2, <1>3, <1>4, <1>5 DEF Unit

LEMMA StagedCompaction ==
  ASSUME TypeInv, WorkerInv, NumbersInv, slots = 1, OneActive,
         NEW j \in Jobs, Staged(j), NEW k \in Jobs, Compaction(k)
  PROVE  Staged(j)'
<1> USE DEF TypeInv, StagingTypeOK, Staged, StagedNumber
<1>1. CASE Start(k)
  BY <1>1 DEF Start, Step, Threads, WorkerInv
<1>2. CASE RenameNext(k)
  <2>1. tpc[k] = "install" /\ k \in Active
    BY <1>2 DEF RenameNext, Active
  <2>2. CASE k # j
    <3>1. j \notin Active
      BY <2>1, <2>2 DEF OneActive
    <3> QED BY <1>2, <3>1 DEF RenameNext, Active
  <2>3. CASE k = j
    <3>1. PICK g \in StagedFiles(j, moved[j] + 1) : staging' = staging \ {g}
      BY <1>2, <2>3 DEF RenameNext
    <3>2. g.num = first[j] + (moved[j] + 1) - 1
      BY DEF StagedFiles
    <3>3. upc[j] = "ok" /\ moved'[j] = moved[j] + 1 /\ UNCHANGED <<first, outs>>
      BY <1>2, <2>1, <2>3 DEF RenameNext, unitVars, WorkerInv
    <3>4. ASSUME NEW i \in moved[j] + 2 .. outs[j]
          PROVE  File(first[j] + i - 1, <<j, i>>) \in staging'
      <4>1. File(first[j] + i - 1, <<j, i>>) \in staging
        BY <2>1, <2>3, <3>3
      <4>2. File(first[j] + i - 1, <<j, i>>).num = first[j] + i - 1
        BY DEF File
      <4>3. first[j] + i - 1 # g.num
        BY <3>2
      <4> QED BY <3>1, <4>1, <4>2, <4>3
    <3>5. moved'[j] + 1 = moved[j] + 2
      BY <3>3
    <3> QED BY <3>3, <3>4, <3>5
  <2> QED BY <2>2, <2>3
<1>3. CASE UNCHANGED <<upc, outs, first, moved, staging>>
           /\ (tpc'[j] \in {"wait", "install"} => tpc[j] \in {"wait", "install"})
  BY <1>3
<1>4. CASE Received(k) \/ ResultUnreadable(k) \/ WorkerLost(k) \/ WaitFailed(k)
             \/ SetBGError(k)
  BY <1>3, <1>4 DEF Received, ResultUnreadable, WorkerLost, WaitFailed, SetBGError,
                    OnlyStep, unitVars, Step, Threads
<1>5. CASE RenameFails(k) \/ Verify(k) \/ VerifyFails(k) \/ CompactLocally(k)
             \/ Install(k) \/ Scan(k, "failed") \/ Purge(k, "ended")
  BY <1>3, <1>5 DEF RenameFails, Verify, VerifyFails, CompactLocally, Install, Scan,
                    Purge, OnlyStep, unitVars, Step, Threads
<1> QED BY <1>1, <1>2, <1>4, <1>5 DEF Compaction

LEMMA AloneStep ==
  /\ TypeInv /\ WorkerInv /\ HeldInv /\ SafeInv /\ NumbersInv /\ AloneInv
  /\ [Next]_vars
  => AloneInv'
<1> SUFFICES ASSUME TypeInv, WorkerInv, HeldInv, SafeInv, NumbersInv, AloneInv,
                    [Next]_vars, slots' = 1
             PROVE  AloneInv'
  BY DEF AloneInv
<1>1. slots = 1
  BY CompactionFrame, FlushFrame, UnitFrame DEF Next, primaryVars
<1>2. OneActive /\ (\A j \in Jobs : Staged(j))
      /\ \A m \in Owned : File(m.num, m.out) \in dbDir
  BY <1>1 DEF AloneInv
<1>3. OneActive'
  BY <1>1, <1>2, OneActiveStep
<1>4. ASSUME NEW j \in Jobs PROVE Staged(j)'
  <2>1. CASE Flush
    BY <1>2, <2>1, FlushFrame DEF Staged, StagedNumber, unitVars
  <2>2. CASE Crash
    BY <1>2, <2>2 DEF Crash, Staged, StagedNumber, primaryVars
  <2>3. CASE UNCHANGED vars
    BY <1>2, <2>3 DEF Staged, StagedNumber, vars, primaryVars, unitVars
  <2> QED BY <1>1, <1>2, <2>1, <2>2, <2>3, StagedUnit, StagedCompaction
          DEF Next, Idle
<1>5. \A m \in Owned' : File(m.num, m.out) \in dbDir'
  <2>1. CASE Adds
    <3>1. PICK m \in Metadata, f \in Files :
            /\ m.num = nextFile /\ f.num = nextFile /\ Added(m, f)
            /\ Owned' = Owned \cup {m} /\ dbDir' = dbDir \cup {f}
      BY <2>1, AddStep
    <3>2. f.of = m.out
      <4>1. CASE m.uid = UniqueId("db", nextFile) /\ f.of = m.out
        BY <4>1
      <4>2. ASSUME NEW j \in Jobs, NEW g \in StagedFiles(j, moved[j] + 1),
                   RenameNext(j), m.out = <<j, moved[j] + 1>>, f.of = g.of
            PROVE  f.of = m.out
        BY <1>2, <4>2, RenamesOwn DEF File
      <4> QED BY <3>1, <4>1, <4>2 DEF Added
    <3>3. f = File(m.num, m.out)
      BY <3>1, <3>2 DEF Files, File
    <3> QED BY <1>2, <3>1, <3>3
  <2>2. CASE ~Adds /\ \E t \in Threads : \E to \in {"ended", "idle"} : Purge(t, to)
    <3>1. PICK t \in Threads : dbDir' = {f \in dbDir : f.num \notin doomed[t]}
      BY <2>2 DEF Purge
    <3>2. \A m \in Owned : File(m.num, m.out).num \notin doomed[t]
      BY DEF SafeInv, File
    <3>3. Owned' \subseteq Owned
      BY <2>2, OtherStep
    <3> QED BY <1>2, <3>1, <3>2, <3>3
  <2>3. CASE ~Adds /\ UNCHANGED dbDir
    BY <1>2, <2>3, OtherStep
  <2>4. ASSUME NEW j \in Jobs, Compaction(j)
        PROVE  \/ Adds \/ UNCHANGED dbDir \/ Purge(j, "ended")
    BY <2>4 DEF Compaction, Start, Received, ResultUnreadable, WorkerLost,
                WaitFailed, SetBGError, RenameFails, Verify, VerifyFails, Install,
                Scan, OnlyStep, Adds
  <2>5. ASSUME Flush
        PROVE  \/ Adds \/ UNCHANGED dbDir \/ Purge(FlushThread, "idle")
    BY <2>5 DEF Flush, BeginFlush, InstallFlush, SkipFlush, Scan, Adds
  <2> QED BY <2>1, <2>2, <2>3, <2>4, <2>5, UnitFrame DEF Next, primaryVars, Threads
<1> QED BY <1>3, <1>4, <1>5 DEF AloneInv

-----------------------------------------------------------------------------
(* Unique ids.                                                             *)

(* The staged numbers of a job about to install do not move.               *)
LEMMA FirstStable ==
  ASSUME TypeInv, WorkerInv, [Next]_vars, NEW j \in Jobs, InFlight(j)
  PROVE  first'[j] = first[j]
<1>1. ASSUME NEW k \in Jobs, Unit(k) PROVE first'[j] = first[j]
  BY <1>1 DEF Unit, CatchUp, OpenOutput, FinishOutput, ReplyOk, CompactFails,
              WorkerInv, InFlight, TypeInv, StagingTypeOK
<1> QED BY <1>1, CompactionFrame, FlushFrame
        DEF Next, Crash, Idle, vars, unitVars

LEMMA UidStep == TypeInv /\ WorkerInv /\ UidInv /\ [Next]_vars => UidInv'
<1> SUFFICES ASSUME TypeInv, WorkerInv, UidInv, [Next]_vars PROVE UidInv'
  OBVIOUS
<1> USE DEF TypeInv, StagingTypeOK
<1>1. \A m \in Owned' : m.uid.session = "db" => m.uid.num = m.num
  <2>1. CASE Adds
    <3>1. PICK m, f : m.num = nextFile /\ Added(m, f) /\ Owned' = Owned \cup {m}
      BY <2>1, AddStep
    <3>2. m.uid.session = "db" => m.uid.num = m.num
      <4>1. m.uid = UniqueId("db", nextFile) \/ \E n : m.uid = UniqueId("unit", n)
        BY <3>1 DEF Added
      <4>2. CASE m.uid = UniqueId("db", nextFile)
        <5>1. UniqueId("db", nextFile).num = nextFile
          BY DEF UniqueId
        <5> QED BY <3>1, <4>2, <5>1
      <4>3. ASSUME NEW n, m.uid = UniqueId("unit", n) PROVE m.uid.session # "db"
        <5>1. UniqueId("unit", n).session = "unit"
          BY DEF UniqueId
        <5> QED BY <4>3, <5>1
      <4> QED BY <4>1, <4>2, <4>3
    <3> QED BY <3>1, <3>2 DEF UidInv
  <2>2. CASE ~Adds
    BY <2>2, OtherStep DEF UidInv
  <2> QED BY <2>1, <2>2
<1>2. ASSUME NEW j \in Jobs, InFlight(j), metas'[j] = metas[j],
             NEW m \in FromUnit(metas'[j])
      PROVE  m.out[2] > 0 /\ m.uid.num = StagedNumber(j, m.out[2])'
  BY <1>2, FirstStable DEF UidInv, StagedNumber
<1>3. ASSUME NEW j \in Jobs, InFlight(j)', NEW m \in FromUnit(metas'[j])
      PROVE  m.out[2] > 0 /\ m.uid.num = StagedNumber(j, m.out[2])'
  <2>1. CASE RenameNext(j)
    <3>1. PICK f \in StagedFiles(j, moved[j] + 1) :
            metas' = [metas EXCEPT ![j] = @ \cup
              {Meta(nextFile, <<j, moved[j] + 1>>, UniqueId("unit", f.num))}]
      BY <2>1 DEF RenameNext
    <3>2. InFlight(j) /\ first' = first
      BY <2>1 DEF RenameNext, InFlight, unitVars
    <3>3. CASE m \in metas[j]
      BY <3>2, <3>3 DEF UidInv, FromUnit, StagedNumber
    <3>4. CASE m = Meta(nextFile, <<j, moved[j] + 1>>, UniqueId("unit", f.num))
      <4>1. m.out[2] = moved[j] + 1 /\ m.uid.num = f.num
        BY <3>4 DEF Meta, UniqueId
      <4>2. f.num = first[j] + (moved[j] + 1) - 1
        BY DEF StagedFiles, StagedNumber
      <4> QED BY <3>2, <4>1, <4>2 DEF StagedNumber
    <3>5. m \in metas'[j]
      BY DEF FromUnit
    <3> QED BY <3>1, <3>3, <3>4, <3>5 DEF Threads
  <2>2. CASE CompactLocally(j)
    <3>1. m = Meta(nextFile, <<j, 0>>, UniqueId("db", nextFile))
      BY <2>2 DEF CompactLocally, FromUnit, Threads
    <3>2. m.uid.session = "db"
      BY <3>1 DEF Meta, UniqueId
    <3> QED BY <3>2 DEF FromUnit
  <2>3. CASE Received(j)
    BY <2>3 DEF Received, OnlyStep, FromUnit, WorkerInv, Step
  <2>4. CASE Verify(j)
    BY <1>2, <2>4 DEF Verify, OnlyStep, InFlight, Step
  <2>5. ASSUME tpc'[j] = tpc[j], metas'[j] = metas[j]
        PROVE  m.out[2] > 0 /\ m.uid.num = StagedNumber(j, m.out[2])'
    BY <1>2, <1>3, <2>5 DEF InFlight
  <2>6. ASSUME NEW k \in Jobs \ {j}, Compaction(k)
        PROVE  m.out[2] > 0 /\ m.uid.num = StagedNumber(j, m.out[2])'
    BY <2>5, <2>6, CompactionFrame DEF Threads
  <2>7. CASE Flush
    BY <2>5, <2>7, FlushFrame
  <2>8. CASE UNCHANGED primaryVars
    BY <2>5, <2>8 DEF primaryVars
  <2>9. CASE Compaction(j)
    <3>1. ~(\/ Start(j) \/ ResultUnreadable(j) \/ WorkerLost(j) \/ WaitFailed(j)
            \/ SetBGError(j) \/ RenameFails(j) \/ VerifyFails(j) \/ Install(j)
            \/ Scan(j, "failed") \/ Purge(j, "ended"))
      BY <1>3 DEF Start, ResultUnreadable, WorkerLost, WaitFailed, SetBGError,
                  RenameFails, VerifyFails, Install, Scan, Purge, Step, InFlight,
                  Threads
    <3> QED BY <2>1, <2>2, <2>3, <2>4, <2>9, <3>1 DEF Compaction
  <2> QED BY <2>6, <2>7, <2>8, <2>9, UnitFrame DEF Next
<1>4. ASSUME InFlight(FlushThread)' PROVE FromUnit(metas'[FlushThread]) = {}
  <2>1. CASE WriteFlush
    <3>1. \A m \in metas'[FlushThread] : m.uid.session = "db"
      BY <2>1 DEF WriteFlush, Meta, UniqueId, Threads
    <3> QED BY <3>1 DEF FromUnit
  <2>2. CASE tpc'[FlushThread] = tpc[FlushThread]
             /\ metas'[FlushThread] = metas[FlushThread]
    BY <1>4, <2>2 DEF UidInv, InFlight
  <2>3. CASE Flush
    <3>1. ~(BeginFlush \/ InstallFlush \/ SkipFlush \/ Purge(FlushThread, "idle"))
      BY <1>4 DEF BeginFlush, InstallFlush, SkipFlush, Scan, Purge, Step, InFlight,
                  Threads
    <3> QED BY <2>1, <2>3, <3>1 DEF Flush
  <2>4. ASSUME NEW k \in Jobs, Compaction(k)
        PROVE  FromUnit(metas'[FlushThread]) = {}
    BY <2>2, <2>4, CompactionFrame, StagingAssumption DEF Threads
  <2>5. CASE UNCHANGED primaryVars
    BY <2>2, <2>5 DEF primaryVars
  <2> QED BY <2>3, <2>4, <2>5, UnitFrame DEF Next
<1> QED BY <1>1, <1>3, <1>4 DEF UidInv

(* What a job installs from the worker has ids from its first staged       *)
(* number up, and below the next file number.                              *)
LEMMA InstalledIds ==
  ASSUME TypeInv, WorkerInv, MetasInv, UidInv, NEW j \in Jobs,
         tpc[j] = "verified", Above(j), NEW m \in FromUnit(metas[j])
  PROVE  RemoteMetas(j) /\ first[j] <= m.uid.num /\ m.uid.num <= nextFile
<1> USE DEF TypeInv, StagingTypeOK
<1>1. m \in metas[j] /\ m.out[2] > 0 /\ m.uid.num = StagedNumber(j, m.out[2])
  BY DEF UidInv, InFlight, FromUnit
<1>2. RemoteMetas(j)
  <2>1. ASSUME LocalMetas(j) PROVE FALSE
    <3>1. m.out = <<j, 0>>
      BY <1>1, <2>1 DEF LocalMetas
    <3> QED BY <1>1, <3>1
  <2> QED BY <2>1 DEF MetasInv, JobMetas
<1>3. PICK k \in 1 .. moved[j] : m.out = <<j, k>>
  BY <1>1, <1>2 DEF RemoteMetas
<1>4. first[j] + moved[j] <= nextFile + 1
  BY <1>2 DEF Above, RemoteMetas
<1> QED BY <1>1, <1>2, <1>3, <1>4 DEF StagedNumber

(* Only installations change the version and what the MANIFEST says.       *)
LEMMA LiveChange ==
  ASSUME [Next]_vars
  PROVE  \/ UNCHANGED <<live, manifestNext>>
         \/ \E j \in Jobs : Install(j)
         \/ InstallFlush
<1>1. ASSUME NEW j \in Jobs, Compaction(j), ~Install(j)
      PROVE  UNCHANGED <<live, manifestNext>>
  BY <1>1 DEF Compaction, Start, Received, ResultUnreadable, WorkerLost,
              WaitFailed, SetBGError, RenameNext, RenameFails, Verify,
              VerifyFails, CompactLocally, Scan, Purge, OnlyStep
<1>2. ASSUME Flush, ~InstallFlush PROVE UNCHANGED <<live, manifestNext>>
  BY <1>2 DEF Flush, BeginFlush, WriteFlush, SkipFlush, Scan, Purge
<1> QED BY <1>1, <1>2, UnitFrame DEF Next, primaryVars

(* An answered job keeps its staged numbers above the installed ones.      *)
LEMMA AboveStep ==
  ASSUME TypeInv, WorkerInv, UidInv, OneActive, [Next]_vars, ~behind',
         \A m \in FromUnit(live) : m.uid.num <= manifestNext,
         NEW j \in Jobs, Above(j)
  PROVE  Above(j)'
<1> USE DEF TypeInv, StagingTypeOK, Above
<1> DEFINE Busy == upc[j] \in {"compacting", "writing", "ok"} /\ tpc[j] # "ended"
<1>1. \A m \in FromUnit(live) : m.uid.num \in Nat
  BY DEF FromUnit, Metadata, UniqueIds
<1>2. nextFile' \in {nextFile, nextFile + 1}
  BY AddStep, OtherStep
<1>3. ASSUME Busy, UNCHANGED <<live, first>>, moved'[j] = moved[j] PROVE Above(j)'
  BY <1>2, <1>3
<1>4. ASSUME NEW k \in Jobs, Unit(k) PROVE Above(j)'
  <2>1. UNCHANGED primaryVars
    BY <1>4, UnitFrame
  <2>2. CASE CatchUp(k) /\ k = j
    <3>1. unitNext' \in manifestNext + 1 .. nextFile + 1
      BY <2>2 DEF CatchUp
    <3>2. first'[j] \in manifestNext + 1 .. nextFile + 1 /\ moved[j] = 0
      BY <2>2, <3>1 DEF CatchUp, WorkerInv
    <3> QED BY <1>1, <2>1, <3>2 DEF primaryVars
  <2>3. CASE CatchUp(k) /\ k # j
    <3>1. first'[j] = first[j] /\ upc'[j] = upc[j]
      BY <2>3 DEF CatchUp
    <3> QED BY <2>1, <3>1 DEF primaryVars
  <2>4. CASE OpenOutput(k) \/ FinishOutput(k) \/ ReplyOk(k) \/ CompactFails(k)
    <3>1. first' = first
      BY <2>4 DEF OpenOutput, FinishOutput, ReplyOk, CompactFails
    <3>2. upc'[j] \in {"compacting", "writing", "ok"} =>
            upc[j] \in {"compacting", "writing", "ok"}
      BY <2>4 DEF OpenOutput, FinishOutput, ReplyOk, CompactFails
    <3> QED BY <2>1, <3>1, <3>2 DEF primaryVars
  <2> QED BY <1>4, <2>2, <2>3, <2>4 DEF Unit
<1>5. CASE Crash
  BY <1>5 DEF Crash, primaryVars
<1>6. CASE UNCHANGED vars
  BY <1>6 DEF vars, primaryVars, unitVars
<1>7. ASSUME NEW k \in Jobs, Compaction(k), Busy' PROVE Above(j)'
  <2>1. first' = first /\ (k # j => tpc'[j] = tpc[j] /\ moved'[j] = moved[j])
    BY <1>7, CompactionFrame DEF Threads
  <2>2. Busy
    <3>1. upc'[j] \in {"compacting", "writing", "ok"} => upc'[j] = upc[j]
      BY <1>7 DEF Compaction, Start, Received, ResultUnreadable, WorkerLost,
                  WaitFailed, SetBGError, RenameNext, RenameFails, Verify,
                  VerifyFails, CompactLocally, Install, Scan, Purge, OnlyStep,
                  unitVars
    <3>2. tpc[k] # "ended"
      BY <1>7 DEF Compaction, Start, Received, ResultUnreadable, WorkerLost,
                  WaitFailed, SetBGError, RenameNext, RenameFails, Verify,
                  VerifyFails, CompactLocally, Install, Scan, Purge, Step
    <3> QED BY <1>7, <2>1, <3>1, <3>2
  <2>3. CASE Install(k)
    <3>1. k # j
      BY <1>7, <2>3 DEF Install, Step, Threads
    <3>2. k \in Active /\ j \in Active
      BY <2>2, <2>3 DEF Install, Step, Active, WorkerInv
    <3> QED BY <3>1, <3>2 DEF OneActive
  <2>4. CASE RenameNext(k) /\ k = j
    BY <1>1, <2>1, <2>2, <2>4 DEF RenameNext
  <2>5. CASE ~Install(k) /\ ~(RenameNext(k) /\ k = j)
    <3>1. UNCHANGED live
      BY <1>7, <2>5 DEF Compaction, Start, Received, ResultUnreadable, WorkerLost,
                  WaitFailed, SetBGError, RenameNext, RenameFails, Verify,
                  VerifyFails, CompactLocally, Scan, Purge, OnlyStep
    <3>2. moved'[j] = moved[j]
      BY <1>7, <2>5, <2>1 DEF Compaction, Start, Received, ResultUnreadable,
                  WorkerLost, WaitFailed, SetBGError, RenameFails, Verify,
                  VerifyFails, CompactLocally, Install, Scan, Purge, OnlyStep
    <3> QED BY <1>3, <2>1, <2>2, <3>1, <3>2
  <2> QED BY <2>3, <2>4, <2>5
<1>8. CASE Flush
  <2>1. UNCHANGED <<moved, first, upc>> /\ tpc'[j] = tpc[j]
    BY <1>8, FlushFrame DEF unitVars
  <2>2. FromUnit(live') = FromUnit(live)
    <3>1. CASE InstallFlush
      BY <3>1 DEF InstallFlush, Step, InFlight, UidInv, FromUnit
    <3>2. CASE ~InstallFlush
      BY <1>8, <3>2 DEF Flush, BeginFlush, WriteFlush, SkipFlush, Scan, Purge
    <3> QED BY <3>1, <3>2
  <2> QED BY <1>2, <2>1, <2>2
<1> QED BY <1>4, <1>5, <1>6, <1>7, <1>8 DEF Next, Idle

LEMMA IdsStep ==
  /\ TypeInv /\ WorkerInv /\ HeldInv /\ NumbersInv /\ MetasInv /\ AloneInv
  /\ UidInv /\ IdsInv /\ [Next]_vars
  => IdsInv'
<1> SUFFICES ASSUME TypeInv, WorkerInv, HeldInv, NumbersInv, MetasInv, AloneInv,
                    UidInv, IdsInv, [Next]_vars, slots' = 1, ~behind'
             PROVE  IdsInv'
  BY DEF IdsInv
<1> USE DEF TypeInv, StagingTypeOK
<1>1. slots = 1
  BY CompactionFrame, FlushFrame, UnitFrame DEF Next, primaryVars
<1>2. ~behind
  BY CompactionFrame, FlushFrame
     DEF Next, Unit, CatchUp, OpenOutput, FinishOutput, ReplyOk, CompactFails,
         Crash, Idle, vars, unitVars
<1>3. /\ \A m \in FromUnit(live) : m.uid.num <= manifestNext
      /\ \A j \in Jobs : Above(j)
      /\ \A m, n \in live : m.uid = n.uid => m = n
      /\ OneActive
  BY <1>1, <1>2 DEF IdsInv, AloneInv
<1>4. \A j \in Jobs : Above(j)'
  BY <1>3, AboveStep
<1>5. \A m \in live : m.uid.num \in Nat
  BY DEF Metadata, UniqueIds
<1>6. ASSUME NEW j \in Jobs, Install(j)
      PROVE  /\ \A m \in FromUnit(live') : m.uid.num <= manifestNext'
             /\ \A m, n \in live' : m.uid = n.uid => m = n
  <2>1. /\ tpc[j] = "verified" /\ live' = live \cup metas[j]
        /\ manifestNext' = nextFile
    BY <1>6 DEF Install, Step
  <2>2. \A m \in FromUnit(metas[j]) :
          RemoteMetas(j) /\ first[j] <= m.uid.num /\ m.uid.num <= nextFile
    BY <1>3, <2>1, InstalledIds
  <2>3. \A m \in FromUnit(live') : m.uid.num <= manifestNext'
    BY <1>3, <1>5, <2>1, <2>2 DEF FromUnit
  <2>4. live \cup metas[j] \subseteq Owned
    BY <2>1, InOwned DEF InFlight, Threads
  <2>5. \A m \in live \cup metas[j] : m.uid.session \in {"unit", "db"}
    BY DEF Metadata, UniqueIds, Threads
  <2>6. ASSUME NEW m \in live \cup metas[j], NEW n \in metas[j], m.uid = n.uid
        PROVE  m = n
    <3>1. CASE m.uid.session = "db"
      BY <2>4, <2>6, <3>1 DEF UidInv, NumbersInv
    <3>2. CASE m.uid.session = "unit" /\ m \in live
      <4>1. m \in FromUnit(live) /\ n \in FromUnit(metas[j])
        BY <2>6, <3>2 DEF FromUnit
      <4>2. m.uid.num < first[j]
        BY <1>3, <2>1, <2>2, <4>1 DEF Above, RemoteMetas
      <4> QED BY <1>5, <2>2, <2>6, <3>2, <4>1, <4>2
    <3>3. CASE m.uid.session = "unit" /\ m \in metas[j]
      <4>1. m \in FromUnit(metas[j]) /\ n \in FromUnit(metas[j])
        BY <2>6, <3>3 DEF FromUnit
      <4>2. /\ m.uid.num = first[j] + m.out[2] - 1
            /\ n.uid.num = first[j] + n.out[2] - 1
        BY <2>1, <4>1 DEF UidInv, InFlight, StagedNumber
      <4>3. RemoteMetas(j)
        BY <2>2, <4>1
      <4>4. PICK k \in 1 .. moved[j] : m.out = <<j, k>>
        BY <3>3, <4>3 DEF RemoteMetas
      <4>5. PICK i \in 1 .. moved[j] : n.out = <<j, i>>
        BY <4>3 DEF RemoteMetas
      <4>6. k = i
        BY <2>6, <4>2, <4>4, <4>5
      <4> QED BY <3>3, <4>3, <4>4, <4>5, <4>6 DEF RemoteMetas
    <3> QED BY <2>5, <3>1, <3>2, <3>3
  <2>7. \A m, n \in live' : m.uid = n.uid => m = n
    BY <1>3, <2>1, <2>6
  <2> QED BY <2>3, <2>7
<1>7. ASSUME InstallFlush
      PROVE  /\ \A m \in FromUnit(live') : m.uid.num <= manifestNext'
             /\ \A m, n \in live' : m.uid = n.uid => m = n
  <2>1. /\ InFlight(FlushThread) /\ live' = live \cup metas[FlushThread]
        /\ manifestNext' = nextFile
    BY <1>7 DEF InstallFlush, Step, InFlight
  <2>2. FromUnit(live') = FromUnit(live)
    BY <2>1 DEF UidInv, FromUnit
  <2>3. \A m \in FromUnit(live') : m.uid.num <= manifestNext'
    BY <1>3, <1>5, <2>1, <2>2 DEF FromUnit
  <2>4. live \cup metas[FlushThread] \subseteq Owned
    BY <2>1, InOwned DEF Threads
  <2>5. \A n \in metas[FlushThread] : n.uid.session = "db"
    BY <2>1 DEF UidInv, FromUnit, Metadata, UniqueIds, Threads
  <2>6. \A m \in live', n \in metas[FlushThread] : m.uid = n.uid => m = n
    BY <2>1, <2>4, <2>5 DEF UidInv, NumbersInv
  <2> QED BY <1>3, <2>1, <2>3, <2>6
<1>8. /\ \A m \in FromUnit(live') : m.uid.num <= manifestNext'
      /\ \A m, n \in live' : m.uid = n.uid => m = n
  BY <1>3, <1>6, <1>7, LiveChange
<1> QED BY <1>4, <1>8 DEF IdsInv

-----------------------------------------------------------------------------
(* Files that failed jobs leave.                                           *)

LEMMA OwnedStays ==
  ASSUME live \subseteq live', UNCHANGED metas,
         \A t \in Threads : InFlight(t) => InFlight(t)' \/ metas[t] \subseteq live'
  PROVE  Owned \subseteq Owned'
  BY InOwned, InOwnedNext

(* When no other thread holds a number, the scan condemns every file that  *)
(* is not in the version.                                                  *)
LEMMA ScanFindsAll ==
  ASSUME TypeInv, HeldInv, OneActive, tpc[FlushThread] = "idle",
         NEW j \in Jobs, Scan(j, "failed"), NEW f \in dbDir
  PROVE  f.num \in doomed'[j] \/ \E m \in live : m.num = f.num
<1> USE DEF TypeInv, StagingTypeOK
<1>1. ASSUME NEW t \in Threads PROVE pending'[t] = 0
  <2>1. CASE t = j
    BY <2>1 DEF Scan
  <2>2. CASE t # j
    <3>1. j \in Active
      BY DEF Scan, Step, Active
    <3>2. tpc[t] \in {"idle", "ended"}
      BY <2>2, <3>1 DEF OneActive, Active, Threads
    <3>3. pending[t] = 0
      BY <3>2 DEF HeldInv, Holds
    <3> QED BY <2>2, <3>3 DEF Scan
  <2> QED BY <2>1, <2>2
<1>2. CASE Keep(f.num, pending')
  BY <1>1, <1>2 DEF Keep
<1>3. CASE ~Keep(f.num, pending')
  <2>1. doomed'[j] = Obsolete(pending')
    BY DEF Scan, Threads
  <2> QED BY <1>3, <2>1 DEF Obsolete
<1> QED BY <1>2, <1>3

LEMMA OrphanStep ==
  /\ TypeInv /\ WorkerInv /\ HeldInv /\ AloneInv /\ OrphanInv /\ [Next]_vars
  => OrphanInv'
<1> SUFFICES ASSUME TypeInv, WorkerInv, HeldInv, AloneInv, OrphanInv, [Next]_vars,
                    slots' = 1, flushes' = 0, NEW f \in dbDir'
             PROVE  (\E m \in Owned' : m.num = f.num) \/ Left(f)'
  BY DEF OrphanInv, Left
<1> USE DEF TypeInv, StagingTypeOK, Threads, Left
<1> DEFINE Goal == (\E m \in Owned' : m.num = f.num) \/ Left(f)'
<1>1. slots = 1
  BY CompactionFrame, FlushFrame, UnitFrame DEF Next, primaryVars
<1>2. ~Flush
  BY DEF Flush, BeginFlush, WriteFlush, InstallFlush, SkipFlush, Scan, Purge, Step
<1>3. flushes = 0 /\ tpc[FlushThread] = "idle"
  BY <1>2, CompactionFrame, UnitFrame DEF Next, primaryVars
<1>4. OneActive /\ \A g \in dbDir : (\E m \in Owned : m.num = g.num) \/ Left(g)
  BY <1>1, <1>3 DEF AloneInv, OrphanInv
<1>5. CASE UNCHANGED primaryVars
  <2>1. Owned \subseteq Owned'
    BY <1>5, OwnedStays DEF primaryVars, InFlight
  <2> QED BY <1>4, <1>5, <2>1 DEF primaryVars
<1>6. ASSUME NEW j \in Jobs, Compaction(j) PROVE Goal
  <2>1. \A k \in Jobs \ {j} : tpc'[k] = tpc[k]
    BY <1>6, CompactionFrame
  <2>2. CASE Adds
    <3>1. PICK m, g : /\ m.num = nextFile /\ g.num = nextFile
                      /\ Owned' = Owned \cup {m} /\ dbDir' = dbDir \cup {g}
      BY <2>2, AddStep
    <3>2. UNCHANGED doomed
      BY <2>2, AddStep
    <3>3. CASE f = g
      BY <3>1, <3>3
    <3>4. CASE f \in dbDir
      <4>1. tpc[j] \notin {"failing", "failed", "purge"}
        BY <1>6, <2>2, <1>3, <2>1 DEF Adds, RenameNext, CompactLocally, WriteFlush,
           Step, Compaction, Start, Received, ResultUnreadable, WorkerLost,
           WaitFailed, SetBGError, RenameFails, Verify, VerifyFails, Install, Scan,
           Purge, OnlyStep
      <4> QED BY <1>4, <2>1, <3>1, <3>2, <3>4, <4>1
    <3> QED BY <3>1, <3>3, <3>4
  <2>3. ASSUME UNCHANGED <<dbDir, doomed>>, Owned \subseteq Owned',
               tpc[j] = "failing" => tpc'[j] = "failed",
               tpc[j] \notin {"failed", "purge"}
        PROVE  Goal
    BY <1>4, <2>1, <2>3
  <2>4. CASE Start(j) \/ Received(j) \/ ResultUnreadable(j) \/ WorkerLost(j)
               \/ SetBGError(j) \/ Verify(j)
    <3>1. Owned \subseteq Owned'
      BY <2>4, OwnedStays
         DEF Start, Received, ResultUnreadable, WorkerLost, SetBGError, Verify,
             OnlyStep, Step, InFlight
    <3>2. /\ UNCHANGED <<dbDir, doomed>>
          /\ tpc[j] = "failing" => tpc'[j] = "failed"
          /\ tpc[j] \notin {"failed", "purge"}
      BY <2>4 DEF Start, Received, ResultUnreadable, WorkerLost, SetBGError, Verify,
                  OnlyStep, Step
    <3> QED BY <2>3, <3>1, <3>2
  <2>5. CASE WaitFailed(j) \/ RenameFails(j) \/ VerifyFails(j)
    <3>1. tpc'[j] = "failing"
      BY <2>5 DEF WaitFailed, RenameFails, VerifyFails, Step
    <3> QED BY <3>1
  <2>6. CASE Install(j)
    <3>1. Owned \subseteq Owned'
      BY <2>6, OwnedStays DEF Install, Step, InFlight
    <3> QED BY <2>3, <2>6, <3>1 DEF Install, Step
  <2>7. CASE Scan(j, "failed")
    <3>1. f.num \in doomed'[j] \/ \E m \in live : m.num = f.num
      BY <1>3, <1>4, <2>7, ScanFindsAll DEF Scan
    <3>2. tpc'[j] = "purge" /\ UNCHANGED live
      BY <2>7 DEF Scan, Step
    <3> QED BY <3>1, <3>2, InOwnedNext
  <2>8. CASE Purge(j, "ended")
    <3>1. f \in dbDir /\ f.num \notin doomed[j] /\ tpc[j] = "purge"
      BY <2>8 DEF Purge, Step
    <3>2. ~Left(f)
      <4>1. j \in Active
        BY <3>1 DEF Active
      <4>2. \A k \in Jobs \ {j} : tpc[k] \in {"idle", "ended"}
        BY <1>4, <4>1 DEF OneActive, Active
      <4> QED BY <3>1, <4>2
    <3>3. Owned \subseteq Owned'
      BY <2>8, OwnedStays DEF Purge, Step, InFlight
    <3> QED BY <1>4, <3>1, <3>2, <3>3
  <2> QED BY <1>6, <2>2, <2>4, <2>5, <2>6, <2>7, <2>8 DEF Compaction, Adds
<1> QED BY <1>2, <1>5, <1>6, UnitFrame DEF Next

-----------------------------------------------------------------------------
(* The theorems.                                                           *)

LEMMA StagingInvInit == Init => StagingInv
  BY TypeInit, WorkerInit, NumbersInit, MetasInit, AloneInit DEF StagingInv

LEMMA StagingInvStep == StagingInv /\ [Next]_vars => StagingInv'
  BY TypeStep, WorkerStep, PartialStep, HeldStep, SafeStep, NumbersStep, MetasStep,
     LiveStep, AloneStep, UidStep, IdsStep, OrphanStep
     DEF StagingInv

(* The inductive invariant holds in every reachable state.                 *)
THEOREM StagingInvariance == Spec => []StagingInv
  BY StagingInvInit, StagingInvStep, PTL DEF Spec

(* Numbers, directories and threads have their types, and the DB directory *)
(* holds only numbers that NewFileNumber has given out.                    *)
THEOREM StagingTypes == Spec => []StagingTypeOK
<1>1. StagingInv => StagingTypeOK
  BY DEF StagingInv, TypeInv
<1> QED BY <1>1, StagingInvariance, PTL

(* compaction_service_job.cc, the loop of renames: with one compaction at  *)
(* a time a file of the version is the finished output that its metadata   *)
(* describes, whatever failed and however many flushes came in between.    *)
THEOREM InstalledOwnTheorem == Spec => []InstalledOwnAlone
<1>1. ASSUME StagingInv, slots = 1, NEW m \in live
      PROVE  File(m.num, m.out) \in dbDir /\ m.out \notin partial
  <2>1. File(m.num, m.out) \in dbDir
    BY <1>1, InOwned DEF StagingInv, AloneInv
  <2>2. m.out \notin partial
    BY <1>1, StagingAssumption DEF StagingInv, PartialInv, LiveInv, Threads
  <2> QED BY <2>1, <2>2
<1>2. StagingInv => InstalledOwnAlone
  BY <1>1 DEF InstalledOwnAlone, InstalledOwn
<1> QED BY <1>2, StagingInvariance, PTL

(* db_impl_secondary.cc: no two tables of a version have the same unique   *)
(* id, as long as every catch-up worked and compactions do not overlap.    *)
THEOREM DistinctIdsTheorem == Spec => []DistinctIds
<1>1. StagingInv => DistinctIds
  BY DEF StagingInv, IdsInv, DistinctIds
<1> QED BY <1>1, StagingInvariance, PTL

(* db_impl_files.cc, the full scan: it never condemns or deletes a file of *)
(* the version, or one that a thread is about to install, with any number  *)
(* of compactions at a time.                                               *)
THEOREM PurgeSparesTheorem == Spec => []PurgeSparesPending
<1>1. ASSUME StagingInv PROVE PurgeSparesPending
  <2> DEFINE writing == {u \in Threads :
                          tpc[u] \in {"install", "verified", "flushed"}}
  <2>1. live \cup UNION {metas[u] : u \in writing} \subseteq Owned
    BY DEF Owned, InFlight
  <2> QED BY <1>1, <2>1 DEF PurgeSparesPending, StagingInv, SafeInv
<1> QED BY <1>1, StagingInvariance, PTL

(* db_impl_compaction_flush.cc: without flushes and with one compaction at *)
(* a time, no file that a failed job left outlives the scan after it.      *)
THEOREM NoOrphansTheorem == Spec => []NoOrphans
<1>1. ASSUME StagingInv, AllIdle, flushes = 0, slots = 1, NEW f \in dbDir
      PROVE  \E m \in live : m.num = f.num
  <2>1. \A t \in Threads : tpc[t] \in {"idle", "ended"}
    BY <1>1 DEF AllIdle, Threads
  <2>2. Owned \subseteq live
    BY <2>1, InOwned DEF InFlight
  <2> QED BY <1>1, <2>1, <2>2 DEF StagingInv, OrphanInv, Left, Threads
<1>2. StagingInv => NoOrphans
  BY <1>1 DEF NoOrphans
<1> QED BY <1>2, StagingInvariance, PTL

-----------------------------------------------------------------------------
(* The refinement of VersionInstall.                                       *)

(* With one compaction at a time readers reach what the version lists.     *)
LEMMA ContentsListed ==
  StagingInv => Contents = IF slots = 1 THEN {m.out : m \in live} ELSE {}
<1> SUFFICES ASSUME StagingInv
             PROVE  Contents = IF slots = 1 THEN {m.out : m \in live} ELSE {}
  OBVIOUS
<1>1. CASE slots = 1
  <2>1. ASSUME NEW m \in live PROVE File(m.num, m.out) \in dbDir
    BY <1>1, InOwned DEF StagingInv, AloneInv
  <2>2. ASSUME NEW m \in live, NEW g \in dbDir, m.num = g.num PROVE g.of = m.out
    <3>1. File(m.num, m.out).num = g.num /\ File(m.num, m.out).of = m.out
      BY <2>2 DEF File
    <3>2. File(m.num, m.out) = g
      BY <2>1, <3>1 DEF StagingInv, NumbersInv
    <3> QED BY <3>1, <3>2
  <2>3. ASSUME NEW m \in live PROVE m.out \in Contents
    <3>1. File(m.num, m.out).num = m.num /\ File(m.num, m.out).of = m.out
      BY DEF File
    <3> QED BY <1>1, <2>1, <3>1 DEF Contents
  <2>4. Contents \subseteq {m.out : m \in live}
    BY <1>1, <2>2 DEF Contents
  <2> QED BY <1>1, <2>3, <2>4
<1>2. CASE slots # 1
  BY <1>2 DEF Contents
<1> QED BY <1>1, <1>2

(* A job of which the version has nothing yet, as VersionInstall says it.  *)
LEMMA NotYetVisible ==
  ASSUME StagingInv, slots = 1, NEW j \in Jobs, tpc[j] # "ended"
  PROVE  VI!Absent(j)
<1>1. \A m \in live : m.out[1] # j
  BY StagingAssumption DEF StagingInv, LiveInv, Threads
<1>2. ASSUME NEW k, <<j, k>> \in Contents PROVE FALSE
  <2>1. PICK m \in live : m.out = <<j, k>>
    BY <1>2, ContentsListed
  <2> QED BY <1>1, <2>1
<1> QED BY <1>2 DEF VI!Absent

(* An answer is announced once.                                            *)
LEMMA AnnouncedStep ==
  ASSUME TypeInv, WorkerInv, [Next]_vars
  PROVE  \/ UNCHANGED Announced
         \/ /\ UNCHANGED primaryVars
            /\ \E j \in Jobs : \E n \in 1 .. MaxOutputs :
                 Announced[j] = 0 /\ Announced' = [Announced EXCEPT ![j] = n]
<1> USE DEF TypeInv, StagingTypeOK
<1>1. ASSUME NEW j \in Jobs, ReplyOk(j), outs[j] = 0 PROVE UNCHANGED Announced
  BY <1>1 DEF ReplyOk, Announced
<1>2. ASSUME NEW j \in Jobs, ReplyOk(j), outs[j] # 0
      PROVE  /\ UNCHANGED primaryVars
             /\ \E n \in 1 .. MaxOutputs :
                  Announced[j] = 0 /\ Announced' = [Announced EXCEPT ![j] = n]
  <2>1. Announced[j] = 0 /\ outs[j] \in 1 .. MaxOutputs
    BY <1>2 DEF ReplyOk, Announced
  <2>2. Announced' = [Announced EXCEPT ![j] = outs[j]]
    BY <1>2 DEF ReplyOk, Announced
  <2> QED BY <1>2, <2>1, <2>2 DEF ReplyOk
<1>3. ASSUME \A j \in Jobs : upc'[j] = "ok" => upc[j] = "ok"
      PROVE  UNCHANGED Announced
  <2>1. \A j \in Jobs : (upc'[j] = "ok") = (upc[j] = "ok")
    BY <1>3, AnswerStable
  <2>2. \A j \in Jobs : upc[j] = "ok" => outs'[j] = outs[j]
    BY AnswerStable
  <2> QED BY <2>1, <2>2 DEF Announced
<1>4. ASSUME NEW j \in Jobs, Unit(j), ~ReplyOk(j) PROVE UNCHANGED Announced
  BY <1>3, <1>4 DEF Unit, CatchUp, OpenOutput, FinishOutput, CompactFails
<1>5. CASE Crash
  BY <1>3, <1>5 DEF Crash
<1>6. CASE UNCHANGED upc
  BY <1>3, <1>6
<1>7. ASSUME NEW j \in Jobs, Start(j) PROVE UNCHANGED Announced
  BY <1>3, <1>7 DEF Start
<1>8. ASSUME NEW j \in Jobs, Compaction(j), ~Start(j) PROVE UNCHANGED upc
  BY <1>8 DEF Compaction, Received, ResultUnreadable, WorkerLost, WaitFailed,
              SetBGError, RenameNext, RenameFails, Verify, VerifyFails,
              CompactLocally, Install, Scan, Purge, OnlyStep, unitVars
<1>9. ASSUME Flush PROVE UNCHANGED upc
  BY <1>9, FlushFrame DEF unitVars
<1> QED BY <1>1, <1>2, <1>4, <1>5, <1>6, <1>7, <1>8, <1>9
        DEF Next, Idle, vars, unitVars

(* What the version edit of a job adds is one job's outputs, all of them.  *)
LEMMA InstallRefines ==
  ASSUME StagingInv, StagingInv', slots = 1, slots' = 1,
         NEW j \in Jobs, Install(j), UNCHANGED Announced,
         Contents = {m.out : m \in live}, Contents' = {m.out : m \in live'}
  PROVE  \/ UNCHANGED Contents
         \/ VI!InstallRemote(j) \/ VI!InstallLocal(j)
<1>1. tpc[j] = "verified" /\ live' = live \cup metas[j]
  BY DEF Install, Step
<1>2. VI!Absent(j)
  BY <1>1, NotYetVisible
<1>3. Contents' = Contents \cup {m.out : m \in metas[j]}
  BY <1>1
<1>4. CASE LocalMetas(j)
  <2>1. {m.out : m \in metas[j]} = {<<j, 0>>}
    BY <1>4 DEF LocalMetas
  <2> QED BY <1>2, <1>3, <2>1 DEF VI!InstallLocal
<1>5. CASE RemoteMetas(j) /\ moved[j] = outs[j]
  <2>1. {m.out : m \in metas[j]} = {<<j, k>> : k \in 1 .. outs[j]}
    BY <1>5 DEF RemoteMetas
  <2>2. Announced[j] = outs[j] /\ outs[j] \in Nat
    BY <1>5 DEF RemoteMetas, Announced, StagingInv, TypeInv, StagingTypeOK
  <2>3. CASE outs[j] = 0
    <3>1. {m.out : m \in metas[j]} = {}
      BY <2>1, <2>3
    <3> QED BY <1>3, <3>1
  <2>4. CASE outs[j] # 0
    BY <1>2, <1>3, <2>1, <2>2, <2>4 DEF VI!InstallRemote
  <2> QED BY <2>3, <2>4
<1> QED BY <1>1, <1>4, <1>5 DEF StagingInv, MetasInv, JobMetas

LEMMA FlushRefines ==
  ASSUME StagingInv, StagingInv', slots = 1, InstallFlush, UNCHANGED Announced,
         Contents = {m.out : m \in live}, Contents' = {m.out : m \in live'}
  PROVE  VI!InstallFlush
<1>1. tpc[FlushThread] = "flushed" /\ live' = live \cup metas[FlushThread]
  BY DEF InstallFlush, Step
<1>2. PICK m \in metas[FlushThread] :
        metas[FlushThread] = {m} /\ m.out = <<FlushThread, flushes>>
  BY <1>1 DEF StagingInv, MetasInv, FlushMetas
<1>3. flushes \in 1 .. MaxFlushes
  BY <1>1 DEF StagingInv, TypeInv, StagingTypeOK
<1>4. <<FlushThread, flushes>> \notin Contents
  <2>1. ASSUME NEW n \in live, n.out = <<FlushThread, flushes>> PROVE FALSE
    <3>1. n.out[1] = FlushThread /\ n.out[2] = flushes
      BY <2>1
    <3> QED BY <1>1, <1>3, <3>1, StagingAssumption DEF StagingInv, LiveInv, Threads
  <2> QED BY <2>1
<1>5. Contents' = Contents \cup {<<FlushThread, flushes>>}
  BY <1>1, <1>2
<1> QED BY <1>3, <1>4, <1>5 DEF VI!InstallFlush

LEMMA StagingStepRefines ==
  ASSUME StagingInv, StagingInv', [Next]_vars,
         Contents' = IF slots' = 1 THEN {m.out : m \in live'} ELSE {}
  PROVE  [VI!Next]_<<Announced, Contents>>
<1>1. TypeInv /\ WorkerInv
  BY DEF StagingInv
<1>2. slots' = slots
  BY <1>1, CompactionFrame, FlushFrame, UnitFrame DEF Next, primaryVars
<1>3. Contents = IF slots = 1 THEN {m.out : m \in live} ELSE {}
  BY ContentsListed
<1>4. ASSUME slots # 1 \/ UNCHANGED live PROVE UNCHANGED Contents
  BY <1>2, <1>3, <1>4
<1>5. CASE ~UNCHANGED Announced
  <2>1. UNCHANGED Contents
    BY <1>1, <1>4, <1>5, AnnouncedStep DEF primaryVars
  <2>2. PICK j \in Jobs : \E n \in 1 .. MaxOutputs :
          Announced[j] = 0 /\ Announced' = [Announced EXCEPT ![j] = n]
    BY <1>1, <1>5, AnnouncedStep
  <2> QED BY <2>1, <2>2 DEF VI!Next, VI!Answer
<1>6. CASE UNCHANGED Announced
  <2>1. CASE slots # 1 \/ UNCHANGED live
    BY <1>4, <1>6, <2>1
  <2>2. ASSUME NEW j \in Jobs, Install(j), slots = 1
        PROVE  [VI!Next]_<<Announced, Contents>>
    BY <1>2, <1>3, <1>6, <2>2, InstallRefines DEF VI!Next
  <2>3. CASE InstallFlush /\ slots = 1
    BY <1>2, <1>3, <1>6, <2>3, FlushRefines DEF VI!Next
  <2> QED BY <2>1, <2>2, <2>3, LiveChange
<1> QED BY <1>5, <1>6

(* compaction_service_job.cc with db_impl_compaction_flush.cc: the loop of *)
(* renames, the failures and the scans implement VersionInstall.  What     *)
(* readers reach grows by one job's whole announced outputs, its local     *)
(* output or a flushed table at a time, and never shrinks.                 *)
THEOREM StagingRefinesInstall == Spec => AtomicInstall
<1>1. Init => VI!Init
  BY DEF Init, VI!Init, Announced, Contents
<1>2. (StagingInv => Contents = IF slots = 1 THEN {m.out : m \in live} ELSE {})'
  BY ContentsListed, PTL
<1>3. StagingInv /\ StagingInv' /\ [Next]_vars => [VI!Next]_<<Announced, Contents>>
  BY <1>2, StagingStepRefines
<1> QED BY <1>1, <1>3, StagingInvariance, PTL DEF Spec, AtomicInstall, VI!Spec

=============================================================================
