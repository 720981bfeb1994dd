------------------------- MODULE PNMLauncherProofs -------------------------
(***************************************************************************)
(* Proofs about PNMLauncher, for any number of runs and any failures.      *)
(***************************************************************************)
EXTENDS PNMLauncher, TLAPS

(* Runs follow each other: when one has started, the earlier have ended.   *)
InOrder ==
  \A q, r \in Runs : q < r /\ main[r] # "off" => main[q] \in Ended

(* What a worker can be doing, given its run: one that outlives its run    *)
(* had bound when the run was killed, or the run was killed early.         *)
UnitOfRun ==
  \A r \in Runs :
    /\ main[r] = "off" => unit[r] = "none"
    /\ main[r] = "exited" => unit[r] \in {"none", "dead"}
    /\ main[r] = "killed" => unit[r] \notin {"forked", "unlinked"} \/ r \in early
    /\ r \in early => main[r] = "killed"
    /\ unit[r] \in {"none", "forked", "unlinked", "bound"} => r \notin listened

(* Neither the run nor an earlier one was killed before its worker bound.  *)
Clean(r) == \A q \in early : r < q

(* In a clean run, from its unlink to its bind a worker has the path to    *)
(* itself, and from then on, while the run lasts, it is its own or gone.   *)
PathOfRun ==
  \A r \in Runs : Clean(r) =>
    /\ unit[r] = "unlinked" => path = Nobody
    /\ main[r] \notin Ended /\ (unit[r] \in {"unlinked", "bound"} \/ r \in listened)
         => path \in {Nobody, r}

(* The inductive invariant.                                                *)
LauncherInv ==
  /\ LauncherTypeOK /\ InOrder /\ UnitOfRun /\ PathOfRun
  /\ OwnWorkerServes /\ LeftoverSocketHarmless

(* Two runs are never under way together.                                  *)
LEMMA OneAtATime ==
  ASSUME LauncherInv, NEW q \in Runs, NEW r \in Runs,
         main[q] \notin Ended \cup {"off"}, main[r] \notin Ended \cup {"off"}
  PROVE  q = r
  BY DEF LauncherInv, InOrder, Runs

LEMMA LauncherInitInv == Init => LauncherInv
  BY LauncherAssumption
     DEF Init, LauncherInv, LauncherTypeOK, InOrder, UnitOfRun, PathOfRun, Clean,
         OwnWorkerServes, LeftoverSocketHarmless, Nobody, Ended, Runs

(* A worker that has yet to bind belongs to the run under way, or to one   *)
(* that was killed early.                                                  *)
LEMMA StartingUnit ==
  ASSUME LauncherInv, NEW r \in Runs, unit[r] \in {"forked", "unlinked"},
         r \notin early
  PROVE  main[r] \notin Ended \cup {"off"}
  BY DEF LauncherInv, UnitOfRun, LauncherTypeOK, Ended

LEMMA CleanNotEarly == ASSUME NEW r \in Runs, Clean(r) PROVE r \notin early
  BY DEF Clean, Runs

(* A run killed early is over, and so are the runs before it: while it may *)
(* still take the path, no clean run is under way.                         *)
LEMMA EarlyAfterClean ==
  ASSUME LauncherInv, NEW r \in Runs, Clean(r), NEW q \in early
  PROVE  main[r] \in Ended
  BY DEF LauncherInv, LauncherTypeOK, InOrder, UnitOfRun, Clean

(* A worker that finds the path taken belongs to a run that is not clean.  *)
LEMMA PathTaken ==
  ASSUME LauncherInv, NEW r \in Runs, unit[r] = "unlinked", path # Nobody
  PROVE  \E q \in early : q <= r
  BY DEF LauncherInv, LauncherTypeOK, PathOfRun, Clean, Runs

(* Steps of rocksdb_pnm that leave workers, path and history alone.        *)
LEMMA MainInv ==
  ASSUME LauncherInv, NEW r \in Runs,
         StartAlone(r) \/ Wake(r) \/ WaitPid(r)
  PROVE  LauncherInv'
<1> USE DEF LauncherInv, Main, hist, Ended
<1>1. main' \in [Runs -> {"off", "sleep", "bench", "waitpid"} \cup Ended]
      /\ UNCHANGED <<unit, term, path, served, listened, bindFailed, early>>
  BY DEF StartAlone, Wake, WaitPid, LauncherTypeOK
<1>2. LauncherTypeOK'
  BY <1>1 DEF LauncherTypeOK
<1>3. InOrder'
  BY DEF StartAlone, Wake, WaitPid, InOrder, Startable, LauncherTypeOK, Runs
<1>4. UnitOfRun'
  BY <1>1 DEF StartAlone, Wake, WaitPid, UnitOfRun, LauncherTypeOK
<1>5. PathOfRun'
  BY <1>1 DEF StartAlone, Wake, WaitPid, PathOfRun, Clean, UnitOfRun, LauncherTypeOK
<1>6. OwnWorkerServes'
  BY <1>1 DEF StartAlone, Wake, WaitPid, OwnWorkerServes, LauncherTypeOK
<1> QED
  BY <1>1, <1>2, <1>3, <1>4, <1>5, <1>6 DEF LeftoverSocketHarmless

(* A kill at any time leaves the worker where it is.                       *)
LEMMA MainKilledInv ==
  ASSUME LauncherInv, NEW r \in Runs, MainKilled(r) PROVE LauncherInv'
<1> USE DEF LauncherInv, Ended, MainKilled
<1>1. early \subseteq early' /\ early' \subseteq early \cup {r}
  OBVIOUS
<1>2. LauncherTypeOK'
  BY <1>1 DEF LauncherTypeOK
<1>3. InOrder'
  BY DEF InOrder, LauncherTypeOK, Runs
<1>4. UnitOfRun'
  BY DEF UnitOfRun, LauncherTypeOK
<1>5. PathOfRun'
  <2>1. ASSUME NEW q \in Runs, Clean(q)' PROVE Clean(q)
    BY <1>1, <2>1 DEF Clean
  <2> QED
    BY <2>1 DEF PathOfRun, LauncherTypeOK
<1>6. OwnWorkerServes'
  BY DEF OwnWorkerServes, LauncherTypeOK
<1>7. LeftoverSocketHarmless'
  BY <1>1 DEF LeftoverSocketHarmless
<1> QED
  BY <1>2, <1>3, <1>4, <1>5, <1>6, <1>7

LEMMA StartInv == ASSUME LauncherInv, NEW r \in Runs, Start(r) PROVE LauncherInv'
<1> USE DEF LauncherInv, Main, Unit, hist, Ended, Start
<1>1. LauncherTypeOK'
  BY DEF LauncherTypeOK
<1>2. InOrder'
  BY DEF InOrder, Startable, LauncherTypeOK, Runs
<1>3. UnitOfRun'
  BY DEF UnitOfRun, LauncherTypeOK
<1>4. PathOfRun'
  BY DEF PathOfRun, Clean, UnitOfRun, LauncherTypeOK
<1>5. OwnWorkerServes'
  BY DEF OwnWorkerServes, LauncherTypeOK
<1> QED
  BY <1>1, <1>2, <1>3, <1>4, <1>5 DEF LeftoverSocketHarmless

LEMMA CleanupInv == ASSUME LauncherInv, NEW r \in Runs, Cleanup(r) PROVE LauncherInv'
<1> USE DEF LauncherInv, Main, hist, Ended, Cleanup
<1>1. LauncherTypeOK'
  BY DEF LauncherTypeOK
<1>2. InOrder'
  BY DEF InOrder, LauncherTypeOK, Runs
<1>3. UnitOfRun'
  BY DEF UnitOfRun, LauncherTypeOK
<1>4. PathOfRun'
  BY DEF PathOfRun, Clean, LauncherTypeOK
<1>5. OwnWorkerServes'
  BY DEF OwnWorkerServes, LauncherTypeOK
<1> QED
  BY <1>1, <1>2, <1>3, <1>4, <1>5 DEF LeftoverSocketHarmless

(* A connection reaches the run's own worker: another one that listens     *)
(* belongs to a run that was killed.                                       *)
LEMMA ConnectInv == ASSUME LauncherInv, NEW r \in Runs, Connect(r) PROVE LauncherInv'
<1> USE DEF LauncherInv, Connect
<1>1. path \in Runs
  BY DEF LauncherTypeOK
<1>2. (\A q \in Runs : main[q] # "killed") => path = r
  <2>1. ASSUME main[path] # "killed" PROVE main[path] \notin Ended \cup {"off"}
    BY <1>1, <2>1 DEF UnitOfRun, LauncherTypeOK, Ended
  <2> QED
    BY <1>1, <2>1, OneAtATime DEF Ended
<1>3. LauncherTypeOK'
  BY <1>1 DEF LauncherTypeOK
<1>4. OwnWorkerServes'
  BY <1>2 DEF OwnWorkerServes, LauncherTypeOK
<1> QED
  BY <1>3, <1>4 DEF InOrder, UnitOfRun, PathOfRun, Clean, LeftoverSocketHarmless

(* Steps of a worker that do not touch the path.                           *)
LEMMA UnitInv ==
  ASSUME LauncherInv, NEW r \in Runs,
         \/ ExecFails(r) \/ BindFails(r) \/ ListenFails(r) \/ Listen(r)
         \/ AcceptError(r) \/ Terminated(r)
  PROVE  LauncherInv'
<1> USE DEF LauncherInv, Unit, hist
<1>1. LeftoverSocketHarmless'
  BY PathTaken DEF ExecFails, BindFails, ListenFails, Listen, AcceptError,
                   Terminated, LeftoverSocketHarmless
<1>2. UNCHANGED <<main, path, served, early>> /\ bindFailed' \subseteq bindFailed \cup {r}
  BY DEF ExecFails, BindFails, ListenFails, Listen, AcceptError, Terminated
<1>3. LauncherTypeOK'
  BY <1>1, <1>2 DEF ExecFails, BindFails, ListenFails, Listen, AcceptError,
                    Terminated, LauncherTypeOK, UnitOfRun
<1>4. UnitOfRun'
  BY <1>2 DEF ExecFails, BindFails, ListenFails, Listen, AcceptError,
              Terminated, LauncherTypeOK, UnitOfRun
<1>5. PathOfRun'
  BY <1>2 DEF ExecFails, BindFails, ListenFails, Listen, AcceptError,
              Terminated, LauncherTypeOK, PathOfRun, Clean
<1> QED
  BY <1>1, <1>2, <1>3, <1>4, <1>5 DEF InOrder, OwnWorkerServes

(* Steps that remove the path.                                             *)
LEMMA UnlinkInv ==
  ASSUME LauncherInv, NEW r \in Runs, UnlinkOld(r) \/ UnlinkAndReturn(r)
  PROVE  LauncherInv'
<1> USE DEF LauncherInv, Unit, hist, UnlinkOld, UnlinkAndReturn
<1>1. LauncherTypeOK'
  BY DEF LauncherTypeOK, UnitOfRun
<1>2. UnitOfRun'
  BY DEF LauncherTypeOK, UnitOfRun
<1>3. PathOfRun'
  BY DEF LauncherTypeOK, PathOfRun, Clean
<1> QED
  BY <1>1, <1>2, <1>3 DEF InOrder, OwnWorkerServes, LeftoverSocketHarmless

(* The bind takes the path from nobody: no other run is under way.         *)
LEMMA BindInv == ASSUME LauncherInv, NEW r \in Runs, Bind(r) PROVE LauncherInv'
<1> USE DEF Unit, hist, Bind
<1>1. LauncherTypeOK'
  BY DEF LauncherInv, LauncherTypeOK, UnitOfRun, Nobody, Runs
<1>2. UnitOfRun'
  BY DEF LauncherInv, LauncherTypeOK, UnitOfRun
<1>3. PathOfRun'
  <2>1. ASSUME NEW q \in Runs, q # r, Clean(q), main[q] \notin Ended \cup {"off"}
        PROVE  FALSE
    <3>1. r \notin early
      BY <2>1, EarlyAfterClean
    <3> QED
      BY <2>1, <3>1, StartingUnit, OneAtATime
  <2>2. ASSUME NEW q \in Runs, q # r, Clean(q), unit[q] = "unlinked" PROVE FALSE
    BY <2>1, <2>2, StartingUnit, CleanNotEarly
  <2>3. ASSUME NEW q \in Runs, q # r, Clean(q), main[q] \notin Ended,
               unit[q] \in {"unlinked", "bound"} \/ q \in listened
        PROVE  FALSE
    <3>1. main[q] # "off"
      BY <2>3 DEF LauncherInv, UnitOfRun
    <3> QED
      BY <2>1, <2>3, <3>1
  <2> QED
    BY <2>2, <2>3 DEF LauncherInv, LauncherTypeOK, PathOfRun, Clean
<1> QED
  BY <1>1, <1>2, <1>3 DEF LauncherInv, InOrder, OwnWorkerServes, LeftoverSocketHarmless

LEMMA LauncherStepInv == LauncherInv /\ [Next]_vars => LauncherInv'
<1>1. ASSUME LauncherInv, UNCHANGED vars PROVE LauncherInv'
  BY <1>1 DEF LauncherInv, vars, LauncherTypeOK, InOrder, UnitOfRun, PathOfRun, Clean,
              OwnWorkerServes, LeftoverSocketHarmless
<1> QED
  BY <1>1, MainInv, MainKilledInv, StartInv, CleanupInv, ConnectInv, UnitInv, UnlinkInv, BindInv
     DEF Next, Launch, WorkerStep

-----------------------------------------------------------------------------
(* The processes and the path keep their types, for any number of runs.    *)
THEOREM LauncherTypeCorrect == Spec => []LauncherTypeOK
<1>1. LauncherInv => LauncherTypeOK
  BY DEF LauncherInv
<1> QED
  BY <1>1, LauncherInitInv, LauncherStepInv, PTL DEF Spec

(* db_bench_pnm_main.cc:34-40: as long as no run is killed, a run's jobs   *)
(* reach the run's own worker or none.                                     *)
THEOREM LauncherOwnWorker == Spec => []OwnWorkerServes
<1>1. LauncherInv => OwnWorkerServes
  BY DEF LauncherInv
<1> QED
  BY <1>1, LauncherInitInv, LauncherStepInv, PTL DEF Spec

(* pnm_unit_main.cc:291-307: a worker finds the path taken when it binds   *)
(* only in or after a run that was killed before its worker had bound.     *)
THEOREM LauncherLeftover == Spec => []LeftoverSocketHarmless
<1>1. LauncherInv => LeftoverSocketHarmless
  BY DEF LauncherInv
<1> QED
  BY <1>1, LauncherInitInv, LauncherStepInv, PTL DEF Spec

(* pnm_unit_main.cc:291-327: once a run's worker has listened, the run's   *)
(* jobs reach no other worker, after killed runs too, unless one of those  *)
(* was killed before its worker had bound.                                 *)
THEOREM LauncherOwnOnceListening == Spec => OwnOnceListening
<1>1. LauncherInv /\ [Next]_vars
        => [\A r \in listened : (\A q \in early : r <= q)
                                  => served'[r] \subseteq served[r] \cup {r}]_vars
  <2> SUFFICES ASSUME LauncherInv, Next, NEW r \in listened, \A q \in early : r <= q
               PROVE  served'[r] \subseteq served[r] \cup {r}
    OBVIOUS
  <2>1. r \in Runs
    BY DEF LauncherInv, LauncherTypeOK
  <2>2. ASSUME NEW q \in Runs, Connect(q) PROVE served'[r] \subseteq served[r] \cup {r}
    <3>1. ASSUME q = r PROVE path = r
      <4>1. r \notin early
        BY <2>1, <2>2, <3>1 DEF Connect, LauncherInv, UnitOfRun
      <4>2. Clean(r)
        BY <2>1, <4>1 DEF Clean, LauncherInv, LauncherTypeOK, Runs
      <4> QED
        BY <2>1, <2>2, <3>1, <4>2 DEF Connect, LauncherInv, PathOfRun, Ended
    <3> QED
      BY <2>1, <2>2, <3>1 DEF Connect, LauncherInv, LauncherTypeOK
  <2>3. ASSUME UNCHANGED served PROVE served'[r] \subseteq served[r] \cup {r}
    BY <2>3
  <2> QED
    BY <2>2, <2>3
       DEF Next, Launch, WorkerStep, StartAlone, Start, Wake, Cleanup, WaitPid,
           MainKilled, ExecFails, UnlinkOld, BindFails, Bind, ListenFails,
           Listen, UnlinkAndReturn, AcceptError, Terminated, hist
<1> QED
  BY <1>1, LauncherInitInv, LauncherStepInv, PTL DEF Spec, OwnOnceListening
=============================================================================
