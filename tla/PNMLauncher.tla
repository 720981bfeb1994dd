---------------------------- MODULE PNMLauncher ----------------------------
(***************************************************************************)
(* Successive runs of rocksdb_pnm, each with the worker process it forks:  *)
(* main() and cleanup_pnm_unit() of tools/db_bench_pnm_main.cc, main() of  *)
(* tools/pnm_unit_main.cc, and the one socket path they all share.  A run  *)
(* is started when the one before it has ended; a worker may outlive its   *)
(* run.                                                                    *)
(*                                                                         *)
(* The 500 ms sleep orders nothing: the benchmark may begin before its     *)
(* worker listens.  kill, waitpid, the socket calls and the signals that   *)
(* end a process without atexit are external.                              *)
(***************************************************************************)
EXTENDS Integers

CONSTANTS
  MaxRuns,         \* bound: runs of rocksdb_pnm
  Faults           \* which failures may happen, a subset of AllFaults

AllFaults == {"readlink", "fork", "exec", "socket", "listen", "accept", "kill"}

ASSUME LauncherAssumption == MaxRuns \in Nat /\ Faults \subseteq AllFaults

Runs == 1 .. MaxRuns
Nobody == 0

VARIABLES
  main,            \* rocksdb_pnm of each run
  unit,            \* pnm_compaction_unit of each run
  term,            \* workers with a SIGTERM pending
  path,            \* the run whose worker's socket kPNMSockPath names
  served,          \* history: workers that took a connection of each run
  listened,        \* history: runs whose worker has listened
  bindFailed,      \* history: runs whose worker could not bind
  early            \* history: runs killed before their worker had bound

vars == <<main, unit, term, path, served, listened, bindFailed, early>>
hist == <<served, listened, bindFailed, early>>

Ended == {"exited", "killed"}

Init ==
  /\ main = [r \in Runs |-> "off"]
  /\ unit = [r \in Runs |-> "none"]
  /\ term = {}
  /\ path = Nobody
  /\ served = [r \in Runs |-> {}]
  /\ listened = {} /\ bindFailed = {} /\ early = {}

Main(r, from, to) == main[r] = from /\ main' = [main EXCEPT ![r] = to]
Unit(r, from, to) == unit[r] = from /\ unit' = [unit EXCEPT ![r] = to]

-----------------------------------------------------------------------------
(* rocksdb_pnm.                                                            *)
Startable(r) == \A q \in Runs : q < r => main[q] \in Ended

(* readlink or fork fails: the benchmark runs without a worker.            *)
StartAlone(r) ==
  /\ Faults \cap {"readlink", "fork"} # {}
  /\ Startable(r)
  /\ Main(r, "off", "bench")
  /\ UNCHANGED <<unit, term, path, hist>>

(* fork, atexit(cleanup_pnm_unit), usleep.                                 *)
Start(r) ==
  /\ Startable(r)
  /\ Main(r, "off", "sleep")
  /\ Unit(r, "none", "forked")
  /\ UNCHANGED <<term, path, hist>>

Wake(r) ==
  /\ Main(r, "sleep", "bench")
  /\ UNCHANGED <<unit, term, path, hist>>

(* A job's connect() reaches the worker whose socket the path names, if it *)
(* listens; a connect() that fails leaves the job to RocksDB.              *)
Connect(r) ==
  /\ main[r] = "bench"
  /\ path # Nobody /\ unit[path] = "listening"
  /\ served' = [served EXCEPT ![r] = @ \cup {path}]
  /\ UNCHANGED <<main, unit, term, path, listened, bindFailed, early>>

(* Mutants: cleanup_pnm_unit waits for a worker it did not signal; it      *)
(* does nothing.                                                           *)
Cleanup_NoKill(r) ==
  /\ Main(r, "bench", IF unit[r] = "none" THEN "exited" ELSE "waitpid")
  /\ UNCHANGED <<unit, term, path, hist>>

Cleanup_Nothing(r) ==
  /\ Main(r, "bench", "exited")
  /\ UNCHANGED <<unit, term, path, hist>>

(* db_bench_tool returns and cleanup_pnm_unit signals the worker, a dead   *)
(* one included: it is a zombie until waitpid.                             *)
Cleanup(r) ==
  /\ Main(r, "bench", IF unit[r] = "none" THEN "exited" ELSE "waitpid")
  /\ term' = IF unit[r] \in {"none", "dead"} THEN term ELSE term \cup {r}
  /\ UNCHANGED <<unit, path, hist>>

WaitPid(r) ==
  /\ unit[r] = "dead"
  /\ Main(r, "waitpid", "exited")
  /\ UNCHANGED <<unit, term, path, hist>>

(* A signal that runs no atexit handler ends rocksdb_pnm alone, at any     *)
(* time: its worker goes on from wherever it is.                           *)
MainKilled(r) ==
  /\ "kill" \in Faults
  /\ main[r] \in {"sleep", "bench", "waitpid"}
  /\ main' = [main EXCEPT ![r] = "killed"]
  /\ early' = IF unit[r] \in {"forked", "unlinked"} THEN early \cup {r} ELSE early
  /\ UNCHANGED <<unit, term, path, served, listened, bindFailed>>

-----------------------------------------------------------------------------
(* pnm_compaction_unit.                                                    *)
ExecFails(r) ==
  /\ "exec" \in Faults
  /\ Unit(r, "forked", "dead")
  /\ term' = term \ {r}
  /\ UNCHANGED <<main, path, hist>>

(* Mutant: the socket of a previous run is not removed.                    *)
UnlinkOld_Not(r) ==
  /\ Unit(r, "forked", "unlinked")
  /\ UNCHANGED <<main, term, path, hist>>

UnlinkOld(r) ==
  /\ Unit(r, "forked", "unlinked")
  /\ path' = Nobody
  /\ UNCHANGED <<main, term, hist>>

(* socket() fails, or bind() because the path exists: exit status 1.       *)
BindFails(r) ==
  /\ "socket" \in Faults \/ path # Nobody
  /\ Unit(r, "unlinked", "dead")
  /\ bindFailed' = IF path # Nobody THEN bindFailed \cup {r} ELSE bindFailed
  /\ term' = term \ {r}
  /\ UNCHANGED <<main, path, served, listened, early>>

Bind(r) ==
  /\ path = Nobody
  /\ Unit(r, "unlinked", "bound")
  /\ path' = r
  /\ UNCHANGED <<main, term, hist>>

ListenFails(r) ==
  /\ "listen" \in Faults
  /\ Unit(r, "bound", "dead")
  /\ term' = term \ {r}
  /\ UNCHANGED <<main, path, hist>>

Listen(r) ==
  /\ Unit(r, "bound", "listening")
  /\ listened' = listened \cup {r}
  /\ UNCHANGED <<main, term, path, served, bindFailed, early>>

(* Mutant: after an accept error the worker opens its socket anew.         *)
AcceptError_Rebinds(r) ==
  /\ "accept" \in Faults
  /\ Unit(r, "listening", "listening")
  /\ path' = r
  /\ UNCHANGED <<main, term, hist>>

(* accept() fails: the loop ends with close(srv) ...                       *)
AcceptError(r) ==
  /\ "accept" \in Faults
  /\ Unit(r, "listening", "closed")
  /\ UNCHANGED <<main, term, path, hist>>

(* ... and unlink of the path, whichever worker it names, and main returns.*)
UnlinkAndReturn(r) ==
  /\ Unit(r, "closed", "dead")
  /\ path' = Nobody
  /\ term' = term \ {r}
  /\ UNCHANGED <<main, hist>>

(* SIGTERM ends the worker wherever it is; the path stays.                 *)
Terminated(r) ==
  /\ r \in term
  /\ unit' = [unit EXCEPT ![r] = "dead"]
  /\ term' = term \ {r}
  /\ UNCHANGED <<main, path, hist>>

Launch(r) == StartAlone(r) \/ Start(r)

WorkerStep(r) == \/ ExecFails(r) \/ UnlinkOld(r) \/ BindFails(r) \/ Bind(r)
                 \/ ListenFails(r) \/ Listen(r) \/ UnlinkAndReturn(r)

Next == \E r \in Runs :
  \/ Launch(r) \/ Wake(r) \/ Connect(r) \/ Cleanup(r) \/ WaitPid(r)
  \/ MainKilled(r) \/ WorkerStep(r) \/ AcceptError(r) \/ Terminated(r)

(* The benchmark is finite, the user runs it again, a pending SIGTERM is   *)
(* delivered and a runnable worker runs.                                   *)
Fairness == \A r \in Runs :
  /\ WF_vars(Launch(r)) /\ WF_vars(Wake(r)) /\ WF_vars(Cleanup(r))
  /\ WF_vars(WaitPid(r)) /\ WF_vars(WorkerStep(r)) /\ WF_vars(Terminated(r))

Spec == Init /\ [][Next]_vars /\ Fairness

-----------------------------------------------------------------------------
(* Every process is in one of its states; a signal is pending only for a   *)
(* worker that lives, and the path names a socket that was bound.          *)
LauncherTypeOK ==
  /\ main \in [Runs -> {"off", "sleep", "bench", "waitpid"} \cup Ended]
  /\ unit \in [Runs -> {"none", "forked", "unlinked", "bound", "listening",
                        "closed", "dead"}]
  /\ term \subseteq {r \in Runs : unit[r] \notin {"none", "dead"}}
  /\ path \in Runs \cup {Nobody}
  /\ path # Nobody => unit[path] \in {"bound", "listening", "closed", "dead"}
  /\ served \in [Runs -> SUBSET Runs]
  /\ listened \subseteq Runs /\ bindFailed \subseteq Runs /\ early \subseteq Runs
  /\ \A r \in Runs : unit[r] = "bound" => r \notin listened

(* db_bench_pnm_main.cc:34-40: cleanup ends the worker before the run      *)
(* ends, so as long as no run was killed no job went to the worker of an   *)
(* earlier run, whose secondary has that run's database open.              *)
OwnWorkerServes ==
  (\A q \in Runs : main[q] # "killed") => \A r \in Runs : served[r] \subseteq {r}

(* pnm_unit_main.cc:291-307: unlink and bind are two steps, and a socket   *)
(* left at the path - a worker ended by SIGTERM never removes its own, a   *)
(* worker whose run was killed goes on listening - stops no later worker.  *)
(* Only a worker that was orphaned before it had bound can take the path   *)
(* between the two: a bind fails only in or after such a run.              *)
LeftoverSocketHarmless == \A r \in bindFailed : \E q \in early : q <= r

(* db_bench_pnm_main.cc:34-40: a run that was started ends: waitpid never  *)
(* waits for a worker that goes on serving.                                *)
RunEnds == \A r \in Runs : main[r] # "off" ~> main[r] \in Ended

(* pnm_unit_main.cc:291-327: runs that were killed leave workers that go   *)
(* on listening and may yet unlink the path; still, once a run's own       *)
(* worker has listened, no job of that run reaches another worker, unless  *)
(* an earlier run was killed before its worker had bound: that worker may  *)
(* yet remove the path of a later one and bind it.                         *)
OwnOnceListening ==
  [][\A r \in listened : (\A q \in early : r <= q)
                           => served'[r] \subseteq served[r] \cup {r}]_vars
=============================================================================
