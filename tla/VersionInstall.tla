--------------------------- MODULE VersionInstall ---------------------------
(***************************************************************************)
(* What installing a compaction promises to the readers of the database.  *)
(* The set of outputs that the current version reaches changes only by     *)
(* adding, in one step, everything one job produced: all the outputs that  *)
(* the worker announced in its answer, or the output of the local          *)
(* compaction, or a flushed memtable.  A job is visible once, in whole, or *)
(* never.                                                                  *)
(***************************************************************************)
EXTENDS Integers

CONSTANTS Jobs, FlushThread, MaxOutputs, MaxFlushes

VARIABLES
  answer,          \* outputs the worker announced for the job, 0 if none
  visible          \* outputs that readers reach

Init == /\ answer = [j \in Jobs |-> 0]
        /\ visible = {}

(* An output is <<thread, k>>; k = 0 is the output of a local compaction.  *)
Absent(j) == \A k \in 0 .. MaxOutputs : <<j, k>> \notin visible

Answer(j) ==
  /\ answer[j] = 0
  /\ \E n \in 1 .. MaxOutputs : answer' = [answer EXCEPT ![j] = n]
  /\ UNCHANGED visible

InstallRemote(j) ==
  /\ answer[j] # 0 /\ Absent(j)
  /\ visible' = visible \cup {<<j, k>> : k \in 1 .. answer[j]}
  /\ UNCHANGED answer

InstallLocal(j) ==
  /\ Absent(j)
  /\ visible' = visible \cup {<<j, 0>>}
  /\ UNCHANGED answer

InstallFlush ==
  \E i \in 1 .. MaxFlushes :
    /\ <<FlushThread, i>> \notin visible
    /\ visible' = visible \cup {<<FlushThread, i>>}
    /\ UNCHANGED answer

Next ==
  \/ \E j \in Jobs : Answer(j) \/ InstallRemote(j) \/ InstallLocal(j)
  \/ InstallFlush

Spec == Init /\ [][Next]_<<answer, visible>>

=============================================================================
