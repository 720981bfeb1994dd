------------------------------ MODULE JobEngine ------------------------------
(***************************************************************************)
(* What the PNM device promises to the software: a timer for one job.  It  *)
(* takes a job only when it has none, lets the latency of the job's bytes  *)
(* pass in full, and only then counts the job and reports it as done.  A   *)
(* job may be refused, and a running one cancelled.                        *)
(***************************************************************************)
EXTENDS Integers

CONSTANTS
  Sizes,           \* byte counts a job can have
  Delay(_)         \* ticks a job of that size takes

VARIABLES
  state,           \* "idle", "running", "done" or "refused"
  due,             \* ticks the running job still takes
  finished         \* jobs counted

engineVars == <<state, due, finished>>

Init == state = "idle" /\ due = 0 /\ finished = 0

Accept == /\ state # "running"
          /\ state' = "running"
          /\ \E b \in Sizes : due' = Delay(b)
          /\ UNCHANGED finished

Refuse == /\ state # "running"
          /\ state' = "refused"
          /\ UNCHANGED <<due, finished>>

Cancel == /\ state' = "idle"
          /\ due' = 0
          /\ UNCHANGED finished

Pass == /\ state = "running" /\ due > 0
        /\ due' = due - 1
        /\ UNCHANGED <<state, finished>>

Finish == /\ state = "running" /\ due = 0
          /\ state' = "done"
          /\ finished' = finished + 1
          /\ UNCHANGED due

Next == Accept \/ Refuse \/ Cancel \/ Pass \/ Finish

Spec == Init /\ [][Next]_engineVars

=============================================================================
