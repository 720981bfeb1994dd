--------------------------- MODULE PNMDrainProofs ---------------------------
(***************************************************************************)
(* Proofs about PNMDrain, for any number of doorbells and drains, with the *)
(* program's jobs overlapping or not: the DrainManager's count is exact,   *)
(* its assertion and its panics never trigger, and the CPUs are switched   *)
(* only when nothing is in flight.                                         *)
(***************************************************************************)
EXTENDS PNMDrain, TLAPS

(* What each point of m5.drain() knows.  While the simulation runs every   *)
(* object is Running; while it drains every object is Draining or Drained, *)
(* and "Finished drain" means that none is Draining any more.              *)
ScriptPoint ==
  /\ script = "simulate" =>
       /\ drainState = "Running" /\ cpuDrain = "Running"
       /\ managerState = "Running" /\ ~finished
  /\ script = "tryDrain" =>
       /\ drainState # "Draining" /\ cpuDrain # "Draining"
       /\ managerState # "Drained" /\ ~finished
  /\ script = "draining" =>
       /\ managerState = "Draining"
       /\ finished => count = 0
  /\ script = "drained" =>
       /\ drainState = "Drained" /\ cpuDrain = "Drained" /\ ~finished
       /\ eventIn = Dev!NotScheduled /\ cpu = "idle"

(* The manager's count is the number of objects that owe it a signal.      *)
CountExact == count = (IF drainState = "Draining" THEN 1 ELSE 0)
                      + (IF cpuDrain = "Draining" THEN 1 ELSE 0)

(* The inductive invariant.                                                *)
DrainInv ==
  /\ DrainTypeOK
  /\ cpu = "store" => rung < Doorbells
  /\ CountExact
  /\ ScriptPoint

-----------------------------------------------------------------------------
(* The device keeps its type under what reaches it here.                   *)
LEMMA DrainWordFacts ==
  /\ Modulus[8] \in Nat /\ Modulus[8] > 4
  /\ Modulus[4] \in Nat /\ Modulus[4] > 4
  /\ Dev!Word \subseteq Nat
  /\ 0 \in Dev!Word /\ JobBytes \in Dev!Word
  BY DrainAssumption, DrainDeviceAssumption
     DEF Dev!DeviceAssumption, Dev!AccessSizes, Dev!Word

LEMMA DrainModBound == ASSUME NEW a \in Nat, NEW m \in Nat, m > 0
                       PROVE  a % m \in 0 .. m - 1
  OBVIOUS

LEMMA DrainTotalTyped == ASSUME Dev!TypeOK PROVE Dev!TotalBytes \in Dev!Word
<1>1. srcBytesReg \in Nat /\ dstBytesReg \in Nat
  BY DrainWordFacts DEF Dev!TypeOK
<1> QED
  BY <1>1, DrainWordFacts, DrainModBound DEF Dev!TotalBytes, Dev!Word

LEMMA DrainLatencyTyped == ASSUME NEW b \in Nat PROVE Dev!Latency(b) \in Nat
<1>1. BwNum \in Nat /\ BwDen \in Nat \ {0} /\ ProcessLatency \in Nat
  BY DrainDeviceAssumption DEF Dev!DeviceAssumption
<1>2. (b * BwNum) \div BwDen \in Nat
  BY <1>1
<1> QED
  BY <1>1, <1>2 DEF Dev!Latency

LEMMA DrainRecordTyped == ASSUME NEW b \in Nat, NEW k \in Nat
                          PROVE  Dev!ResultRecord(b, k) \in Dev!Record
<1>1. b % Modulus[8] \in Nat /\ k % Modulus[4] \in Nat
  BY DrainWordFacts, DrainModBound
<1> QED
  BY <1>1 DEF Dev!ResultRecord, Dev!Record

(* A store of the doorbell or an event of the device; none but the         *)
(* completion changes the drain state.                                     *)
LEMMA StoreTyped ==
  ASSUME Dev!TypeOK, NEW s, s \in {Doorbell[1], Doorbell[2], Doorbell[3], Doorbell[4]},
         Dev!write(s[1], s[2], s[3])
  PROVE  Dev!TypeOK' /\ UNCHANGED drainState
<1>1. CASE Dev!WriteSrc(JobBytes, 8) \/ Dev!WriteDst(JobBytes, 8)
  <2>1. Dev!pktGet(JobBytes, 8) \in Dev!Word
    BY DrainWordFacts, DrainModBound DEF Dev!pktGet, Dev!Word
  <2> QED
    BY <1>1, <2>1 DEF Dev!TypeOK, Dev!Word, Dev!WriteSrc, Dev!WriteDst,
                      Dev!jobVars, Dev!statVars
<1>2. CASE Dev!Reset
  <2>1. cancels' \in Nat
    <3>1. CASE Dev!scheduled
      BY <1>2, <3>1 DEF Dev!Reset, Dev!TypeOK
    <3>2. CASE ~Dev!scheduled
      BY <1>2, <3>2 DEF Dev!Reset, Dev!TypeOK
    <3> QED
      BY <3>1, <3>2
  <2> QED
    BY <1>2, <2>1, DrainWordFacts DEF Dev!Reset, Dev!TypeOK, Dev!Word,
                                      Dev!regVars, Dev!statVars
<1>3. CASE Dev!Submit
  <2>1. Dev!TotalBytes \in Dev!Word /\ Dev!Latency(Dev!TotalBytes) \in Nat
    BY DrainTotalTyped, DrainLatencyTyped, DrainWordFacts
  <2>2. CASE Dev!SubmitAccepted
    BY <2>1, <2>2 DEF Dev!SubmitAccepted, Dev!TypeOK, Dev!Word, Dev!regVars,
                      Dev!statVars
  <2>3. CASE Dev!SubmitTooLarge
    BY <2>3 DEF Dev!SubmitTooLarge, Dev!TypeOK, Dev!Word, Dev!regVars,
                Dev!statVars
  <2>4. CASE Dev!SubmitWhileBusy
    BY <2>4 DEF Dev!SubmitWhileBusy, Dev!TypeOK, Dev!Word, Dev!vars,
                Dev!regVars, Dev!jobVars, Dev!statVars
  <2> QED
    BY <1>3, <2>2, <2>3, <2>4 DEF Dev!Submit
<1>4. CASE UNCHANGED Dev!vars
  BY <1>4 DEF Dev!TypeOK, Dev!Word, Dev!vars, Dev!regVars, Dev!jobVars,
              Dev!statVars
<1> QED
  BY <1>1, <1>2, <1>3, <1>4
     DEF Doorbell, Dev!write, Dev!WriteCmd, Dev!OFF_CMD, Dev!OFF_SRC_BYTES,
         Dev!OFF_DST_BYTES

LEMMA TickTyped ==
  ASSUME Dev!TypeOK, Dev!Tick
  PROVE  Dev!TypeOK' /\ UNCHANGED drainState
  BY DEF Dev!TypeOK, Dev!Tick, Dev!Word, Dev!regVars, Dev!statVars,
         Dev!NotScheduled

LEMMA CompleteTyped ==
  ASSUME Dev!TypeOK, Dev!onComplete
  PROVE  Dev!TypeOK' /\ drainState' = Signalled(drainState)
<1>1. Dev!TotalBytes \in Nat
  BY DrainTotalTyped, DrainWordFacts
<1>2. bytesProcessed' \in Nat /\ jobsCompleted' \in Nat
  BY <1>1 DEF Dev!onComplete, Dev!TypeOK
<1>3. dmaRecord' \in Dev!Record
  BY <1>2, DrainRecordTyped DEF Dev!onComplete, Dev!TypeOK
<1>4. drainState' \in {"Running", "Draining", "Drained"}
  BY DEF Dev!onComplete, Dev!TypeOK
<1> QED
  BY <1>2, <1>3, <1>4, DrainWordFacts
     DEF Dev!onComplete, Dev!TypeOK, Dev!Word, Dev!regVars, Signalled

LEMMA DrainCallTyped ==
  ASSUME Dev!TypeOK, Dev!drain \/ Dev!drainResume
  PROVE  Dev!TypeOK'
  BY DEF Dev!TypeOK, Dev!drain, Dev!drainResume, Dev!Word, Dev!regVars,
         Dev!jobVars, Dev!statVars

LEMMA SameTyped ==
  ASSUME Dev!TypeOK, UNCHANGED devVars
  PROVE  Dev!TypeOK' /\ UNCHANGED <<drainState, eventIn>>
  BY DEF Dev!TypeOK, devVars, Dev!Word

-----------------------------------------------------------------------------
(* Every step keeps the invariant.                                         *)
LEMMA DrainInitInv == Init => DrainInv
<1> SUFFICES ASSUME Init PROVE DrainInv
  OBVIOUS
<1>1. Dev!TypeOK
  BY DrainWordFacts, DrainRecordTyped DEF Init, Dev!Init, Dev!TypeOK, Dev!NotScheduled
<1>2. rung \in 0 .. Doorbells /\ drains \in 0 .. MaxDrains
  BY DrainAssumption DEF Init
<1>3. finished \in BOOLEAN
  BY DEF Init
<1>4. DrainTypeOK
  BY <1>1, <1>2, <1>3 DEF Init, DrainTypeOK
<1>5. CountExact /\ ScriptPoint
  BY DEF Init, Dev!Init, CountExact, ScriptPoint
<1> QED
  BY <1>4, <1>5 DEF Init, DrainInv

(* The CPU moves, the device and the manager do not.                       *)
LEMMA FetchInv == ASSUME DrainInv, Fetch PROVE DrainInv'
<1>1. Dev!TypeOK' /\ UNCHANGED <<drainState, eventIn>>
  BY SameTyped DEF Fetch, DrainInv, DrainTypeOK
<1> QED
  BY <1>1 DEF Fetch, Simulating, DrainInv, DrainTypeOK, CountExact,
              ScriptPoint, managerVars

(* What a signal of an object in drain state s does to the manager, when   *)
(* the other object is in drain state o.                                   *)
LEMMA SignalCounts ==
  ASSUME NEW s \in {"Running", "Draining", "Drained"},
         NEW o \in {"Running", "Draining", "Drained"},
         count = (IF s = "Draining" THEN 1 ELSE 0)
                 + (IF o = "Draining" THEN 1 ELSE 0),
         finished \in BOOLEAN, finished => count = 0,
         ManagerSignalled(s)
  PROVE  /\ Signalled(s) \in {"Running", "Draining", "Drained"}
         /\ count' = (IF Signalled(s) = "Draining" THEN 1 ELSE 0)
                     + (IF o = "Draining" THEN 1 ELSE 0)
         /\ count' \in 0 .. 2
         /\ finished' \in BOOLEAN /\ (finished' => count' = 0)
         /\ UNCHANGED managerState
         /\ s = "Running" => Signalled(s) = "Running" /\ UNCHANGED finished
<1>1. CASE s = "Draining"
  <2>1. count' = count - 1 /\ finished' = (count = 1 \/ finished)
    BY <1>1 DEF ManagerSignalled
  <2>2. finished' \in BOOLEAN
    BY <2>1
  <2>3. finished' => count' = 0
    BY <1>1, <2>1
  <2> QED
    BY <1>1, <2>1, <2>2, <2>3 DEF Signalled, ManagerSignalled
<1>2. CASE s # "Draining"
  BY <1>2 DEF Signalled, ManagerSignalled, managerVars
<1> QED
  BY <1>1, <1>2

(* The facts about the manager that a running simulation provides.         *)
LEMMA WhileSimulating ==
  ASSUME DrainInv, Simulating
  PROVE  /\ drainState \in {"Running", "Draining", "Drained"}
         /\ cpuDrain \in {"Running", "Draining", "Drained"}
         /\ finished \in BOOLEAN /\ (finished => count = 0)
         /\ count \in 0 .. 2
  BY DEF DrainInv, DrainTypeOK, Dev!TypeOK, ScriptPoint, Simulating

LEMMA StoreArrivesInv == ASSUME DrainInv, StoreArrives PROVE DrainInv'
<1>1. Dev!TypeOK' /\ UNCHANGED drainState
  <2>1. pos \in 1 .. 4 /\ Dev!TypeOK
    BY DEF DrainInv, DrainTypeOK
  <2>2. Doorbell[pos] \in {Doorbell[1], Doorbell[2], Doorbell[3], Doorbell[4]}
    BY <2>1
  <2> QED
    BY <2>1, <2>2, StoreTyped DEF StoreArrives
<1>2. /\ cpuDrain' \in {"Running", "Draining", "Drained"}
      /\ CountExact' /\ count' \in 0 .. 2
      /\ finished' \in BOOLEAN /\ (finished' => count' = 0)
      /\ UNCHANGED managerState
      /\ cpuDrain = "Running" => cpuDrain' = "Running" /\ UNCHANGED finished
  <2>1. count = (IF cpuDrain = "Draining" THEN 1 ELSE 0)
                + (IF drainState = "Draining" THEN 1 ELSE 0)
    BY WhileSimulating DEF DrainInv, CountExact, StoreArrives
  <2> QED
    BY <1>1, <2>1, WhileSimulating, SignalCounts DEF StoreArrives, CountExact
<1>3. pos' \in 1 .. 4 /\ rung' \in 0 .. Doorbells /\ cpu' = "idle"
  BY DrainAssumption DEF StoreArrives, DrainInv, DrainTypeOK
<1>4. DrainTypeOK'
  BY <1>1, <1>2, <1>3 DEF DrainInv, DrainTypeOK, StoreArrives
<1>5. ScriptPoint'
  BY <1>1, <1>2 DEF ScriptPoint, DrainInv, StoreArrives, Simulating
<1> QED
  BY <1>2, <1>3, <1>4, <1>5 DEF DrainInv

LEMMA DeviceTickKeeps == ASSUME DrainInv, DeviceTick PROVE DrainInv'
<1>1. Dev!TypeOK' /\ UNCHANGED drainState
  BY TickTyped DEF DeviceTick, DrainInv, DrainTypeOK
<1> QED
  BY <1>1 DEF DeviceTick, Simulating, DrainInv, DrainTypeOK, CountExact,
              ScriptPoint, cpuVars, managerVars

LEMMA DeviceCompletesKeeps == ASSUME DrainInv, DeviceCompletes PROVE DrainInv'
<1>1. Dev!TypeOK' /\ drainState' = Signalled(drainState)
  BY CompleteTyped DEF DeviceCompletes, DrainInv, DrainTypeOK
<1>2. /\ CountExact' /\ count' \in 0 .. 2
      /\ finished' \in BOOLEAN /\ (finished' => count' = 0)
      /\ UNCHANGED managerState
      /\ drainState = "Running" => drainState' = "Running" /\ UNCHANGED finished
  BY <1>1, WhileSimulating, SignalCounts
     DEF DeviceCompletes, DrainInv, CountExact, cpuVars
<1>3. DrainTypeOK'
  BY <1>1, <1>2 DEF DrainInv, DrainTypeOK, DeviceCompletes, cpuVars
<1>4. ScriptPoint'
  BY <1>1, <1>2 DEF ScriptPoint, DrainInv, DeviceCompletes, Simulating, cpuVars
<1> QED
  BY <1>2, <1>3, <1>4 DEF DrainInv, DeviceCompletes, cpuVars

LEMMA TryDrainKeeps == ASSUME DrainInv, TryDrain PROVE DrainInv'
<1>1. Dev!TypeOK' /\ UNCHANGED eventIn
  BY DrainCallTyped DEF TryDrain, DrainInv, DrainTypeOK, Dev!drain, Dev!jobVars
<1>2. /\ drainState' = IF Dev!scheduled THEN "Draining" ELSE "Drained"
      /\ cpuDrain' = IF cpu = "store" THEN "Draining" ELSE "Drained"
  BY DEF TryDrain, Dev!drain
<1>3. count = 0 /\ ~finished
  BY DEF DrainInv, ScriptPoint, TryDrain, CountExact
<1>4. CountExact' /\ count' \in 0 .. 2
  BY <1>2, <1>3 DEF TryDrain, CountExact
<1>5. count' = 0 => eventIn' = Dev!NotScheduled /\ cpu' = "idle"
                    /\ drainState' = "Drained" /\ cpuDrain' = "Drained"
  BY <1>1, <1>2, <1>4 DEF CountExact, TryDrain, Dev!scheduled, DrainInv, DrainTypeOK
<1>6. DrainTypeOK'
  BY <1>1, <1>2, <1>3, <1>4 DEF DrainInv, DrainTypeOK, TryDrain
<1>7. ScriptPoint'
  BY <1>3, <1>5 DEF ScriptPoint, TryDrain
<1> QED
  BY <1>4, <1>6, <1>7 DEF DrainInv, TryDrain

(* The steps of the script that leave the device alone, and the resume.    *)
LEMMA ScriptKeeps ==
  ASSUME DrainInv, CallDrain \/ FinishedDrain \/ SwitchAndResume \/ UNCHANGED vars
  PROVE  DrainInv'
<1>1. CASE CallDrain
  <2>1. Dev!TypeOK' /\ UNCHANGED <<drainState, eventIn>>
    BY <1>1, SameTyped DEF CallDrain, DrainInv, DrainTypeOK
  <2> QED
    BY <1>1, <2>1, DrainAssumption
       DEF CallDrain, DrainInv, DrainTypeOK, CountExact, ScriptPoint, cpuVars,
           managerVars
<1>2. CASE FinishedDrain
  <2>1. Dev!TypeOK' /\ UNCHANGED <<drainState, eventIn>>
    BY <1>2, SameTyped DEF FinishedDrain, DrainInv, DrainTypeOK
  <2>2. drainState # "Draining" /\ cpuDrain # "Draining"
    BY <1>2 DEF FinishedDrain, DrainInv, CountExact, ScriptPoint
  <2> QED
    BY <1>2, <2>1, <2>2 DEF FinishedDrain, DrainInv, DrainTypeOK, CountExact,
                            ScriptPoint, cpuVars
<1>3. CASE SwitchAndResume
  <2>1. Dev!TypeOK' /\ drainState' = "Running"
    BY <1>3, DrainCallTyped DEF SwitchAndResume, DrainInv, DrainTypeOK,
                                Dev!drainResume
  <2>2. count = 0 /\ ~finished
    BY <1>3 DEF SwitchAndResume, DrainInv, CountExact, ScriptPoint
  <2> QED
    BY <1>3, <2>1, <2>2 DEF SwitchAndResume, DrainInv, DrainTypeOK, CountExact,
                            ScriptPoint
<1>4. CASE UNCHANGED vars
  <2>1. Dev!TypeOK' /\ UNCHANGED <<drainState, eventIn>>
    BY <1>4, SameTyped DEF vars, DrainInv, DrainTypeOK
  <2> QED
    BY <1>4, <2>1 DEF vars, DrainInv, DrainTypeOK, CountExact, ScriptPoint,
                      cpuVars, managerVars
<1> QED
  BY <1>1, <1>2, <1>3, <1>4

LEMMA DrainStepInv == DrainInv /\ [Next]_vars => DrainInv'
  BY FetchInv, StoreArrivesInv, DeviceTickKeeps, DeviceCompletesKeeps,
     TryDrainKeeps, ScriptKeeps DEF Next, GuestComputes

-----------------------------------------------------------------------------
(* drain.cc, simulate.py: the state of a drain keeps its type.             *)
THEOREM DrainTypeCorrect == Spec => []DrainTypeOK
<1>1. DrainInv => DrainTypeOK
  BY DEF DrainInv
<1> QED
  BY <1>1, DrainInitInv, DrainStepInv, PTL DEF Spec

(* drain.cc: the count is exact at every moment, so signalDrainDone never  *)
(* takes it below zero and tryDrain never starts with one left over or on  *)
(* a system that is drained, wherever in a doorbell the drain begins.      *)
THEOREM DrainNeverPanics == Spec => []NoDrainPanic
<1>1. DrainInv => NoDrainPanic
  BY DEF DrainInv, CountExact, ScriptPoint, NoDrainPanic
<1> QED
  BY <1>1, DrainInitInv, DrainStepInv, PTL DEF Spec

(* simulate.py, run_pnm.py:190-192: when m5.drain() returns and the CPUs   *)
(* are switched, no completion is scheduled and no store outstanding, even *)
(* with jobs that overlap the drain.                                       *)
THEOREM DrainSwitchIdle == Spec => []SwitchOnlyWhenIdle
<1>1. DrainInv => SwitchOnlyWhenIdle
  BY DEF DrainInv, ScriptPoint, SwitchOnlyWhenIdle
<1> QED
  BY <1>1, DrainInitInv, DrainStepInv, PTL DEF Spec

=============================================================================
