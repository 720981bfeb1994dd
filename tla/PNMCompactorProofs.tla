------------------------- MODULE PNMCompactorProofs -------------------------
(***************************************************************************)
(* What the device guarantees to any client, for every word size, latency  *)
(* and bandwidth: proofs about PNMCompactor.                               *)
(***************************************************************************)
EXTENDS PNMCompactor, TLAPS

(* The remainder by a positive number is smaller than it.                  *)
LEMMA ModRange == ASSUME NEW a \in Nat, NEW m \in Nat, m > 0
                  PROVE  a % m \in 0 .. m - 1
  OBVIOUS

(* A store leaves a value of the register's width, whatever its width.     *)
LEMMA StoreFits == ASSUME NEW v \in Values, NEW n \in AccessSizes
                   PROVE  pktGet(v, n) \in Word
<1>1. v \in Nat /\ Modulus[n] \in Nat /\ Modulus[n] > 0
      /\ Modulus[n] <= Modulus[8] /\ Modulus[8] \in Nat
  BY DeviceAssumption DEF AccessSizes
<1>2. v % Modulus[n] \in 0 .. Modulus[n] - 1
  BY <1>1, ModRange
<1> QED
  BY <1>1, <1>2 DEF pktGet, Word

(* The wrapped sum of the two size registers is again a word.              *)
LEMMA TotalFits == ASSUME srcBytesReg \in Word, dstBytesReg \in Word
                   PROVE  TotalBytes \in Word
<1>1. Modulus[8] \in Nat /\ Modulus[8] > 0
  BY DeviceAssumption DEF AccessSizes
<1>2. srcBytesReg + dstBytesReg \in Nat
  BY <1>1 DEF Word
<1> QED
  BY <1>1, <1>2, ModRange DEF TotalBytes, Word

(* The latency of any number of bytes is a natural number of ticks.        *)
LEMMA LatencyNat == ASSUME NEW b \in Nat PROVE Latency(b) \in Nat
<1>1. b * BwNum \in Nat
  BY DeviceAssumption
<1>2. (b * BwNum) \div BwDen \in Nat
  BY <1>1, DeviceAssumption
<1> QED
  BY <1>2, DeviceAssumption DEF Latency

LEMMA RecordTyped == ASSUME NEW b \in Nat, NEW k \in Nat
                     PROVE  ResultRecord(b, k) \in Record
<1>1. Modulus[8] \in Nat /\ Modulus[8] > 0 /\ Modulus[4] \in Nat /\ Modulus[4] > 0
  BY DeviceAssumption DEF AccessSizes
<1>2. b % Modulus[8] \in Nat /\ k % Modulus[4] \in Nat
  BY <1>1, ModRange
<1> QED
  BY <1>2 DEF ResultRecord, Record

-----------------------------------------------------------------------------
(* The inductive invariant: the type, the agreement of the three in-flight *)
(* marks, and the relations that each hold only because of the others (the *)
(* delay needs the event to be the running job's, the conservation of jobs *)
(* needs busy to mean scheduled).                                          *)
DeviceInv ==
  TypeOK /\ EventIffBusy /\ ExactDelay /\ JobConservation /\ RecordIsCurrent

LEMMA DeviceInitInv == Init => DeviceInv
<1> SUFFICES ASSUME Init PROVE DeviceInv
  OBVIOUS
<1>1. 0 \in Word
  BY DeviceAssumption DEF AccessSizes, Word
<1>2. TypeOK
  BY <1>1, RecordTyped DEF Init, TypeOK, NotScheduled
<1>3. EventIffBusy
  BY DEF Init, EventIffBusy, scheduled, NotScheduled, STATUS_IDLE, STATUS_BUSY
<1>4. ExactDelay
  BY DEF Init, ExactDelay, scheduled, NotScheduled
<1>5. JobConservation
  BY DEF Init, JobConservation
<1>6. RecordIsCurrent
  BY DEF Init, RecordIsCurrent
<1> QED
  BY <1>2, <1>3, <1>4, <1>5, <1>6 DEF DeviceInv

LEMMA SizeStoreInv == ASSUME DeviceInv, NEW v \in Values, NEW n \in AccessSizes,
                            WriteSrc(v, n) \/ WriteDst(v, n)
                     PROVE  DeviceInv'
<1>1. pktGet(v, n) \in Word
  BY StoreFits
<1>2. TypeOK'
  BY <1>1 DEF DeviceInv, TypeOK, Word, WriteSrc, WriteDst, jobVars, statVars
<1> QED
  BY <1>2 DEF DeviceInv, EventIffBusy, ExactDelay, JobConservation,
              RecordIsCurrent, scheduled, WriteSrc, WriteDst, jobVars, statVars

LEMMA StutterInv == ASSUME DeviceInv, UNCHANGED vars PROVE DeviceInv'
  BY DEF DeviceInv, TypeOK, Word, EventIffBusy, ExactDelay, JobConservation,
         RecordIsCurrent, scheduled, vars, regVars, jobVars, statVars

LEMMA SubmitInv == ASSUME DeviceInv, Submit PROVE DeviceInv'
<1>1. CASE SubmitWhileBusy
  BY <1>1, StutterInv DEF SubmitWhileBusy
<1>2. CASE SubmitTooLarge
  BY <1>2 DEF SubmitTooLarge, DeviceInv, TypeOK, Word, EventIffBusy, ExactDelay,
              JobConservation, RecordIsCurrent, scheduled, regVars, statVars,
              STATUS_BUSY, STATUS_ERROR
<1>3. CASE SubmitAccepted
  <2>1. TotalBytes \in Word /\ TotalBytes \in Nat
    BY TotalFits, DeviceAssumption DEF DeviceInv, TypeOK, Word, AccessSizes
  <2>2. Latency(TotalBytes) \in Nat
    BY <2>1, LatencyNat
  <2>3. TypeOK'
    BY <1>3, <2>1, <2>2 DEF SubmitAccepted, DeviceInv, TypeOK, Word, regVars, statVars
  <2>4. EventIffBusy'
    BY <1>3, <2>2 DEF SubmitAccepted, EventIffBusy, scheduled, NotScheduled
  <2>5. ExactDelay'
    BY <1>3, <2>2 DEF SubmitAccepted, ExactDelay, Latency
  <2>6. JobConservation'
    BY <1>3 DEF SubmitAccepted, DeviceInv, TypeOK, JobConservation, statVars
  <2>7. RecordIsCurrent'
    BY <1>3 DEF SubmitAccepted, DeviceInv, RecordIsCurrent, statVars
  <2> QED
    BY <2>3, <2>4, <2>5, <2>6, <2>7 DEF DeviceInv
<1> QED
  BY <1>1, <1>2, <1>3 DEF Submit

LEMMA ResetInv == ASSUME DeviceInv, Reset PROVE DeviceInv'
<1>1. 0 \in Word
  BY DeviceAssumption DEF AccessSizes, Word
<1>2. TypeOK'
  <2>1. cancels' \in Nat
    <3>1. CASE scheduled
      BY <3>1 DEF Reset, DeviceInv, TypeOK
    <3>2. CASE ~scheduled
      BY <3>2 DEF Reset, DeviceInv, TypeOK
    <3> QED
      BY <3>1, <3>2
  <2> QED
    BY <1>1, <2>1 DEF Reset, DeviceInv, TypeOK, Word, regVars, statVars
<1>3. EventIffBusy' /\ ExactDelay'
  BY DEF Reset, EventIffBusy, ExactDelay, scheduled, NotScheduled,
         STATUS_IDLE, STATUS_BUSY
<1>4. JobConservation'
  BY DEF Reset, DeviceInv, TypeOK, EventIffBusy, JobConservation, statVars
<1>5. RecordIsCurrent'
  BY DEF Reset, DeviceInv, RecordIsCurrent, statVars
<1> QED
  BY <1>2, <1>3, <1>4, <1>5 DEF DeviceInv

LEMMA TickInv == ASSUME DeviceInv, Tick PROVE DeviceInv'
<1>0. charged \in Nat
  BY DeviceAssumption DEF DeviceInv, TypeOK, Word, AccessSizes
<1>1. Latency(charged) \in Nat
  BY <1>0, LatencyNat
<1>2. TypeOK'
  BY DEF Tick, DeviceInv, TypeOK, Word, NotScheduled, regVars, statVars
<1>3. EventIffBusy'
  BY DEF Tick, DeviceInv, TypeOK, EventIffBusy, scheduled, NotScheduled
<1>4. ExactDelay'
  BY <1>1 DEF Tick, DeviceInv, TypeOK, ExactDelay, scheduled, NotScheduled, Latency
<1> QED
  BY <1>2, <1>3, <1>4
     DEF Tick, DeviceInv, JobConservation, RecordIsCurrent, statVars

LEMMA CompleteInv == ASSUME DeviceInv, onComplete PROVE DeviceInv'
<1>1. 0 \in Word
  BY DeviceAssumption DEF AccessSizes, Word
<1>2. TotalBytes \in Nat
  BY TotalFits, DeviceAssumption DEF DeviceInv, TypeOK, Word, AccessSizes
<1>3. bytesProcessed' \in Nat /\ jobsCompleted' \in Nat
  BY <1>2 DEF onComplete, DeviceInv, TypeOK
<1>4. dmaRecord' \in Record
  BY <1>3, RecordTyped DEF onComplete, DeviceInv, TypeOK
<1>5. TypeOK'
  BY <1>1, <1>3, <1>4 DEF onComplete, DeviceInv, TypeOK, Word, regVars
<1>6. EventIffBusy' /\ ExactDelay'
  BY DEF onComplete, EventIffBusy, ExactDelay, scheduled, NotScheduled,
         STATUS_DONE, STATUS_BUSY
<1>7. busy
  BY DEF onComplete, DeviceInv, EventIffBusy, scheduled, NotScheduled
<1>8. JobConservation'
  BY <1>7 DEF onComplete, DeviceInv, TypeOK, JobConservation
<1>9. RecordIsCurrent'
  BY DEF onComplete, RecordIsCurrent, ResultRecord
<1> QED
  BY <1>5, <1>6, <1>8, <1>9 DEF DeviceInv

LEMMA DrainInv == ASSUME DeviceInv, drain \/ drainResume PROVE DeviceInv'
  BY DEF drain, drainResume, DeviceInv, TypeOK, Word, EventIffBusy, ExactDelay,
         JobConservation, RecordIsCurrent, scheduled, regVars, jobVars, statVars

LEMMA DeviceStepInv == DeviceInv /\ [Next]_vars => DeviceInv'
<1> SUFFICES ASSUME DeviceInv, [Next]_vars PROVE DeviceInv'
  OBVIOUS
<1>1. ASSUME NEW off \in Offsets, NEW v \in Values, NEW n \in AccessSizes,
             GuestStore(off, v, n)
      PROVE  DeviceInv'
  <2>1. CASE off = OFF_SRC_BYTES /\ WriteSrc(v, n)
    BY <2>1, SizeStoreInv
  <2>2. CASE off = OFF_DST_BYTES /\ WriteDst(v, n)
    BY <2>2, SizeStoreInv
  <2>3. CASE off = OFF_CMD /\ WriteCmd(v, n)
    BY <2>3, SubmitInv, ResetInv, StutterInv DEF WriteCmd
  <2>4. CASE UNCHANGED vars
    BY <2>4, StutterInv
  <2> QED
    BY <1>1, <2>1, <2>2, <2>3, <2>4 DEF GuestStore, write
<1>2. CASE Tick
  BY <1>2, TickInv
<1>3. CASE onComplete
  BY <1>3, CompleteInv
<1>4. CASE drain \/ drainResume
  BY <1>4, DrainInv
<1>5. CASE UNCHANGED vars
  BY <1>5, StutterInv
<1> QED
  BY <1>1, <1>2, <1>3, <1>4, <1>5 DEF Next

(* The device never leaves its inductive invariant, whatever its client.   *)
THEOREM DeviceInvariant == Spec => []DeviceInv
  BY DeviceInitInv, DeviceStepInv, PTL DEF Spec

(* Registers keep their width and status its four values.                  *)
THEOREM DeviceTypeCorrect == Spec => []TypeOK
<1>1. DeviceInv => TypeOK
  BY DEF DeviceInv
<1> QED
  BY <1>1, DeviceInvariant, PTL

(* busy, completeEvent.scheduled() and STATUS_BUSY always agree.           *)
THEOREM DeviceEventIffBusy == Spec => []EventIffBusy
<1>1. DeviceInv => EventIffBusy
  BY DEF DeviceInv
<1> QED
  BY <1>1, DeviceInvariant, PTL

(* A completion fires exactly the latency of the submitted bytes after the *)
(* submit, whatever the client stores meanwhile.                           *)
THEOREM DeviceExactDelay == Spec => []ExactDelay
<1>1. DeviceInv => ExactDelay
  BY DEF DeviceInv
<1> QED
  BY <1>1, DeviceInvariant, PTL

(* Every accepted job completes once or is cut off once.                   *)
THEOREM DeviceJobConservation == Spec => []JobConservation
<1>1. DeviceInv => JobConservation
  BY DEF DeviceInv
<1> QED
  BY <1>1, DeviceInvariant, PTL

(* With use_dma the record in DRAM always shows the current statistics.    *)
THEOREM DeviceRecordIsCurrent == Spec => []RecordIsCurrent
<1>1. DeviceInv => RecordIsCurrent
  BY DEF DeviceInv
<1> QED
  BY <1>1, DeviceInvariant, PTL

(* The device turns Drained only with no completion in flight.             *)
THEOREM DeviceDrainedMeansIdle == Spec => DrainedMeansIdle
<1>1. ASSUME DeviceInv, [Next]_vars
      PROVE  [drainState # "Drained" /\ drainState' = "Drained" => ~scheduled']_vars
  <2> SUFFICES ASSUME drainState # "Drained", drainState' = "Drained", Next
               PROVE  ~scheduled'
    BY <1>1
  <2>1. CASE onComplete
    BY <2>1 DEF onComplete, scheduled, NotScheduled
  <2>2. CASE drain
    BY <2>2 DEF drain, scheduled, jobVars
  <2>3. drainState' = drainState \/ onComplete \/ drain \/ drainResume
    BY DEF Next, GuestStore, write, WriteSrc, WriteDst, WriteCmd, Submit,
           SubmitWhileBusy, SubmitTooLarge, SubmitAccepted, Reset, Tick, vars
  <2> QED
    BY <2>1, <2>2, <2>3 DEF drainResume
<1> QED
  BY <1>1, DeviceInvariant, PTL DEF Spec, DrainedMeansIdle

-----------------------------------------------------------------------------
(* Steps of the device as steps of JobEngine.  That a completion finds the *)
(* engine running, and that a submit finds it free, is EventIffBusy.       *)

USE DEF Engine!engineVars, EngineState, STATUS_IDLE, STATUS_BUSY, STATUS_DONE,
        STATUS_ERROR

LEMMA EngineInit == Init => Engine!Init
  BY DEF Init, Engine!Init, scheduled, NotScheduled

LEMMA EngineSubmit == ASSUME DeviceInv, Submit
                      PROVE  [Engine!Next]_Engine!engineVars
<1>1. CASE SubmitWhileBusy
  BY <1>1 DEF SubmitWhileBusy, vars, jobVars, statVars, scheduled
<1>2. CASE SubmitTooLarge
  <2>1. ~scheduled /\ ~scheduled' /\ statusReg # STATUS_BUSY
    BY <1>2 DEF SubmitTooLarge, DeviceInv, EventIffBusy, scheduled
  <2>2. Engine!Refuse
    BY <1>2, <2>1 DEF SubmitTooLarge, Engine!Refuse, DeviceInv, TypeOK, statVars
  <2> QED
    BY <2>2 DEF Engine!Next
<1>3. CASE SubmitAccepted
  <2>1. statusReg # STATUS_BUSY
    BY <1>3 DEF SubmitAccepted, DeviceInv, EventIffBusy
  <2>2. TotalBytes \in Word /\ TotalBytes \in Nat
    BY TotalFits, DeviceAssumption DEF DeviceInv, TypeOK, Word, AccessSizes
  <2>3. Latency(TotalBytes) \in Nat
    BY <2>2, LatencyNat
  <2>4. scheduled' /\ eventIn' = Latency(TotalBytes)
    BY <1>3, <2>3 DEF SubmitAccepted, scheduled, NotScheduled
  <2>5. \E b \in Word : eventIn' = Latency(b)
    BY <2>2, <2>4
  <2>6. Engine!Accept
    BY <1>3, <2>1, <2>4, <2>5
       DEF SubmitAccepted, Engine!Accept, DeviceInv, TypeOK, statVars
  <2> QED
    BY <2>6 DEF Engine!Next
<1> QED
  BY <1>1, <1>2, <1>3 DEF Submit

LEMMA EngineReset == ASSUME Reset PROVE Engine!Next
  BY DEF Reset, Engine!Cancel, Engine!Next, scheduled, NotScheduled, statVars

LEMMA EngineTick == ASSUME DeviceInv, Tick PROVE Engine!Next
<1>1. scheduled /\ scheduled' /\ statusReg = STATUS_BUSY
  BY DEF Tick, DeviceInv, TypeOK, EventIffBusy, scheduled, NotScheduled
<1>2. Engine!Pass
  BY <1>1 DEF Tick, Engine!Pass, statVars
<1> QED
  BY <1>2 DEF Engine!Next

LEMMA EngineComplete == ASSUME DeviceInv, onComplete PROVE Engine!Next
<1>1. scheduled /\ ~scheduled' /\ statusReg = STATUS_BUSY
  BY DEF onComplete, DeviceInv, EventIffBusy, scheduled, NotScheduled
<1>2. Engine!Finish
  BY <1>1 DEF onComplete, Engine!Finish
<1> QED
  BY <1>2 DEF Engine!Next

LEMMA EngineStep == ASSUME DeviceInv, [Next]_vars
                    PROVE  [Engine!Next]_Engine!engineVars
<1>1. CASE UNCHANGED vars
  BY <1>1 DEF vars, jobVars, statVars, scheduled
<1>2. ASSUME NEW off \in Offsets, NEW v \in Values, NEW n \in AccessSizes,
             GuestStore(off, v, n)
      PROVE  [Engine!Next]_Engine!engineVars
  <2>1. CASE WriteSrc(v, n) \/ WriteDst(v, n)
    BY <2>1 DEF WriteSrc, WriteDst, jobVars, statVars, scheduled
  <2>2. CASE WriteCmd(v, n)
    BY <1>1, <2>2, EngineSubmit, EngineReset DEF WriteCmd
  <2> QED
    BY <1>1, <1>2, <2>1, <2>2 DEF GuestStore, write
<1>3. CASE drain \/ drainResume
  BY <1>3 DEF drain, drainResume, jobVars, statVars, scheduled
<1> QED
  BY <1>1, <1>2, <1>3, EngineTick, EngineComplete DEF Next

(* The device implements the one-job timer: every store, tick, completion, *)
(* reset and drain is a step of JobEngine or invisible to it.              *)
THEOREM DeviceImplementsEngine == Spec => ImplementsEngine
  BY EngineInit, EngineStep, DeviceInvariant, PTL
     DEF Spec, ImplementsEngine, Engine!Spec

=============================================================================
