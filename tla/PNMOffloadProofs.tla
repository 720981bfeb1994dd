-------------------------- MODULE PNMOffloadProofs --------------------------
(***************************************************************************)
(* Proofs about PNMOffload, for any number of jobs and any degree of       *)
(* concurrency, any fault and any word size: the doorbell is exclusive,    *)
(* and what the device charges, accounts and reports is what the last      *)
(* doorbell asked for.                                                     *)
(***************************************************************************)
EXTENDS PNMOffload, TLAPS

InDoorbell == {"src", "dst", "submit"}

(* What the registers hold while a doorbell is under way: the reset has    *)
(* silenced the device, and each store of the thread that holds            *)
(* mmio_mutex_ is still there when it makes the next one.                  *)
RegistersOfDoorbell ==
  \A j \in Jobs :
    /\ jpc[j] \in InDoorbell => ~busy /\ statusReg = Dev!STATUS_IDLE
    /\ jpc[j] \in {"dst", "submit"} => srcBytesReg = size[j]
    /\ jpc[j] = "submit" => dstBytesReg = size[j]

(* The inductive invariant.                                                *)
OffloadInv ==
  /\ OffloadTypeOK
  /\ Dev!EventIffBusy
  /\ DoorbellExclusive
  /\ WorkerExclusive
  /\ RegistersOfDoorbell
  /\ ChargedForOwner
  /\ StatusOfOwner

-----------------------------------------------------------------------------
(* Facts about the constants, and what the doorbell's stores do.           *)
LEMMA WordFacts ==
  /\ Modulus[8] \in Nat /\ Modulus[8] > 4
  /\ Modulus[4] \in Nat /\ Modulus[4] > 4
  /\ Dev!Word \subseteq Nat
  /\ 0 \in Dev!Word
  /\ Sizes \subseteq Dev!Word
  /\ NoJob \notin Jobs
  BY OffloadAssumption, OffloadDeviceAssumption
     DEF Dev!DeviceAssumption, Dev!AccessSizes, Dev!Word

LEMMA ModSmall == ASSUME NEW m \in Nat, NEW a \in 0 .. m - 1
                  PROVE  a % m = a
  OBVIOUS

LEMMA ModBound == ASSUME NEW a \in Nat, NEW m \in Nat, m > 0
                  PROVE  a % m \in 0 .. m - 1
  OBVIOUS

LEMMA ResetStore == Dev!write(Dev!OFF_CMD, Dev!CMD_RESET, 4) => Dev!Reset
<1>1. 2 % Modulus[4] = 2
  BY WordFacts, ModSmall
<1> QED
  BY <1>1 DEF Dev!write, Dev!WriteCmd, Dev!pktGet, Dev!OFF_CMD,
              Dev!OFF_SRC_BYTES, Dev!OFF_DST_BYTES, Dev!CMD_RESET, Dev!CMD_SUBMIT

LEMMA SubmitStore == Dev!write(Dev!OFF_CMD, Dev!CMD_SUBMIT, 4) => Dev!Submit
<1>1. 1 % Modulus[4] = 1
  BY WordFacts, ModSmall
<1> QED
  BY <1>1 DEF Dev!write, Dev!WriteCmd, Dev!pktGet, Dev!OFF_CMD,
              Dev!OFF_SRC_BYTES, Dev!OFF_DST_BYTES, Dev!CMD_RESET, Dev!CMD_SUBMIT

LEMMA SrcStore ==
  ASSUME NEW s \in Dev!Word, Dev!write(Dev!OFF_SRC_BYTES, s, 8)
  PROVE  /\ srcBytesReg' = s
         /\ UNCHANGED <<dstBytesReg, statusReg, busy, eventIn, bytesProcessed,
                        jobsCompleted, dmaRecord, drainState, charged, age,
                        submits, cancels>>
<1>1. s % Modulus[8] = s
  BY WordFacts, ModSmall DEF Dev!Word
<1> QED
  BY <1>1 DEF Dev!write, Dev!WriteSrc, Dev!pktGet, Dev!OFF_CMD,
              Dev!OFF_SRC_BYTES, Dev!OFF_DST_BYTES, Dev!jobVars, Dev!statVars

LEMMA DstStore ==
  ASSUME NEW s \in Dev!Word, Dev!write(Dev!OFF_DST_BYTES, s, 8)
  PROVE  /\ dstBytesReg' = s
         /\ UNCHANGED <<srcBytesReg, statusReg, busy, eventIn, bytesProcessed,
                        jobsCompleted, dmaRecord, drainState, charged, age,
                        submits, cancels>>
<1>1. s % Modulus[8] = s
  BY WordFacts, ModSmall DEF Dev!Word
<1> QED
  BY <1>1 DEF Dev!write, Dev!WriteDst, Dev!pktGet, Dev!OFF_CMD,
              Dev!OFF_SRC_BYTES, Dev!OFF_DST_BYTES, Dev!jobVars, Dev!statVars

LEMMA TotalTyped == ASSUME Dev!TypeOK PROVE Dev!TotalBytes \in Dev!Word
<1>1. srcBytesReg \in Nat /\ dstBytesReg \in Nat
  BY WordFacts DEF Dev!TypeOK
<1> QED
  BY <1>1, WordFacts, ModBound DEF Dev!TotalBytes, Dev!Word

LEMMA LatencyTyped == ASSUME NEW b \in Nat PROVE Dev!Latency(b) \in Nat
<1>1. BwNum \in Nat /\ BwDen \in Nat \ {0} /\ ProcessLatency \in Nat
  BY OffloadDeviceAssumption DEF Dev!DeviceAssumption
<1>2. (b * BwNum) \div BwDen \in Nat
  BY <1>1
<1> QED
  BY <1>1, <1>2 DEF Dev!Latency

-----------------------------------------------------------------------------
(* The device's part of the invariant under the stores and events that     *)
(* reach it here.                                                          *)
DevInv == Dev!TypeOK /\ Dev!EventIffBusy

LEMMA DevReset ==
  ASSUME DevInv, Dev!Reset
  PROVE  /\ DevInv'
         /\ ~busy' /\ statusReg' = Dev!STATUS_IDLE
         /\ UNCHANGED <<srcBytesReg, dstBytesReg>>
<1>1. cancels' \in Nat
  <2>1. CASE Dev!scheduled
    BY <2>1 DEF Dev!Reset, DevInv, Dev!TypeOK
  <2>2. CASE ~Dev!scheduled
    BY <2>2 DEF Dev!Reset, DevInv, Dev!TypeOK
  <2> QED
    BY <2>1, <2>2
<1>2. Dev!TypeOK'
  BY <1>1, WordFacts DEF Dev!Reset, DevInv, Dev!TypeOK, Dev!Word, Dev!regVars,
                         Dev!statVars
<1>3. Dev!EventIffBusy'
  BY DEF Dev!Reset, Dev!EventIffBusy, Dev!scheduled, Dev!NotScheduled,
         Dev!STATUS_IDLE, Dev!STATUS_BUSY
<1> QED
  BY <1>2, <1>3 DEF DevInv, Dev!Reset, Dev!regVars

LEMMA DevSizeStore ==
  ASSUME DevInv, NEW s \in Dev!Word,
         \/ Dev!write(Dev!OFF_SRC_BYTES, s, 8)
         \/ Dev!write(Dev!OFF_DST_BYTES, s, 8)
  PROVE  DevInv'
<1>1. /\ srcBytesReg' \in Dev!Word /\ dstBytesReg' \in Dev!Word
      /\ UNCHANGED <<statusReg, busy, eventIn, bytesProcessed, jobsCompleted,
                     dmaRecord, drainState, charged, age, submits, cancels>>
  BY SrcStore, DstStore DEF DevInv, Dev!TypeOK
<1> QED
  BY <1>1 DEF DevInv, Dev!TypeOK, Dev!Word, Dev!EventIffBusy, Dev!scheduled

LEMMA DevSubmit ==
  ASSUME DevInv, ~busy, Dev!Submit
  PROVE  /\ DevInv'
         /\ UNCHANGED <<srcBytesReg, dstBytesReg>>
         /\ \/ ~busy' /\ statusReg' = Dev!STATUS_ERROR
            \/ /\ busy' /\ statusReg' = Dev!STATUS_BUSY
               /\ srcBytesReg <= MaxJobBytes
               /\ charged' = Dev!TotalBytes
<1>1. CASE Dev!SubmitTooLarge
  BY <1>1 DEF Dev!SubmitTooLarge, DevInv, Dev!TypeOK, Dev!Word, Dev!EventIffBusy,
              Dev!scheduled, Dev!regVars, Dev!statVars, Dev!STATUS_BUSY,
              Dev!STATUS_ERROR
<1>2. CASE Dev!SubmitAccepted
  <2>1. Dev!TotalBytes \in Dev!Word /\ Dev!TotalBytes \in Nat
    BY TotalTyped, WordFacts DEF DevInv
  <2>2. Dev!Latency(Dev!TotalBytes) \in Nat
    BY <2>1, LatencyTyped
  <2>3. Dev!TypeOK'
    BY <1>2, <2>1, <2>2 DEF Dev!SubmitAccepted, DevInv, Dev!TypeOK, Dev!Word,
                            Dev!regVars, Dev!statVars
  <2>4. Dev!EventIffBusy'
    BY <1>2, <2>2 DEF Dev!SubmitAccepted, Dev!EventIffBusy, Dev!scheduled,
                      Dev!NotScheduled
  <2> QED
    BY <1>2, <2>3, <2>4 DEF Dev!SubmitAccepted, DevInv, Dev!regVars
<1> QED
  BY <1>1, <1>2 DEF Dev!Submit, Dev!SubmitWhileBusy

LEMMA DevTick ==
  ASSUME DevInv, Dev!Tick
  PROVE  DevInv' /\ UNCHANGED <<srcBytesReg, dstBytesReg, statusReg, busy, charged>>
  BY DEF DevInv, Dev!Tick, Dev!TypeOK, Dev!Word, Dev!EventIffBusy, Dev!scheduled,
         Dev!NotScheduled, Dev!regVars, Dev!statVars

LEMMA DevComplete ==
  ASSUME DevInv, Dev!onComplete
  PROVE  /\ DevInv'
         /\ busy /\ ~busy' /\ statusReg' = Dev!STATUS_DONE
         /\ UNCHANGED <<srcBytesReg, dstBytesReg>>
<1>1. Dev!TotalBytes \in Nat
  BY TotalTyped, WordFacts DEF DevInv
<1>2. bytesProcessed' \in Nat /\ jobsCompleted' \in Nat
  BY <1>1 DEF Dev!onComplete, DevInv, Dev!TypeOK
<1>3. dmaRecord' \in Dev!Record
  <2>1. /\ bytesProcessed' % Modulus[8] \in Nat
        /\ jobsCompleted' % Modulus[4] \in Nat
    BY <1>2, WordFacts, ModBound
  <2> QED
    BY <2>1 DEF Dev!onComplete, DevInv, Dev!TypeOK, Dev!Record, Dev!ResultRecord
<1>4. Dev!TypeOK'
  BY <1>2, <1>3, WordFacts DEF Dev!onComplete, DevInv, Dev!TypeOK, Dev!Word,
                               Dev!regVars
<1>5. Dev!EventIffBusy'
  BY DEF Dev!onComplete, Dev!EventIffBusy, Dev!scheduled, Dev!NotScheduled,
         Dev!STATUS_DONE, Dev!STATUS_BUSY
<1> QED
  BY <1>4, <1>5 DEF DevInv, Dev!onComplete, Dev!EventIffBusy, Dev!scheduled,
                    Dev!NotScheduled, Dev!regVars

LEMMA DevSame == ASSUME DevInv, UNCHANGED devVars PROVE DevInv'
  BY DEF DevInv, devVars, Dev!TypeOK, Dev!Word, Dev!EventIffBusy, Dev!scheduled

-----------------------------------------------------------------------------
(* Steps that do not touch the device.                                     *)

(* A job thread moves between two places outside the doorbell.             *)
LEMMA QuietJob ==
  ASSUME OffloadInv, NEW j \in Jobs, NEW to \in JobStates \ InDoorbell,
         jpc' = [jpc EXCEPT ![j] = to],
         chan' \in [Jobs -> Channel],
         UNCHANGED <<devVars, unitVars, mmioLock, size, histVars, modeVars>>
  PROVE  OffloadInv'
<1>1. DevInv'
  BY DevSame DEF OffloadInv, OffloadTypeOK, DevInv
<1>2. OffloadTypeOK'
  BY <1>1 DEF DevInv, OffloadInv, OffloadTypeOK, unitVars, histVars, modeVars,
              Dev!Word
<1>3. \A k \in Jobs : jpc'[k] \in InDoorbell => jpc'[k] = jpc[k]
  BY DEF OffloadInv, OffloadTypeOK
<1>4. DoorbellExclusive' /\ RegistersOfDoorbell'
  BY <1>3 DEF OffloadInv, DoorbellExclusive, RegistersOfDoorbell, InDoorbell, devVars
<1>5. WorkerExclusive'
  BY DEF OffloadInv, WorkerExclusive, unitVars
<1>6. ChargedForOwner' /\ StatusOfOwner'
  BY DEF OffloadInv, ChargedForOwner, StatusOfOwner, Charge, PollExits,
         Dev!TotalBytes, devVars, histVars
<1> QED
  BY <1>1, <1>2, <1>4, <1>5, <1>6 DEF OffloadInv, DevInv

(* The worker process moves and keeps its critical section exclusive.      *)
LEMMA QuietUnit ==
  ASSUME OffloadInv,
         upc' \in [Jobs -> UnitStates],
         chan' \in [Jobs -> Channel],
         unit' \in {"starting", "up", "dead"},
         secondary' \in BOOLEAN,
         compactLock' \in Jobs \cup {NoJob},
         WorkerExclusive',
         UNCHANGED <<devVars, jobVars, histVars, modeVars>>
  PROVE  OffloadInv'
<1>1. DevInv'
  BY DevSame DEF OffloadInv, OffloadTypeOK, DevInv
<1>2. OffloadTypeOK'
  BY <1>1 DEF DevInv, OffloadInv, OffloadTypeOK, jobVars, histVars, modeVars,
              Dev!Word
<1>3. DoorbellExclusive' /\ RegistersOfDoorbell'
  BY DEF OffloadInv, DoorbellExclusive, RegistersOfDoorbell, devVars, jobVars
<1>4. ChargedForOwner' /\ StatusOfOwner'
  BY DEF OffloadInv, ChargedForOwner, StatusOfOwner, Charge, PollExits,
         Dev!TotalBytes, devVars, histVars, jobVars
<1> QED
  BY <1>1, <1>2, <1>3, <1>4 DEF OffloadInv, DevInv

-----------------------------------------------------------------------------
(* The four stores of the doorbell.                                        *)

LEMMA RingResetInv == ASSUME OffloadInv, NEW j \in Jobs, RingReset(j)
                      PROVE  OffloadInv'
<1>1. DevInv' /\ ~busy' /\ statusReg' = Dev!STATUS_IDLE
  BY ResetStore, DevReset DEF RingReset, OffloadInv, OffloadTypeOK, DevInv
<1>2. PICK s \in Dev!Word : size' = [size EXCEPT ![j] = s]
  BY WordFacts DEF RingReset
<1>3. owner \in Jobs \/ ~Dev!scheduled
  BY DEF OffloadInv, ChargedForOwner, Dev!EventIffBusy
<1>4. cut' \subseteq Jobs
  BY <1>3 DEF RingReset, OffloadInv, OffloadTypeOK
<1>5. OffloadTypeOK'
  <2>1. jpc' \in [Jobs -> JobStates]
    BY DEF RingReset, GoTo, OffloadInv, OffloadTypeOK, JobStates
  <2>2. size' \in [Jobs -> Dev!Word]
    BY <1>2 DEF OffloadInv, OffloadTypeOK
  <2> QED
    BY <1>1, <1>4, <2>1, <2>2 DEF RingReset, OffloadInv, OffloadTypeOK, DevInv,
       unitVars, modeVars, Dev!Word
<1>6. DoorbellExclusive'
  <2> SUFFICES ASSUME NEW k \in Jobs, jpc'[k] \in {"src", "dst", "submit"}
               PROVE  mmioLock' = k
    BY DEF DoorbellExclusive
  <2>1. k = j
    BY WordFacts DEF RingReset, GoTo, OffloadInv, OffloadTypeOK, DoorbellExclusive
  <2> QED
    BY <2>1 DEF RingReset
<1>7. RegistersOfDoorbell'
  <2>1. ASSUME NEW k \in Jobs PROVE jpc'[k] \notin {"dst", "submit"}
    BY <2>1, WordFacts
       DEF RingReset, GoTo, OffloadInv, OffloadTypeOK, DoorbellExclusive
  <2> QED
    BY <1>1, <2>1 DEF RegistersOfDoorbell
<1>8. ChargedForOwner' /\ StatusOfOwner'
  BY <1>1 DEF ChargedForOwner, StatusOfOwner, PollExits, Dev!STATUS_IDLE,
              Dev!STATUS_DONE, Dev!STATUS_ERROR
<1>9. WorkerExclusive'
  BY DEF OffloadInv, WorkerExclusive, RingReset, unitVars
<1> QED
  BY <1>1, <1>5, <1>6, <1>7, <1>8, <1>9 DEF OffloadInv, DevInv

LEMMA OnlyRinger ==
  ASSUME OffloadInv, NEW j \in Jobs, NEW k \in Jobs,
         jpc[j] \in InDoorbell, jpc[k] \in InDoorbell
  PROVE  j = k
  BY DEF OffloadInv, DoorbellExclusive, InDoorbell

LEMMA RingSizeInv == ASSUME OffloadInv, NEW j \in Jobs, RingSrc(j) \/ RingDst(j)
                     PROVE  OffloadInv'
<1>1. size[j] \in Dev!Word
  BY DEF OffloadInv, OffloadTypeOK
<1>2. DevInv'
  BY <1>1, DevSizeStore DEF RingSrc, RingDst, OffloadInv, OffloadTypeOK, DevInv
<1>3. UNCHANGED <<statusReg, busy, charged>> /\ ~busy /\ statusReg = Dev!STATUS_IDLE
  BY <1>1, SrcStore, DstStore
     DEF RingSrc, RingDst, GoTo, OffloadInv, RegistersOfDoorbell, InDoorbell
<1>4. /\ RingSrc(j) => srcBytesReg' = size[j] /\ jpc'[j] = "dst"
      /\ RingDst(j) => /\ srcBytesReg' = size[j] /\ dstBytesReg' = size[j]
                       /\ jpc'[j] = "submit"
  BY <1>1, SrcStore, DstStore
     DEF RingSrc, RingDst, GoTo, OffloadInv, OffloadTypeOK, RegistersOfDoorbell
<1>5. OffloadTypeOK'
  <2>1. jpc' \in [Jobs -> JobStates]
    BY DEF RingSrc, RingDst, GoTo, OffloadInv, OffloadTypeOK, JobStates
  <2> QED
    BY <1>2, <2>1 DEF RingSrc, RingDst, OffloadInv, OffloadTypeOK, DevInv,
       unitVars, histVars, modeVars, Dev!Word
<1>6. \A k \in Jobs \ {j} : jpc'[k] = jpc[k] /\ jpc'[k] \notin InDoorbell
  BY OnlyRinger DEF RingSrc, RingDst, GoTo, OffloadInv, OffloadTypeOK, InDoorbell
<1>7. DoorbellExclusive'
  BY <1>6 DEF RingSrc, RingDst, GoTo, OffloadInv, DoorbellExclusive, InDoorbell
<1>8. RegistersOfDoorbell'
  BY <1>3, <1>4, <1>6 DEF RingSrc, RingDst, RegistersOfDoorbell, InDoorbell
<1>9. ChargedForOwner' /\ StatusOfOwner'
  BY <1>3 DEF ChargedForOwner, StatusOfOwner, PollExits, Dev!STATUS_IDLE,
              Dev!STATUS_DONE, Dev!STATUS_ERROR
<1>10. WorkerExclusive'
  BY DEF OffloadInv, WorkerExclusive, RingSrc, RingDst, unitVars
<1> QED
  BY <1>2, <1>5, <1>7, <1>8, <1>9, <1>10 DEF OffloadInv, DevInv

LEMMA RingSubmitInv == ASSUME OffloadInv, NEW j \in Jobs, RingSubmit(j)
                       PROVE  OffloadInv'
<1>1. ~busy /\ srcBytesReg = size[j] /\ dstBytesReg = size[j]
  BY DEF RingSubmit, GoTo, OffloadInv, RegistersOfDoorbell, InDoorbell
<1>2. /\ DevInv'
      /\ UNCHANGED <<srcBytesReg, dstBytesReg>>
      /\ \/ ~busy' /\ statusReg' = Dev!STATUS_ERROR
         \/ /\ busy' /\ statusReg' = Dev!STATUS_BUSY
            /\ srcBytesReg <= MaxJobBytes
            /\ charged' = Dev!TotalBytes
  BY <1>1, SubmitStore, DevSubmit DEF RingSubmit, OffloadInv, OffloadTypeOK, DevInv
<1>3. OffloadTypeOK'
  <2>1. jpc' \in [Jobs -> JobStates]
    BY DEF RingSubmit, GoTo, OffloadInv, OffloadTypeOK, JobStates
  <2>2. elapsed' \subseteq Jobs
    BY DEF RingSubmit, OffloadInv, OffloadTypeOK
  <2> QED
    BY <1>2, <2>1, <2>2 DEF RingSubmit, OffloadInv, OffloadTypeOK, DevInv,
       unitVars, modeVars, Dev!Word
<1>4. \A k \in Jobs : jpc'[k] \notin InDoorbell
  BY OnlyRinger DEF RingSubmit, GoTo, OffloadInv, OffloadTypeOK, InDoorbell
<1>5. DoorbellExclusive' /\ RegistersOfDoorbell'
  BY <1>4 DEF DoorbellExclusive, RegistersOfDoorbell, InDoorbell
<1>6. owner' = j /\ size' = size
  BY DEF RingSubmit
<1>7. ChargedForOwner'
  BY <1>1, <1>2, <1>6 DEF ChargedForOwner, Charge, Dev!TotalBytes
<1>8. StatusOfOwner'
  BY <1>2, <1>6 DEF RingSubmit, StatusOfOwner, PollExits, Dev!STATUS_BUSY,
                    Dev!STATUS_DONE, Dev!STATUS_ERROR
<1>9. WorkerExclusive'
  BY DEF OffloadInv, WorkerExclusive, RingSubmit, unitVars
<1> QED
  BY <1>2, <1>3, <1>5, <1>7, <1>8, <1>9 DEF OffloadInv, DevInv

-----------------------------------------------------------------------------
(* Simulated time.                                                         *)

LEMMA DeviceTickInv == ASSUME OffloadInv, DeviceTick PROVE OffloadInv'
<1>1. DevInv' /\ UNCHANGED <<srcBytesReg, dstBytesReg, statusReg, busy, charged>>
  BY DevTick DEF DeviceTick, OffloadInv, OffloadTypeOK, DevInv
<1>2. OffloadTypeOK'
  BY <1>1 DEF DeviceTick, OffloadInv, OffloadTypeOK, DevInv, unitVars, jobVars,
              histVars, modeVars, Dev!Word
<1>3. DoorbellExclusive' /\ RegistersOfDoorbell' /\ WorkerExclusive'
  BY <1>1 DEF DeviceTick, OffloadInv, DoorbellExclusive, RegistersOfDoorbell,
              WorkerExclusive, unitVars, jobVars
<1>4. ChargedForOwner' /\ StatusOfOwner'
  BY <1>1 DEF DeviceTick, OffloadInv, ChargedForOwner, StatusOfOwner, PollExits,
              Charge, Dev!TotalBytes, jobVars, histVars
<1> QED
  BY <1>1, <1>2, <1>3, <1>4 DEF OffloadInv, DevInv

LEMMA DeviceCompletesInv == ASSUME OffloadInv, DeviceCompletes PROVE OffloadInv'
<1>1. /\ DevInv'
      /\ busy /\ ~busy' /\ statusReg' = Dev!STATUS_DONE
      /\ UNCHANGED <<srcBytesReg, dstBytesReg>>
  BY DevComplete DEF DeviceCompletes, OffloadInv, OffloadTypeOK, DevInv
<1>2. owner \in Jobs
  BY <1>1 DEF OffloadInv, ChargedForOwner
<1>3. OffloadTypeOK'
  BY <1>1, <1>2 DEF DeviceCompletes, OffloadInv, OffloadTypeOK, DevInv, unitVars,
                    jobVars, modeVars, Dev!Word
<1>4. \A k \in Jobs : jpc[k] \notin InDoorbell
  BY <1>1 DEF OffloadInv, RegistersOfDoorbell
<1>5. DoorbellExclusive' /\ RegistersOfDoorbell'
  BY <1>4 DEF DeviceCompletes, DoorbellExclusive, RegistersOfDoorbell, InDoorbell,
              jobVars
<1>6. ChargedForOwner'
  BY <1>1 DEF ChargedForOwner
<1>7. StatusOfOwner'
  BY DEF DeviceCompletes, StatusOfOwner
<1>8. WorkerExclusive'
  BY DEF DeviceCompletes, OffloadInv, WorkerExclusive, unitVars
<1> QED
  BY <1>1, <1>3, <1>5, <1>6, <1>7, <1>8 DEF OffloadInv, DevInv

-----------------------------------------------------------------------------
LEMMA JobThreadInv ==
  ASSUME OffloadInv, NEW j \in Jobs, Start(j) \/ JobThread(j) \/ RecvError(j)
  PROVE  OffloadInv'
<1> USE DEF GoTo, JobStates, Terminal, InDoorbell
<1>0. chan \in [Jobs -> Channel]
  BY DEF OffloadInv, OffloadTypeOK
<1>1. CASE Start(j)
  BY <1>0, <1>1, QuietJob DEF Start
<1>2. CASE Connect(j)
  <2>1. chan' \in [Jobs -> Channel]
    BY <1>0, <1>2 DEF Connect, Channel, Closed
  <2> QED
    BY <1>2, <2>1, QuietJob DEF Connect
<1>3. CASE ConnectFails(j)
  BY <1>0, <1>3, QuietJob DEF ConnectFails
<1>4. CASE SendJob(j)
  <2>0. chan' \in [Jobs -> Channel]
    BY <1>0, <1>4 DEF SendJob, Channel
  <2>1. CASE svcMmio
    BY <1>4, <2>0, <2>1, QuietJob DEF SendJob
  <2>2. CASE ~svcMmio
    BY <1>4, <2>0, <2>2, QuietJob DEF SendJob
  <2> QED
    BY <2>1, <2>2
<1>5. CASE SendFails(j)
  <2>1. chan' \in [Jobs -> Channel]
    BY <1>0, <1>5 DEF SendFails, Channel
  <2> QED
    BY <1>5, <2>1, QuietJob DEF SendFails
<1>6. CASE RingReset(j)
  BY <1>6, RingResetInv
<1>7. CASE RingSrc(j) \/ RingDst(j)
  BY <1>7, RingSizeInv
<1>8. CASE RingSubmit(j)
  BY <1>8, RingSubmitInv
<1>9. CASE Wait(j) \/ RecvError(j)
  <2>1. chan' \in [Jobs -> Channel]
    BY <1>0, <1>9 DEF Wait, WaitSucceeds, WaitReportsFailure, WaitLosesWorker,
                      RecvError, Channel
  <2> QED
    BY <1>9, <2>1, QuietJob DEF Wait, WaitSucceeds, WaitReportsFailure,
                                WaitLosesWorker, RecvError
<1>10. CASE Finish(j)
  BY <1>0, <1>10, QuietJob
     DEF Finish, Install, ResultUnreadable, RenameFails, CompactLocally
<1> QED
  BY <1>1, <1>2, <1>3, <1>4, <1>5, <1>6, <1>7, <1>8, <1>9, <1>10
     DEF JobThread, Schedule

(* A handler thread that neither takes nor leaves the critical section.    *)
LEMMA HandlerMoves ==
  ASSUME OffloadInv, NEW j \in Jobs, NEW to \in UnitStates,
         upc' = [upc EXCEPT ![j] = to],
         to \in {"compact", "fallback", "poll", "reply"} => compactLock = j,
         chan' \in [Jobs -> Channel],
         UNCHANGED <<devVars, jobVars, unit, secondary, compactLock, histVars,
                     modeVars>>
  PROVE  OffloadInv'
<1>1. upc' \in [Jobs -> UnitStates]
  BY DEF OffloadInv, OffloadTypeOK
<1>2. WorkerExclusive'
  BY DEF OffloadInv, OffloadTypeOK, WorkerExclusive
<1> QED
  BY <1>1, <1>2, QuietUnit DEF OffloadInv, OffloadTypeOK

(* A handler that answers leaves the critical section.                     *)
LEMMA HandlerAnswers ==
  ASSUME OffloadInv, NEW j \in Jobs, NEW a \in {"ok", "fail"},
         compactLock = j, upc' = [upc EXCEPT ![j] = "closed"], Respond(j, a)
  PROVE  OffloadInv'
<1>1. upc' \in [Jobs -> UnitStates]
  BY DEF OffloadInv, OffloadTypeOK, UnitStates
<1>2. chan' \in [Jobs -> Channel]
  <2>1. chan \in [Jobs -> Channel]
    BY DEF OffloadInv, OffloadTypeOK
  <2>2. PICK resp \in {a, "none"} :
          chan' = [chan EXCEPT ![j].resp = resp, ![j].unit = FALSE]
    BY DEF Respond
  <2>3. resp \in {"none", "ok", "fail"}
    BY <2>2
  <2> QED
    BY <2>1, <2>2, <2>3 DEF Channel
<1>3. WorkerExclusive'
  BY WordFacts DEF OffloadInv, OffloadTypeOK, WorkerExclusive, Respond
<1> QED
  BY <1>1, <1>2, <1>3, QuietUnit DEF OffloadInv, OffloadTypeOK, Respond

LEMMA HandleJobInv == ASSUME OffloadInv, NEW j \in Jobs, HandleJob(j)
                      PROVE  OffloadInv'
<1> USE DEF UnitGoTo, UnitStates
<1>0. /\ chan \in [Jobs -> Channel]
      /\ upc[j] \in {"compact", "fallback", "poll", "reply"} => compactLock = j
  BY DEF OffloadInv, OffloadTypeOK, WorkerExclusive
<1>1. CASE Accept(j)
  BY <1>0, <1>1, HandlerMoves DEF Accept
<1>2. CASE RecvJob(j)
  BY <1>0, <1>2, HandlerMoves DEF RecvJob
<1>3. CASE RecvFails(j)
  <2>1. chan' \in [Jobs -> Channel]
    BY <1>0, <1>3 DEF RecvFails, Channel
  <2> QED
    BY <2>1, <1>3, HandlerMoves DEF RecvFails
<1>4. CASE EnsureSecondary(j)
  <2>1. /\ upc' \in [Jobs -> UnitStates]
        /\ secondary' \in BOOLEAN
    BY <1>4 DEF EnsureSecondary, OffloadInv, OffloadTypeOK
  <2>2. WorkerExclusive'
    BY <1>4, WordFacts DEF EnsureSecondary, OffloadInv, OffloadTypeOK, WorkerExclusive
  <2> QED
    BY <1>0, <1>4, <2>1, <2>2, QuietUnit DEF EnsureSecondary, OffloadInv, OffloadTypeOK
<1>5. CASE Fallback(j)
  BY <1>0, <1>5, HandlerAnswers DEF Fallback
<1>6. CASE Compact(j)
  <2>1. CASE unitMmio
    BY <1>0, <1>6, <2>1, HandlerMoves DEF Compact
  <2>2. CASE ~unitMmio
    BY <1>0, <1>6, <2>2, HandlerMoves DEF Compact
  <2> QED
    BY <2>1, <2>2
<1>7. CASE CompactFails(j)
  BY <1>0, <1>7, HandlerAnswers DEF CompactFails
<1>8. CASE Poll(j)
  BY <1>0, <1>8, HandlerMoves DEF Poll
<1>9. CASE Reply(j)
  BY <1>0, <1>9, HandlerAnswers DEF Reply
<1> QED
  BY <1>1, <1>2, <1>3, <1>4, <1>5, <1>6, <1>7, <1>8, <1>9 DEF HandleJob

LEMMA ProcessInv == ASSUME OffloadInv, Listen \/ Crash PROVE OffloadInv'
<1>1. CASE Listen
  <2>1. WorkerExclusive'
    BY <1>1 DEF Listen, OffloadInv, WorkerExclusive
  <2> QED
    BY <1>1, <2>1, QuietUnit DEF Listen, OffloadInv, OffloadTypeOK
<1>2. CASE Crash
  <2>1. upc' \in [Jobs -> UnitStates] /\ chan' \in [Jobs -> Channel]
    BY <1>2 DEF Crash, UnitStates, Channel, OffloadInv, OffloadTypeOK
  <2>2. WorkerExclusive'
    BY <1>2 DEF Crash, WorkerExclusive
  <2> QED
    BY <1>2, <2>1, <2>2, QuietUnit DEF Crash
<1> QED
  BY <1>1, <1>2

LEMMA OffloadStutterInv == ASSUME OffloadInv, UNCHANGED vars PROVE OffloadInv'
<1>1. WorkerExclusive'
  BY DEF OffloadInv, WorkerExclusive, vars, unitVars
<1> QED
  BY <1>1, QuietUnit DEF OffloadInv, OffloadTypeOK, vars, unitVars

LEMMA OffloadInitInv == Init => OffloadInv
<1> SUFFICES ASSUME Init PROVE OffloadInv
  OBVIOUS
<1>1. Dev!TypeOK
  <2>1. Dev!ResultRecord(0, 0) \in Dev!Record
    BY WordFacts, ModSmall DEF Dev!ResultRecord, Dev!Record
  <2> QED
    BY <2>1, WordFacts DEF Init, Dev!Init, Dev!TypeOK
<1>2. Dev!EventIffBusy
  BY DEF Init, Dev!Init, Dev!EventIffBusy, Dev!scheduled, Dev!NotScheduled,
         Dev!STATUS_IDLE, Dev!STATUS_BUSY
<1>3. svcMmio \in BOOLEAN /\ unitMmio \in BOOLEAN
  BY OffloadAssumption DEF Init
<1>4. OffloadTypeOK
  BY <1>1, <1>3, WordFacts DEF Init, OffloadTypeOK, JobStates, UnitStates, Channel,
                               Closed
<1>5. DoorbellExclusive /\ WorkerExclusive /\ RegistersOfDoorbell
  BY DEF Init, DoorbellExclusive, WorkerExclusive, RegistersOfDoorbell, InDoorbell
<1>6. ChargedForOwner /\ StatusOfOwner
  BY DEF Init, Dev!Init, ChargedForOwner, StatusOfOwner, PollExits,
         Dev!STATUS_IDLE, Dev!STATUS_DONE, Dev!STATUS_ERROR
<1> QED
  BY <1>2, <1>4, <1>5, <1>6 DEF OffloadInv

LEMMA OffloadStepInv == OffloadInv /\ [Next]_vars => OffloadInv'
<1> SUFFICES ASSUME OffloadInv, [Next]_vars PROVE OffloadInv'
  OBVIOUS
<1>1. ASSUME NEW j \in Jobs, Start(j) \/ JobThread(j) \/ RecvError(j)
      PROVE  OffloadInv'
  BY <1>1, JobThreadInv
<1>2. ASSUME NEW j \in Jobs, HandleJob(j) PROVE OffloadInv'
  BY <1>2, HandleJobInv
<1>3. CASE Listen \/ Crash
  BY <1>3, ProcessInv
<1>4. CASE DeviceTick
  BY <1>4, DeviceTickInv
<1>5. CASE DeviceCompletes
  BY <1>5, DeviceCompletesInv
<1>6. CASE UNCHANGED vars
  BY <1>6, OffloadStutterInv
<1> QED
  BY <1>1, <1>2, <1>3, <1>4, <1>5, <1>6 DEF Next, Device, AllOver

(* The composed system never leaves its inductive invariant.               *)
THEOREM OffloadInvariant == Spec => []OffloadInv
  BY OffloadInitInv, OffloadStepInv, PTL DEF Spec

(* Both processes, their connections and the device stay well typed.       *)
THEOREM OffloadTypeCorrect == Spec => []OffloadTypeOK
<1>1. OffloadInv => OffloadTypeOK
  BY DEF OffloadInv
<1> QED
  BY <1>1, OffloadInvariant, PTL

(* However many compactions ring at once, a delay running on the device    *)
(* was charged for exactly the bytes of the job that rang last, and those  *)
(* bytes are what its completion will account.                             *)
THEOREM OffloadChargedForOwner == Spec => []ChargedForOwner
<1>1. OffloadInv => ChargedForOwner
  BY DEF OffloadInv
<1> QED
  BY <1>1, OffloadInvariant, PTL

(* A terminal STATUS always speaks of the job that rang last.              *)
THEOREM OffloadStatusOfOwner == Spec => []StatusOfOwner
<1>1. OffloadInv => StatusOfOwner
  BY DEF OffloadInv
<1> QED
  BY <1>1, OffloadInvariant, PTL

(* The doorbell and the worker's compaction are critical sections.         *)
THEOREM OffloadExclusive == Spec => [](DoorbellExclusive /\ WorkerExclusive)
<1>1. OffloadInv => DoorbellExclusive /\ WorkerExclusive
  BY DEF OffloadInv
<1> QED
  BY <1>1, OffloadInvariant, PTL

-----------------------------------------------------------------------------
(* A doorbell that was rung is either the last one, and its delay still    *)
(* runs, or it has been resolved.                                          *)
RungResolved ==
  /\ owner \in Jobs => busy \/ owner \in elapsed \cup cut
  /\ \A j \in Jobs : svcMmio /\ jpc[j] = "wait" => j = owner \/ j \in elapsed \cup cut

(* Steps that ring no doorbell and end no delay.                           *)
LEMMA QuietRung ==
  ASSUME RungResolved, UNCHANGED <<busy, owner, elapsed, cut, svcMmio>>,
         \A k \in Jobs : jpc'[k] = "wait" => jpc[k] = "wait" \/ ~svcMmio
  PROVE  RungResolved'
  BY DEF RungResolved

LEMMA RingResetRung ==
  ASSUME OffloadInv, RungResolved, NEW j \in Jobs, RingReset(j)
  PROVE  RungResolved'
<1>1. UNCHANGED <<owner, elapsed, svcMmio>> /\ cut \subseteq cut'
  BY DEF RingReset, modeVars
<1>2. owner \in Jobs => owner \in elapsed \cup cut'
  <2>1. CASE Dev!scheduled
    BY <2>1 DEF RingReset
  <2>2. CASE ~Dev!scheduled
    BY <2>2, <1>1 DEF OffloadInv, Dev!EventIffBusy, RungResolved
  <2> QED
    BY <2>1, <2>2
<1>3. \A k \in Jobs : jpc'[k] = "wait" => jpc[k] = "wait"
  BY DEF RingReset, GoTo, OffloadInv, OffloadTypeOK
<1> QED
  BY <1>1, <1>2, <1>3 DEF RungResolved

(* Ringing finds the device idle, so the job that rang before is resolved. *)
LEMMA RingSubmitRung ==
  ASSUME OffloadInv, RungResolved, NEW j \in Jobs, RingSubmit(j)
  PROVE  RungResolved'
<1>1. ~busy
  BY DEF RingSubmit, GoTo, OffloadInv, RegistersOfDoorbell, InDoorbell
<1>2. busy' \/ statusReg' = Dev!STATUS_ERROR
  BY <1>1, SubmitStore, DevSubmit DEF RingSubmit, OffloadInv, OffloadTypeOK, DevInv
<1>3. owner' = j /\ elapsed \subseteq elapsed' /\ UNCHANGED <<cut, svcMmio>>
  BY DEF RingSubmit, modeVars
<1>4. busy' \/ j \in elapsed'
  BY <1>2 DEF RingSubmit
<1>5. \A k \in Jobs \ {j} : jpc'[k] = jpc[k]
  BY DEF RingSubmit, GoTo, OffloadInv, OffloadTypeOK
<1> QED
  BY <1>1, <1>3, <1>4, <1>5 DEF RungResolved

LEMMA OffloadRungStep == OffloadInv /\ RungResolved /\ [Next]_vars => RungResolved'
<1> SUFFICES ASSUME OffloadInv, RungResolved, [Next]_vars PROVE RungResolved'
  OBVIOUS
<1>0. jpc \in [Jobs -> JobStates]
  BY DEF OffloadInv, OffloadTypeOK
<1>1. ASSUME NEW j \in Jobs, \/ Start(j) \/ Connect(j) \/ ConnectFails(j)
                             \/ SendJob(j) \/ SendFails(j) \/ Wait(j)
                             \/ RecvError(j) \/ Finish(j)
      PROVE  RungResolved'
  <2>1. UNCHANGED <<devVars, histVars, modeVars>>
    BY <1>1 DEF Start, Connect, ConnectFails, SendJob, SendFails, Wait, WaitSucceeds,
       WaitReportsFailure, WaitLosesWorker, RecvError, Finish, Install, ResultUnreadable,
       RenameFails, CompactLocally
  <2>2. \A k \in Jobs : jpc'[k] = "wait" => jpc[k] = "wait" \/ ~svcMmio
    BY <1>0, <1>1 DEF GoTo, Start, Connect, ConnectFails, SendJob, SendFails, Wait,
       WaitSucceeds, WaitReportsFailure, WaitLosesWorker, RecvError, Finish, Install,
       ResultUnreadable, RenameFails, CompactLocally
  <2> QED
    BY <2>1, <2>2, QuietRung DEF devVars, histVars, modeVars
<1>2. ASSUME NEW j \in Jobs, RingSrc(j) \/ RingDst(j) PROVE RungResolved'
  <2>1. size[j] \in Dev!Word
    BY DEF OffloadInv, OffloadTypeOK
  <2>2. UNCHANGED <<busy, histVars, modeVars>>
    BY <1>2, <2>1, SrcStore, DstStore DEF RingSrc, RingDst
  <2>3. \A k \in Jobs : jpc'[k] = "wait" => jpc[k] = "wait"
    BY <1>0, <1>2 DEF RingSrc, RingDst, GoTo
  <2> QED
    BY <2>2, <2>3, QuietRung DEF histVars, modeVars
<1>3. ASSUME UNCHANGED <<devVars, jobVars, histVars, modeVars>> PROVE RungResolved'
  BY <1>3, QuietRung DEF devVars, jobVars, histVars, modeVars
<1>4. ASSUME NEW j \in Jobs, HandleJob(j)
      PROVE  UNCHANGED <<devVars, jobVars, histVars, modeVars>>
  BY <1>4 DEF HandleJob, Accept, RecvJob, RecvFails, EnsureSecondary, Fallback,
     Compact, CompactFails, Poll, Reply, Respond
<1>5. ASSUME Listen \/ Crash \/ UNCHANGED vars
      PROVE  UNCHANGED <<devVars, jobVars, histVars, modeVars>>
  BY <1>5 DEF Listen, Crash, vars
<1>6. CASE DeviceTick
  BY <1>6, DevTick, QuietRung
     DEF DeviceTick, OffloadInv, OffloadTypeOK, DevInv, jobVars, histVars, modeVars
<1>7. CASE DeviceCompletes
  BY <1>7 DEF DeviceCompletes, RungResolved, jobVars, modeVars
<1> QED
  BY <1>1, <1>2, <1>3, <1>4, <1>5, <1>6, <1>7, RingResetRung, RingSubmitRung
     DEF Next, Device, AllOver, JobThread, Schedule

(* pnm_unit_main.cc:245-253: however many jobs ring, a worker that polls   *)
(* after its own doorbell is never answered with an earlier job's status.  *)
THEOREM OffloadPollSeesOwnDelay == Spec => []PollSeesOwnDelay
<1>1. Init => RungResolved
  BY WordFacts DEF Init, RungResolved
<1>2. OffloadInv /\ RungResolved => PollSeesOwnDelay
  BY DEF OffloadInv, StatusOfOwner, RungResolved, PollSeesOwnDelay
<1> QED
  BY <1>1, <1>2, OffloadInvariant, OffloadRungStep, PTL DEF Spec

-----------------------------------------------------------------------------
(* The device's statistics.                                                *)

(* A job rings once, and what it asked for is fixed from then on; while    *)
(* its delay runs it has not been counted yet.                             *)
AfterDoorbell == {"wait", "result", "local"} \cup Terminal

CountedOnce ==
  /\ \A j \in elapsed : jpc[j] \in AfterDoorbell
  /\ owner \in Jobs => jpc[owner] \in AfterDoorbell
  /\ busy => owner \notin elapsed

(* The only step that moves BYTES_PROC and JOBS_DONE adds one job that was *)
(* not counted before, with the bytes its doorbell asked for; no step      *)
(* changes what a counted job asked for, or forgets it.                    *)
AccountStep ==
  /\ elapsed \subseteq elapsed'
  /\ \A j \in elapsed : size'[j] = size[j]
  /\ \/ UNCHANGED <<bytesProcessed, jobsCompleted>> /\ Counted' = Counted
     \/ \E j \in Jobs \ Counted :
          /\ Counted' = Counted \cup {j}
          /\ bytesProcessed' = bytesProcessed + Charge(j)
          /\ jobsCompleted' = jobsCompleted + 1
          /\ size' = size

(* Steps that leave the device's flag, its statistics and the history      *)
(* alone, and the size of every job that has rung.                         *)
LEMMA QuietAccount ==
  ASSUME OffloadInv, CountedOnce,
         UNCHANGED <<busy, bytesProcessed, jobsCompleted, owner, elapsed>>,
         \A k \in Jobs : jpc[k] \in AfterDoorbell =>
                           jpc'[k] \in AfterDoorbell /\ size'[k] = size[k]
  PROVE  CountedOnce' /\ AccountStep
<1>1. elapsed \subseteq Jobs
  BY DEF OffloadInv, OffloadTypeOK
<1>2. CountedOnce'
  BY <1>1 DEF CountedOnce
<1>3. \A k \in elapsed : size'[k] = size[k]
  BY <1>1 DEF CountedOnce
<1>4. Counted' = Counted
  BY <1>3 DEF Counted
<1> QED
  BY <1>2, <1>3, <1>4 DEF AccountStep

(* The reset of a doorbell computes the size of a job that has not rung.   *)
LEMMA RingResetAccount ==
  ASSUME OffloadInv, CountedOnce, NEW j \in Jobs, RingReset(j)
  PROVE  CountedOnce' /\ AccountStep
<1>1. jpc \in [Jobs -> JobStates] /\ size \in [Jobs -> Dev!Word]
  BY DEF OffloadInv, OffloadTypeOK
<1>2. jpc[j] = "reset" /\ jpc' = [jpc EXCEPT ![j] = "src"]
  BY DEF RingReset, GoTo
<1>3. \A k \in Jobs : jpc[k] \in AfterDoorbell =>
                        jpc'[k] \in AfterDoorbell /\ size'[k] = size[k]
  BY <1>1, <1>2 DEF RingReset, AfterDoorbell, Terminal
<1>4. Dev!Reset
  BY ResetStore DEF RingReset
<1>5. UNCHANGED <<bytesProcessed, jobsCompleted, owner, elapsed>> /\ busy' = FALSE
  BY <1>4 DEF RingReset, Dev!Reset, Dev!statVars
<1>6. elapsed \subseteq Jobs
  BY DEF OffloadInv, OffloadTypeOK
<1>7. CountedOnce'
  BY <1>3, <1>5, <1>6 DEF CountedOnce
<1>8. \A k \in elapsed : size'[k] = size[k]
  BY <1>3, <1>6 DEF CountedOnce
<1>9. Counted' = Counted
  BY <1>5, <1>8 DEF Counted
<1> QED
  BY <1>5, <1>7, <1>8, <1>9 DEF AccountStep

(* A submit starts a delay that is not counted yet, or is refused for a    *)
(* size that never is.                                                     *)
LEMMA RingSubmitAccount ==
  ASSUME OffloadInv, CountedOnce, NEW j \in Jobs, RingSubmit(j)
  PROVE  CountedOnce' /\ AccountStep
<1>1. jpc \in [Jobs -> JobStates] /\ elapsed \subseteq Jobs
  BY DEF OffloadInv, OffloadTypeOK
<1>2. jpc[j] = "submit" /\ jpc' = [jpc EXCEPT ![j] = "wait"]
  BY DEF RingSubmit, GoTo
<1>3. j \notin elapsed
  BY <1>2 DEF CountedOnce, AfterDoorbell, Terminal
<1>4. ~busy /\ srcBytesReg = size[j]
  BY <1>2 DEF OffloadInv, RegistersOfDoorbell, InDoorbell
<1>5. Dev!Submit
  BY SubmitStore DEF RingSubmit
<1>6. /\ UNCHANGED <<bytesProcessed, jobsCompleted, size>>
      /\ \/ ~busy' /\ statusReg' = Dev!STATUS_ERROR /\ srcBytesReg > MaxJobBytes
         \/ busy' /\ statusReg' = Dev!STATUS_BUSY
  BY <1>4, <1>5 DEF RingSubmit, Dev!Submit, Dev!SubmitWhileBusy, Dev!SubmitTooLarge,
                    Dev!SubmitAccepted, Dev!statVars
<1>7. /\ owner' = j
      /\ \/ ~busy' /\ elapsed' = elapsed \cup {j} /\ size[j] > MaxJobBytes
         \/ busy' /\ elapsed' = elapsed
  BY <1>4, <1>6 DEF RingSubmit, Dev!STATUS_ERROR, Dev!STATUS_BUSY
<1>8. \A k \in elapsed \cup {j} : jpc'[k] \in AfterDoorbell
  BY <1>1, <1>2 DEF CountedOnce, AfterDoorbell
<1>9. CountedOnce'
  BY <1>3, <1>7, <1>8 DEF CountedOnce
<1>10. Counted' = Counted
  <2>1. size[j] \in Nat /\ MaxJobBytes \in Nat
    BY WordFacts, OffloadDeviceAssumption DEF OffloadInv, OffloadTypeOK, Dev!Word,
                                              Dev!DeviceAssumption
  <2>2. size' = size
    BY <1>6
  <2> QED
    BY <1>7, <2>1, <2>2 DEF Counted
<1> QED
  BY <1>6, <1>7, <1>9, <1>10 DEF AccountStep

(* The completion counts the job that rang last, with its own bytes.       *)
LEMMA DeviceCompletesAccount ==
  ASSUME OffloadInv, CountedOnce, DeviceCompletes
  PROVE  CountedOnce' /\ AccountStep
<1>1. busy /\ ~busy'
  BY DevComplete DEF DeviceCompletes, OffloadInv, OffloadTypeOK, DevInv
<1>2. /\ owner \in Jobs /\ owner \notin elapsed
      /\ size[owner] <= MaxJobBytes /\ Dev!TotalBytes = Charge(owner)
  BY <1>1 DEF OffloadInv, ChargedForOwner, CountedOnce
<1>3. /\ elapsed' = elapsed \cup {owner}
      /\ UNCHANGED <<jpc, size, owner>>
      /\ bytesProcessed' = bytesProcessed + Charge(owner)
      /\ jobsCompleted' = jobsCompleted + 1
  BY <1>2 DEF DeviceCompletes, Dev!onComplete, jobVars
<1>4. CountedOnce'
  BY <1>1, <1>2, <1>3 DEF CountedOnce
<1>5. Counted' = Counted \cup {owner} /\ owner \in Jobs \ Counted
  BY <1>2, <1>3 DEF Counted
<1> QED
  BY <1>3, <1>4, <1>5 DEF AccountStep

LEMMA OffloadAccountStep ==
  OffloadInv /\ CountedOnce /\ [Next]_vars => CountedOnce' /\ AccountStep
<1> SUFFICES ASSUME OffloadInv, CountedOnce, [Next]_vars
             PROVE  CountedOnce' /\ AccountStep
  OBVIOUS
<1>0. jpc \in [Jobs -> JobStates]
  BY DEF OffloadInv, OffloadTypeOK
<1>1. ASSUME NEW j \in Jobs, \/ Start(j) \/ Connect(j) \/ ConnectFails(j)
                             \/ SendJob(j) \/ SendFails(j) \/ Wait(j)
                             \/ RecvError(j) \/ Finish(j)
      PROVE  CountedOnce' /\ AccountStep
  <2>1. UNCHANGED <<devVars, histVars, size>>
    BY <1>1 DEF Start, Connect, ConnectFails, SendJob, SendFails, Wait, WaitSucceeds,
       WaitReportsFailure, WaitLosesWorker, RecvError, Finish, Install, ResultUnreadable,
       RenameFails, CompactLocally
  <2>2. \A k \in Jobs : jpc[k] \in AfterDoorbell => jpc'[k] \in AfterDoorbell
    BY <1>0, <1>1 DEF GoTo, Start, Connect, ConnectFails, SendJob, SendFails, Wait,
       WaitSucceeds, WaitReportsFailure, WaitLosesWorker, RecvError, Finish, Install,
       ResultUnreadable, RenameFails, CompactLocally, AfterDoorbell, Terminal
  <2> QED
    BY <2>1, <2>2, QuietAccount DEF devVars, histVars
<1>2. ASSUME NEW j \in Jobs, RingSrc(j) \/ RingDst(j)
      PROVE  CountedOnce' /\ AccountStep
  <2>1. size[j] \in Dev!Word
    BY DEF OffloadInv, OffloadTypeOK
  <2>2. UNCHANGED <<busy, bytesProcessed, jobsCompleted, histVars, size>>
    BY <1>2, <2>1, SrcStore, DstStore DEF RingSrc, RingDst
  <2>3. \A k \in Jobs : jpc[k] \in AfterDoorbell => jpc'[k] \in AfterDoorbell
    BY <1>0, <1>2 DEF RingSrc, RingDst, GoTo, AfterDoorbell, Terminal
  <2> QED
    BY <2>2, <2>3, QuietAccount DEF histVars
<1>3. ASSUME UNCHANGED <<devVars, jobVars, histVars>>
      PROVE  CountedOnce' /\ AccountStep
  BY <1>3, QuietAccount DEF devVars, jobVars, histVars
<1>4. ASSUME NEW j \in Jobs, HandleJob(j) PROVE UNCHANGED <<devVars, jobVars, histVars>>
  BY <1>4 DEF HandleJob, Accept, RecvJob, RecvFails, EnsureSecondary, Fallback,
     Compact, CompactFails, Poll, Reply, Respond
<1>5. ASSUME Listen \/ Crash \/ UNCHANGED vars
      PROVE  UNCHANGED <<devVars, jobVars, histVars>>
  BY <1>5 DEF Listen, Crash, vars
<1>6. CASE DeviceTick
  <2>1. UNCHANGED <<busy, bytesProcessed, jobsCompleted, jobVars, histVars>>
    BY <1>6 DEF DeviceTick, Dev!Tick, Dev!statVars
  <2> QED
    BY <2>1, QuietAccount DEF jobVars, histVars
<1> QED
  BY <1>1, <1>2, <1>3, <1>4, <1>5, <1>6, RingResetAccount, RingSubmitAccount,
     DeviceCompletesAccount DEF Next, Device, AllOver, JobThread, Schedule

LEMMA OffloadCountedOnce == Spec => []CountedOnce
<1>1. Init => CountedOnce
  BY WordFacts, OffloadAssumption DEF Init, CountedOnce, Dev!Init
<1> QED
  BY <1>1, OffloadInvariant, OffloadAccountStep, PTL DEF Spec

(* pnm_compactor.cc:194-195: however many jobs run, are refused or are     *)
(* reset, BYTES_PROC and JOBS_DONE move only when one more job's delay has *)
(* passed, by that job's bytes and by one, and no job is counted twice.    *)
THEOREM OffloadCountsEachJobOnce == Spec => [][AccountStep]_vars
<1>1. OffloadInv /\ CountedOnce /\ [Next]_vars => [AccountStep]_vars
  BY OffloadAccountStep
<1> QED
  BY <1>1, OffloadInvariant, OffloadCountedOnce, PTL DEF Spec

LEMMA ChargeTyped == ASSUME OffloadTypeOK, NEW j \in Jobs PROVE Charge(j) \in Nat
<1>1. size[j] \in Nat
  BY WordFacts DEF OffloadTypeOK
<1>2. size[j] + size[j] \in Nat
  BY <1>1
<1> QED
  BY <1>2, WordFacts, ModBound DEF Charge

(* A completion is a new last line of the ledger.                          *)
LEMMA AccountedStep ==
  ASSUME OffloadTypeOK, BytesAccounted, AccountStep
  PROVE  BytesAccounted'
<1> DEFINE n == jobsCompleted
<1>1. n \in Nat /\ bytesProcessed \in Nat
  BY DEF OffloadTypeOK, Dev!TypeOK
<1>2. PICK job \in [1 .. n -> Jobs], total \in [0 .. n -> 0 .. bytesProcessed] :
        /\ Counted = {job[i] : i \in 1 .. n}
        /\ \A i, k \in 1 .. n : job[i] = job[k] => i = k
        /\ total[0] = 0
        /\ \A i \in 1 .. n : total[i] = total[i - 1] + Charge(job[i])
        /\ total[n] = bytesProcessed
  BY DEF BytesAccounted
<1>3. \A i \in 1 .. n : job[i] \in elapsed
  BY <1>2 DEF Counted
<1>4. \A i \in 1 .. n : Charge(job[i])' = Charge(job[i])
  BY <1>3 DEF AccountStep, Charge
<1>5. CASE UNCHANGED <<bytesProcessed, jobsCompleted>> /\ Counted' = Counted
  <2>1. \A i \in 1 .. n : total[i] = total[i - 1] + Charge(job[i])'
    BY <1>2, <1>4
  <2> QED
    BY <1>2, <1>5, <2>1 DEF BytesAccounted
<1>6. ASSUME NEW j \in Jobs \ Counted,
             Counted' = Counted \cup {j},
             bytesProcessed' = bytesProcessed + Charge(j),
             jobsCompleted' = n + 1,
             size' = size
      PROVE  BytesAccounted'
  <2>1. Charge(j) \in Nat /\ Charge(j)' = Charge(j)
    BY <1>6, ChargeTyped DEF Charge
  <2>2. PICK job2 \in [1 .. n + 1 -> Jobs] :
          job2[n + 1] = j /\ \A i \in 1 .. n : job2[i] = job[i]
    <3> DEFINE f == [i \in 1 .. n + 1 |-> IF i = n + 1 THEN j ELSE job[i]]
    <3>1. f \in [1 .. n + 1 -> Jobs] /\ f[n + 1] = j /\ \A i \in 1 .. n : f[i] = job[i]
      BY <1>1
    <3> QED
      BY <3>1
  <2>3. PICK total2 \in [0 .. n + 1 -> 0 .. bytesProcessed + Charge(j)] :
          /\ total2[n + 1] = bytesProcessed + Charge(j)
          /\ \A i \in 0 .. n : total2[i] = total[i]
    <3> DEFINE g == [i \in 0 .. n + 1 |-> IF i = n + 1 THEN bytesProcessed + Charge(j)
                                                      ELSE total[i]]
    <3>1. /\ g \in [0 .. n + 1 -> 0 .. bytesProcessed + Charge(j)]
          /\ g[n + 1] = bytesProcessed + Charge(j)
          /\ \A i \in 0 .. n : g[i] = total[i]
      BY <1>1, <2>1
    <3> QED
      BY <3>1
  <2>4. Counted' = {job2[i] : i \in 1 .. n + 1}
    <3>1. \A i \in 1 .. n + 1 : i \in 1 .. n \/ i = n + 1
      BY <1>1
    <3>2. 1 .. n \subseteq 1 .. n + 1 /\ n + 1 \in 1 .. n + 1
      BY <1>1
    <3> QED
      BY <1>2, <1>6, <2>2, <3>1, <3>2
  <2>5. \A i, k \in 1 .. n + 1 : job2[i] = job2[k] => i = k
    <3>1. \A i \in 1 .. n : job[i] # j
      BY <1>2, <1>6
    <3>2. \A i \in 1 .. n + 1 : i \in 1 .. n \/ i = n + 1
      BY <1>1
    <3> QED
      BY <1>2, <2>2, <3>1, <3>2
  <2>6. total2[0] = 0
    BY <1>1, <1>2, <2>3
  <2>7. \A i \in 1 .. n + 1 : total2[i] = total2[i - 1] + Charge(job2[i])'
    <3> SUFFICES ASSUME NEW i \in 1 .. n + 1
                 PROVE  total2[i] = total2[i - 1] + Charge(job2[i])'
      OBVIOUS
    <3>1. CASE i \in 1 .. n
      <4>1. i - 1 \in 0 .. n /\ i \in 0 .. n
        BY <1>1, <3>1
      <4>2. Charge(job2[i])' = Charge(job[i])
        BY <1>6, <2>2, <3>1 DEF Charge
      <4> QED
        BY <1>2, <2>3, <3>1, <4>1, <4>2
    <3>2. CASE i = n + 1
      <4>1. i - 1 = n /\ n \in 0 .. n
        BY <1>1, <3>2
      <4>2. Charge(job2[i])' = Charge(j)
        BY <1>6, <2>2, <3>2 DEF Charge
      <4> QED
        BY <1>2, <2>3, <3>2, <4>1, <4>2
    <3> QED
      BY <1>1, <3>1, <3>2
  <2>8. total2[n + 1] = bytesProcessed'
    BY <1>6, <2>3
  <2>9. /\ job2 \in [1 .. jobsCompleted' -> Jobs]
        /\ total2 \in [0 .. jobsCompleted' -> 0 .. bytesProcessed']
        /\ Counted' = {job2[i] : i \in 1 .. jobsCompleted'}
        /\ \A i, k \in 1 .. jobsCompleted' : job2[i] = job2[k] => i = k
        /\ total2[0] = 0
        /\ \A i \in 1 .. jobsCompleted' : total2[i] = total2[i - 1] + Charge(job2[i])'
        /\ total2[jobsCompleted'] = bytesProcessed'
    BY <1>6, <2>2, <2>3, <2>4, <2>5, <2>6, <2>7, <2>8
  <2> QED
    BY <2>9 DEF BytesAccounted
<1> QED
  BY <1>5, <1>6 DEF AccountStep

LEMMA AccountedInit == Init => BytesAccounted
<1> SUFFICES ASSUME Init PROVE BytesAccounted
  OBVIOUS
<1> DEFINE job == [i \in 1 .. 0 |-> NoJob]
           total == [i \in 0 .. 0 |-> 0]
<1>1. jobsCompleted = 0 /\ bytesProcessed = 0 /\ Counted = {}
  BY DEF Init, Dev!Init, Counted
<1>2. job \in [1 .. 0 -> Jobs] /\ total \in [0 .. 0 -> 0 .. 0] /\ total[0] = 0
  OBVIOUS
<1>3. 1 .. 0 = {}
  OBVIOUS
<1> HIDE DEF job, total
<1> QED
  BY <1>1, <1>2, <1>3 DEF BytesAccounted

(* pnm_compactor.cc:194-195: BYTES_PROC is the sum of what the doorbells   *)
(* of the jobs whose delay passed asked for, each job once, and JOBS_DONE  *)
(* is their number, for any number of jobs and under every failure.        *)
THEOREM OffloadBytesAccounted == Spec => []BytesAccounted
<1>1. OffloadInv /\ CountedOnce /\ BytesAccounted /\ [Next]_vars => BytesAccounted'
  BY OffloadAccountStep, AccountedStep DEF OffloadInv
<1> QED
  BY <1>1, AccountedInit, OffloadInvariant, OffloadCountedOnce, PTL DEF Spec

=============================================================================
