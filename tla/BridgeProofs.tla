---------------------------- MODULE BridgeProofs ----------------------------
(***************************************************************************)
(* Safety of the IO bridge for every set of packets and all queue limits.  *)
(*                                                                         *)
(* The counter of reserved slots is an integer that the code increments    *)
(* and decrements in different handlers; that it never goes below zero or  *)
(* above its limit follows only from SlotsMatchRequests.  To keep that one *)
(* across a step that moves a packet, the packet must be in one place at a *)
(* time, which is what OnePlace adds.                                      *)
(***************************************************************************)
EXTENDS Bridge, FiniteSetTheorems, SequenceTheorems, TLAPS

(* A packet waits outside, sits in the request queue once, or is at the    *)
(* device, and is in no two of these places.                               *)
OnePlace ==
  /\ \A i, k \in 1 .. Len(reqList) : reqList[i] = reqList[k] => i = k
  /\ Range(reqList) \cap atDevice = {}
  /\ pending \cap (Range(reqList) \cup atDevice) = {}

(* The requests that hold a slot on their way to a response.               *)
Slots == NeedsResponse \cap (Range(reqList) \cup atDevice)

(* BridgeTypeOK without the bounds of the slot counter.                    *)
Typed ==
  /\ pending \subseteq Packets
  /\ reqList \in Seq(Packets)
  /\ reqSend \in SendStates
  /\ atDevice \subseteq Packets
  /\ respList \in Seq([pkt : Packets, kind : Kinds])
  /\ respSend \in SendStates
  /\ outstandingResponses \in Int
  /\ outstandingResponses <= RespLimit
  /\ retryReq \in BOOLEAN
  /\ delivered \subseteq Packets

(* The inductive invariant of the bridge.                                  *)
BridgeInv ==
  /\ Typed
  /\ OnePlace
  /\ IsFiniteSet(Slots)
  /\ SlotsMatchRequests
  /\ SendEventMatchesQueue
  /\ StallHasReason

-----------------------------------------------------------------------------
(* What appending to a queue does to its set of packets.                   *)
LEMMA AppendRange ==
  ASSUME NEW S, NEW s \in Seq(S), NEW e \in S
  PROVE  /\ Append(s, e) \in Seq(S)
         /\ Append(s, e) # <<>>
         /\ Len(Append(s, e)) = Len(s) + 1
         /\ \A i \in 1 .. Len(s) : Append(s, e)[i] = s[i]
         /\ Append(s, e)[Len(s) + 1] = e
         /\ Range(Append(s, e)) = Range(s) \cup {e}
<1>1. /\ Append(s, e) \in Seq(S)
      /\ Append(s, e) # <<>>
      /\ Len(Append(s, e)) = Len(s) + 1
      /\ \A i \in 1 .. Len(s) : Append(s, e)[i] = s[i]
      /\ Append(s, e)[Len(s) + 1] = e
  OBVIOUS
<1>2. /\ DOMAIN s = 1 .. Len(s)
      /\ DOMAIN Append(s, e) = 1 .. Len(s) + 1
      /\ Len(s) \in Nat
  OBVIOUS
<1>3. Range(Append(s, e)) = Range(s) \cup {e}
  <2>1. ASSUME NEW x \in Range(Append(s, e)) PROVE x \in Range(s) \cup {e}
    <3>1. PICK i \in 1 .. Len(s) + 1 : x = Append(s, e)[i]
      BY <1>2 DEF Range
    <3>2. i \in 1 .. Len(s) \/ i = Len(s) + 1
      BY <1>2
    <3> QED BY <1>1, <1>2, <3>1, <3>2 DEF Range
  <2>2. ASSUME NEW x \in Range(s) \cup {e} PROVE x \in Range(Append(s, e))
    <3>1. CASE x = e
      <4>1. Len(s) + 1 \in DOMAIN Append(s, e)
        BY <1>2
      <4> QED BY <4>1, <1>1, <3>1 DEF Range
    <3>2. CASE x \in Range(s)
      <4>1. PICK i \in 1 .. Len(s) : x = s[i]
        BY <1>2, <3>2 DEF Range
      <4>2. i \in DOMAIN Append(s, e) /\ Append(s, e)[i] = x
        BY <1>1, <1>2, <4>1
      <4> QED BY <4>2 DEF Range
    <3> QED BY <3>1, <3>2, <2>2
  <2> QED BY <2>1, <2>2
<1> QED BY <1>1, <1>3

(* What taking the head of a nonempty queue does to its set of packets.    *)
LEMMA TailRange ==
  ASSUME NEW S, NEW s \in Seq(S), s # <<>>
  PROVE  /\ Head(s) \in S
         /\ Head(s) = s[1]
         /\ Tail(s) \in Seq(S)
         /\ Len(s) >= 1
         /\ Len(Tail(s)) = Len(s) - 1
         /\ Tail(s) = <<>> <=> Len(s) = 1
         /\ \A i \in 1 .. Len(s) - 1 : Tail(s)[i] = s[i + 1]
         /\ Range(s) = Range(Tail(s)) \cup {Head(s)}
<1>1. /\ Head(s) \in S /\ Head(s) = s[1]
      /\ Tail(s) \in Seq(S)
      /\ Len(s) \in Nat /\ Len(s) >= 1
      /\ Len(Tail(s)) = Len(s) - 1
      /\ Tail(s) = <<>> <=> Len(s) = 1
      /\ \A i \in 1 .. Len(s) - 1 : Tail(s)[i] = s[i + 1]
  <2>1. /\ Head(s) \in S
        /\ Tail(s) \in Seq(S)
        /\ Len(Tail(s)) = Len(s) - 1
        /\ \A i \in 1 .. Len(Tail(s)) : Tail(s)[i] = s[i + 1]
    BY HeadTailProperties
  <2>2. Len(s) \in Nat /\ Len(s) >= 1
    BY EmptySeq
  <2>3. Head(s) = s[1]
    OBVIOUS
  <2>4. Tail(s) = <<>> <=> Len(s) = 1
    BY <2>1, <2>2, EmptySeq
  <2> QED BY <2>1, <2>2, <2>3, <2>4
<1>2. DOMAIN s = 1 .. Len(s) /\ DOMAIN Tail(s) = 1 .. Len(s) - 1
  BY <1>1
<1>3. ASSUME NEW x \in Range(s) PROVE x \in Range(Tail(s)) \cup {Head(s)}
  <2>1. PICK i \in 1 .. Len(s) : x = s[i]
    BY <1>2 DEF Range
  <2>2. CASE i = 1
    BY <1>1, <2>1, <2>2
  <2>3. CASE i # 1
    <3>1. i - 1 \in 1 .. Len(s) - 1 /\ (i - 1) + 1 = i
      BY <1>1, <2>3
    <3>2. i - 1 \in DOMAIN Tail(s) /\ Tail(s)[i - 1] = x
      BY <1>1, <1>2, <2>1, <3>1
    <3> QED BY <3>2 DEF Range
  <2> QED BY <2>2, <2>3
<1>4. ASSUME NEW x \in Range(Tail(s)) \cup {Head(s)} PROVE x \in Range(s)
  <2>1. CASE x = Head(s)
    <3>1. 1 \in DOMAIN s /\ s[1] = x
      BY <1>1, <1>2, <2>1
    <3> QED BY <3>1 DEF Range
  <2>2. CASE x \in Range(Tail(s))
    <3>1. PICK i \in 1 .. Len(s) - 1 : x = Tail(s)[i]
      BY <1>2, <2>2 DEF Range
    <3>2. i + 1 \in DOMAIN s /\ s[i + 1] = x
      BY <1>1, <1>2, <3>1
    <3> QED BY <3>2 DEF Range
  <2> QED BY <1>4, <2>1, <2>2
<1> QED BY <1>1, <1>3, <1>4
-----------------------------------------------------------------------------
(* In the initial state nothing is in the bridge.                          *)
LEMMA BridgeInit == Init => BridgeInv
<1> SUFFICES ASSUME Init PROVE BridgeInv
  OBVIOUS
<1>1. reqList = <<>> /\ respList = <<>> /\ atDevice = {} /\ pending = Packets
  BY DEF Init
<1>2. Range(reqList) = {} /\ Range(respList) = {}
  BY <1>1 DEF Range
<1>3. Typed
  <2>1. reqList \in Seq(Packets) /\ respList \in Seq([pkt : Packets, kind : Kinds])
    BY <1>1, EmptySeq
  <2>2. outstandingResponses \in Int /\ outstandingResponses <= RespLimit
    BY BridgeAssumption DEF Init
  <2> QED BY <2>1, <2>2, Zenon DEF Init, Typed, SendStates
<1>4. OnePlace
  BY <1>1, <1>2 DEF OnePlace
<1>5. Slots = {} /\ IsFiniteSet(Slots) /\ Cardinality(Slots) = 0
  BY <1>1, <1>2, FS_EmptySet DEF Slots
<1>6. SlotsMatchRequests
  <2>1. outstandingResponses = 0 /\ Len(respList) = 0
    BY <1>1 DEF Init
  <2>2. outstandingResponses = Cardinality(Slots) + Len(respList)
    BY <1>5, <2>1
  <2> QED BY <1>2, <2>2 DEF SlotsMatchRequests, Slots
<1>7. SendEventMatchesQueue /\ StallHasReason
  BY DEF Init, SendEventMatchesQueue, StallHasReason
<1> QED BY <1>3, <1>4, <1>5, <1>6, <1>7 DEF BridgeInv

(* Accepting a request keeps the invariant: it fills one place in the      *)
(* queue and, if it needs a response, one slot.                            *)
LEMMA AcceptKeeps ==
  ASSUME BridgeInv, NEW p \in Packets, AcceptReq(p)
  PROVE  BridgeInv'
<1> USE DEF BridgeInv
<1>1. /\ reqList' = Append(reqList, p) /\ reqList \in Seq(Packets)
      /\ p \in pending /\ pending' = pending \ {p}
      /\ UNCHANGED <<atDevice, respList, respSend, retryReq, delivered>>
  BY DEF AcceptReq, Typed
<1>2. /\ reqList' \in Seq(Packets)
      /\ reqList' # <<>>
      /\ Len(reqList') = Len(reqList) + 1
      /\ \A i \in 1 .. Len(reqList) : reqList'[i] = reqList[i]
      /\ reqList'[Len(reqList) + 1] = p
      /\ Range(reqList') = Range(reqList) \cup {p}
  BY <1>1, AppendRange
<1>3. Len(reqList) \in Nat /\ DOMAIN reqList = 1 .. Len(reqList)
  BY <1>1
<1>4. p \notin Range(reqList) /\ p \notin atDevice
  BY <1>1 DEF OnePlace
<1>5. Typed'
  BY <1>1, <1>2, BridgeAssumption DEF AcceptReq, Typed, Scheduled, SendStates, respQueueFull
<1>6. OnePlace'
  <2>1. ASSUME NEW i \in 1 .. Len(reqList'), NEW k \in 1 .. Len(reqList'),
               reqList'[i] = reqList'[k]
        PROVE  i = k
    <3>1. \A n \in 1 .. Len(reqList) : reqList[n] # p
      BY <1>3, <1>4 DEF Range
    <3>2. /\ i \in 1 .. Len(reqList) \/ i = Len(reqList) + 1
          /\ k \in 1 .. Len(reqList) \/ k = Len(reqList) + 1
      BY <1>2, <1>3
    <3> QED BY <1>2, <2>1, <3>1, <3>2 DEF OnePlace
  <2>2. /\ Range(reqList') \cap atDevice' = {}
        /\ pending' \cap (Range(reqList') \cup atDevice') = {}
    BY <1>1, <1>2, <1>4 DEF OnePlace
  <2> QED BY <2>1, <2>2 DEF OnePlace
<1>7. /\ IsFiniteSet(Slots')
      /\ Cardinality(Slots')
           = Cardinality(Slots) + (IF p \in NeedsResponse THEN 1 ELSE 0)
      /\ Cardinality(Slots) \in Nat
  <2>1. Cardinality(Slots) \in Nat /\ p \notin Slots
    BY <1>4, FS_CardinalityType DEF Slots
  <2>2. CASE p \in NeedsResponse
    <3>1. Slots' = Slots \cup {p}
      BY <1>1, <1>2, <2>2 DEF Slots
    <3> QED BY <2>1, <2>2, <3>1, FS_AddElement
  <2>3. CASE p \notin NeedsResponse
    <3>1. Slots' = Slots
      BY <1>1, <1>2, <2>3 DEF Slots
    <3> QED BY <2>1, <2>3, <3>1
  <2> QED BY <2>2, <2>3
<1>8. SlotsMatchRequests'
  <2>1. outstandingResponses = Cardinality(Slots) + Len(respList)
    BY DEF SlotsMatchRequests, Slots
  <2>2. outstandingResponses' = outstandingResponses
                                + (IF p \in NeedsResponse THEN 1 ELSE 0)
    BY DEF AcceptReq
  <2>3. Len(respList) \in Nat /\ respList' = respList
    BY <1>1 DEF Typed
  <2>4. outstandingResponses' = Cardinality(Slots') + Len(respList')
    BY <1>7, <2>1, <2>2, <2>3
  <2> QED BY <2>3, <2>4 DEF SlotsMatchRequests, Slots
<1>9. SendEventMatchesQueue'
  BY <1>1, <1>2 DEF AcceptReq, SendEventMatchesQueue, Scheduled
<1>10. StallHasReason'
  BY <1>1 DEF AcceptReq, StallHasReason
<1> QED BY <1>5, <1>6, <1>7, <1>8, <1>9, <1>10

(* Sending the head of the request queue keeps the invariant: the packet   *)
(* takes its slot along to the device.                                     *)
LEMMA ReqSentKeeps ==
  ASSUME BridgeInv, ReqSent
  PROVE  BridgeInv'
<1> USE DEF BridgeInv
<1> DEFINE h == Head(reqList)
<1>1. /\ reqList # <<>> /\ reqList \in Seq(Packets)
      /\ reqList' = Tail(reqList)
      /\ atDevice' = atDevice \cup {h}
      /\ ~retryReq'
      /\ UNCHANGED <<pending, respList, respSend, outstandingResponses, delivered>>
  BY DEF ReqSent, Typed, SendEventMatchesQueue
<1>2. /\ h \in Packets
      /\ h = reqList[1]
      /\ reqList' \in Seq(Packets)
      /\ Len(reqList) >= 1
      /\ Len(reqList') = Len(reqList) - 1
      /\ reqList' = <<>> <=> Len(reqList) = 1
      /\ \A i \in 1 .. Len(reqList) - 1 : reqList'[i] = reqList[i + 1]
      /\ Range(reqList) = Range(reqList') \cup {h}
  BY <1>1, TailRange
<1>3. Len(reqList) \in Nat /\ DOMAIN reqList' = 1 .. Len(reqList) - 1
  BY <1>1, <1>2
<1>4. h \notin Range(reqList')
  <2>1. ASSUME NEW i \in 1 .. Len(reqList) - 1, reqList'[i] = h PROVE FALSE
    <3>1. /\ i + 1 \in 1 .. Len(reqList) /\ 1 \in 1 .. Len(reqList)
          /\ i + 1 # 1
      BY <1>2, <1>3
    <3>2. reqList[i + 1] = reqList[1]
      BY <1>2, <2>1
    <3> QED BY <3>1, <3>2 DEF OnePlace
  <2> QED BY <1>3, <2>1 DEF Range
<1>5. Typed'
  BY <1>1, <1>2 DEF ReqSent, Typed, NextSend, SendStates
<1>6. OnePlace'
  <2>1. ASSUME NEW i \in 1 .. Len(reqList'), NEW k \in 1 .. Len(reqList'),
               reqList'[i] = reqList'[k]
        PROVE  i = k
    <3>1. /\ i + 1 \in 1 .. Len(reqList) /\ reqList[i + 1] = reqList'[i]
          /\ k + 1 \in 1 .. Len(reqList) /\ reqList[k + 1] = reqList'[k]
      BY <1>2, <1>3
    <3>2. i + 1 = k + 1
      BY <2>1, <3>1 DEF OnePlace
    <3> QED BY <1>2, <1>3, <3>2
  <2>2. /\ Range(reqList') \cap atDevice' = {}
        /\ pending' \cap (Range(reqList') \cup atDevice') = {}
    BY <1>1, <1>2, <1>4 DEF OnePlace
  <2> QED BY <2>1, <2>2 DEF OnePlace
<1>7. Slots' = Slots
  BY <1>1, <1>2 DEF Slots
<1>8. SlotsMatchRequests' /\ IsFiniteSet(Slots')
  BY <1>1, <1>7 DEF SlotsMatchRequests, Slots
<1>9. SendEventMatchesQueue'
  BY <1>1, <1>2, <1>3 DEF ReqSent, SendEventMatchesQueue, NextSend
<1>10. StallHasReason'
  BY <1>1 DEF StallHasReason
<1> QED BY <1>5, <1>6, <1>8, <1>9, <1>10

(* A request that needs a response turns its slot into a place in the      *)
(* response queue.                                                         *)
LEMMA QueueRespKeeps ==
  ASSUME BridgeInv, NEW p \in Packets, NEW kind, QueueResp(p, kind)
  PROVE  BridgeInv'
<1> USE DEF BridgeInv
<1> DEFINE Elem == [pkt : Packets, kind : Kinds]
           e == [pkt |-> p, kind |-> "response"]
<1>1. /\ respList \in Seq(Elem) /\ respList' = Append(respList, e)
      /\ p \in atDevice /\ p \in NeedsResponse
      /\ atDevice' = atDevice \ {p}
      /\ UNCHANGED <<pending, reqList, reqSend, outstandingResponses, retryReq,
                     delivered>>
  BY DEF QueueResp, Typed
<1>2. e \in Elem
  BY DEF Kinds
<1>3. /\ respList' \in Seq(Elem)
      /\ respList' # <<>>
      /\ Len(respList') = Len(respList) + 1
      /\ Range(respList') = Range(respList) \cup {e}
  <2> HIDE DEF Elem, e
  <2> QED BY <1>1, <1>2, AppendRange
<1>4. Typed'
  BY <1>1, <1>3 DEF QueueResp, Typed, Scheduled, SendStates
<1>5. OnePlace'
  BY <1>1 DEF OnePlace
<1>6. /\ IsFiniteSet(Slots') /\ Cardinality(Slots') = Cardinality(Slots) - 1
      /\ Cardinality(Slots) \in Nat
  <2>1. p \in Slots /\ Slots' = Slots \ {p}
    BY <1>1 DEF Slots, OnePlace
  <2> QED BY <2>1, FS_RemoveElement, FS_CardinalityType
<1>7. SlotsMatchRequests'
  <2>1. outstandingResponses = Cardinality(Slots) + Len(respList)
    BY DEF SlotsMatchRequests, Slots
  <2>2. Len(respList) \in Nat
    BY <1>1
  <2>3. outstandingResponses' = Cardinality(Slots') + Len(respList')
    BY <1>1, <1>3, <1>6, <2>1, <2>2
  <2>4. \A x \in Range(respList') : x.kind = "response" /\ x.pkt \in NeedsResponse
    BY <1>1, <1>3 DEF SlotsMatchRequests
  <2> QED BY <2>3, <2>4 DEF SlotsMatchRequests, Slots
<1>8. SendEventMatchesQueue'
  BY <1>1, <1>3 DEF QueueResp, SendEventMatchesQueue, Scheduled
<1>9. StallHasReason'
  BY <1>1 DEF StallHasReason, reqQueueFull, respQueueFull
<1> QED BY <1>4, <1>5, <1>6, <1>7, <1>8, <1>9

(* Sending a response frees its slot and keeps a sender waiting only if    *)
(* the request queue is still full.                                        *)
LEMMA RespSentKeeps ==
  ASSUME BridgeInv, RespSent
  PROVE  BridgeInv'
<1> USE DEF BridgeInv
<1> DEFINE Elem == [pkt : Packets, kind : Kinds]
           h == Head(respList)
<1>1. /\ respList # <<>> /\ respList \in Seq(Elem)
      /\ respList' = Tail(respList)
      /\ outstandingResponses' = outstandingResponses - 1
      /\ retryReq' = (retryReq /\ reqQueueFull)
      /\ UNCHANGED <<pending, reqList, reqSend, atDevice>>
  BY DEF RespSent, Typed, SendEventMatchesQueue
<1>2. /\ h \in Elem
      /\ respList' \in Seq(Elem)
      /\ Len(respList) >= 1
      /\ Len(respList') = Len(respList) - 1
      /\ respList' = <<>> <=> Len(respList) = 1
      /\ Range(respList) = Range(respList') \cup {h}
  BY <1>1, TailRange
<1>3. Len(respList) \in Nat
  BY <1>1
<1>4. Slots' = Slots
  BY <1>1 DEF Slots
<1>5. Typed'
  <2>1. delivered' \subseteq Packets
    BY <1>2 DEF RespSent, Typed
  <2>2. retryReq' \in BOOLEAN
    BY <1>1
  <2> QED BY <1>1, <1>2, <2>1, <2>2, BridgeAssumption
          DEF RespSent, Typed, NextSend, SendStates
<1>6. OnePlace'
  BY <1>1 DEF OnePlace
<1>7. SlotsMatchRequests' /\ IsFiniteSet(Slots')
  <2>1. outstandingResponses = Cardinality(Slots) + Len(respList)
    BY DEF SlotsMatchRequests, Slots
  <2>2. Cardinality(Slots) \in Nat
    BY FS_CardinalityType
  <2>3. outstandingResponses' = Cardinality(Slots') + Len(respList')
    BY <1>1, <1>2, <1>3, <1>4, <2>1, <2>2
  <2>4. \A x \in Range(respList') : x.kind = "response" /\ x.pkt \in NeedsResponse
    BY <1>2 DEF SlotsMatchRequests
  <2> QED BY <1>4, <2>3, <2>4 DEF SlotsMatchRequests, Slots
<1>8. SendEventMatchesQueue'
  BY <1>1, <1>2, <1>3 DEF RespSent, SendEventMatchesQueue, NextSend
<1>9. StallHasReason'
  BY <1>1 DEF StallHasReason, reqQueueFull
<1> QED BY <1>5, <1>6, <1>7, <1>8, <1>9

(* The far side removes a posted request, which holds no slot.             *)
LEMMA PostedKeeps ==
  ASSUME BridgeInv, NEW p \in Packets,
         Consumed(p) \/ \E kind \in Kinds : DropOrphan(p, kind)
  PROVE  BridgeInv'
<1> USE DEF BridgeInv
<1>1. /\ p \notin NeedsResponse /\ atDevice' = atDevice \ {p}
      /\ UNCHANGED <<pending, reqList, reqSend, respList, respSend,
                     outstandingResponses, retryReq, delivered>>
  BY DEF Consumed, DropOrphan
<1>2. Slots' = Slots
  BY <1>1 DEF Slots
<1>3. Typed' /\ OnePlace'
  BY <1>1 DEF Typed, OnePlace
<1>4. SlotsMatchRequests' /\ IsFiniteSet(Slots')
  BY <1>1, <1>2 DEF SlotsMatchRequests, Slots
<1>5. SendEventMatchesQueue' /\ StallHasReason'
  BY <1>1 DEF SendEventMatchesQueue, StallHasReason, reqQueueFull, respQueueFull
<1> QED BY <1>3, <1>4, <1>5

(* The steps that move no packet.                                          *)
LEMMA OthersKeep ==
  ASSUME BridgeInv,
         \/ \E p \in Packets : StallReq(p)
         \/ ReqRefused
         \/ RespRefused
         \/ UNCHANGED vars
  PROVE  BridgeInv'
<1> USE DEF BridgeInv
<1>1. UNCHANGED <<pending, reqList, atDevice, respList, outstandingResponses,
                  delivered>>
  BY DEF StallReq, ReqRefused, RespRefused, vars
<1>2. Slots' = Slots
  BY <1>1 DEF Slots
<1>3. Typed'
  BY <1>1 DEF Typed, StallReq, ReqRefused, RespRefused, vars, SendStates
<1>4. OnePlace'
  BY <1>1 DEF OnePlace
<1>5. SlotsMatchRequests' /\ IsFiniteSet(Slots')
  BY <1>1, <1>2 DEF SlotsMatchRequests, Slots
<1>6. SendEventMatchesQueue'
  BY <1>1 DEF SendEventMatchesQueue, StallReq, ReqRefused, RespRefused, vars
<1>7. StallHasReason'
  BY <1>1 DEF StallHasReason, StallReq, ReqRefused, RespRefused, vars,
              reqQueueFull, respQueueFull
<1> QED BY <1>3, <1>4, <1>5, <1>6, <1>7

(* BridgeInv is an invariant of the bridge.                                *)
THEOREM BridgeInvariant == Spec => []BridgeInv
<1>1. ASSUME BridgeInv, [Next]_vars PROVE BridgeInv'
  <2>1. CASE \E p \in Packets : recvTimingReq(p)
    BY <1>1, <2>1, AcceptKeeps, OthersKeep
       DEF recvTimingReq, RefuseWhileStalled
  <2>2. CASE \E p \in Packets, kind \in Kinds : recvTimingResp(p, kind)
    BY <1>1, <2>2, QueueRespKeeps, PostedKeeps DEF recvTimingResp
  <2>3. CASE \E p \in Packets : Consumed(p)
    BY <1>1, <2>3, PostedKeeps
  <2>4. CASE ReqSent
    BY <1>1, <2>4, ReqSentKeeps
  <2>5. CASE RespSent
    BY <1>1, <2>5, RespSentKeeps
  <2>6. CASE ReqRefused \/ RespRefused \/ Quiet \/ UNCHANGED vars
    BY <1>1, <2>6, OthersKeep DEF Quiet
  <2> QED BY <1>1, <2>1, <2>2, <2>3, <2>4, <2>5, <2>6 DEF Next
<1> QED BY BridgeInit, <1>1, PTL DEF Spec

(* The bridge's state keeps its type; in particular the slot counter stays *)
(* between zero and its limit, so that neither assertion on it can fail.   *)
THEOREM BridgeTypeCorrect == Spec => []BridgeTypeOK
<1>1. BridgeInv => BridgeTypeOK
  <2> SUFFICES ASSUME BridgeInv PROVE BridgeTypeOK
    OBVIOUS
  <2>1. /\ outstandingResponses = Cardinality(Slots) + Len(respList)
        /\ Cardinality(Slots) \in Nat /\ Len(respList) \in Nat
    BY FS_CardinalityType DEF BridgeInv, SlotsMatchRequests, Slots, Typed
  <2>2. outstandingResponses \in 0 .. RespLimit
    BY <2>1, BridgeAssumption DEF BridgeInv, Typed
  <2> QED BY <2>2 DEF BridgeInv, Typed, BridgeTypeOK
<1> QED BY <1>1, BridgeInvariant, PTL

(* Every reserved slot belongs to one request that still needs it.         *)
THEOREM BridgeSlots == Spec => []SlotsMatchRequests
<1>1. BridgeInv => SlotsMatchRequests
  BY DEF BridgeInv
<1> QED BY <1>1, BridgeInvariant, PTL

(* A queue is never left without an event or a retry that will serve it.   *)
THEOREM BridgeSendEvents == Spec => []SendEventMatchesQueue
<1>1. BridgeInv => SendEventMatchesQueue
  BY DEF BridgeInv
<1> QED BY <1>1, BridgeInvariant, PTL

(* A sender is kept waiting only while a queue is full.                    *)
THEOREM BridgeStalls == Spec => []StallHasReason
<1>1. BridgeInv => StallHasReason
  BY DEF BridgeInv
<1> QED BY <1>1, BridgeInvariant, PTL
=============================================================================
