------------------------------- MODULE Bridge -------------------------------
(***************************************************************************)
(* The IO bridge between the memory bus and the bus of the PNM device      *)
(* (gem5/src/mem/bridge.{hh,cc}), in timing mode: a bounded request queue  *)
(* towards the device, a response queue towards the CPU, a counter of the  *)
(* response slots reserved when a request is accepted, and a flag that     *)
(* remembers that a request was refused and its sender waits for a retry.  *)
(*                                                                         *)
(* Both peers are external.  A peer may refuse any packet and owes a retry *)
(* for it.  Some IO devices hand back the request itself instead of a      *)
(* response; the repository's patch to the bridge deals with those.        *)
(***************************************************************************)
EXTENDS Integers, Sequences, FiniteSets, Functions

CONSTANTS
  Packets,         \* requests that will be sent through the bridge
  NeedsResponse,   \* the ones with needsResponse(); the others are posted
  ReqLimit,        \* reqQueueLimit
  RespLimit        \* respQueueLimit

ASSUME BridgeAssumption ==
  /\ NeedsResponse \subseteq Packets
  /\ ReqLimit \in Nat \ {0}
  /\ RespLimit \in Nat \ {0}

VARIABLES
  pending,         \* packets the memory bus has not got accepted yet
  reqList,         \* memSidePort.transmitList
  reqSend,         \* "idle", "scheduled" (sendEvent) or "refused" (by the peer)
  atDevice,        \* packets on the far side
  respList,        \* cpuSidePort.transmitList, of [pkt, kind]
  respSend,        \* as reqSend
  outstandingResponses,
  retryReq,
  delivered        \* history: packets whose response reached the memory bus

vars == <<pending, reqList, reqSend, atDevice, respList, respSend,
          outstandingResponses, retryReq, delivered>>

SendStates == {"idle", "scheduled", "refused"}

reqQueueFull  == Len(reqList) = ReqLimit
respQueueFull == outstandingResponses = RespLimit

Init ==
  /\ pending = Packets
  /\ reqList = <<>> /\ reqSend = "idle"
  /\ atDevice = {}
  /\ respList = <<>> /\ respSend = "idle"
  /\ outstandingResponses = 0
  /\ retryReq = FALSE
  /\ delivered = {}

-----------------------------------------------------------------------------
(* schedTimingReq and schedTimingResp: the send event is scheduled only by *)
(* the packet that becomes the head of an empty queue.                     *)
Scheduled(list, send) == IF list = <<>> THEN "scheduled" ELSE send

(* BridgeResponsePort::recvTimingReq.                                      *)
AcceptReq(p) ==
  /\ p \in pending /\ ~retryReq
  /\ ~reqQueueFull
  /\ p \in NeedsResponse => ~respQueueFull
  /\ outstandingResponses' = outstandingResponses
                             + (IF p \in NeedsResponse THEN 1 ELSE 0)
  /\ pending' = pending \ {p}
  /\ reqSend' = Scheduled(reqList, reqSend)
  /\ reqList' = Append(reqList, p)
  /\ UNCHANGED <<atDevice, respList, respSend, retryReq, delivered>>

StallReq(p) ==
  /\ p \in pending /\ ~retryReq
  /\ reqQueueFull \/ (p \in NeedsResponse /\ respQueueFull)
  /\ retryReq' = TRUE
  /\ UNCHANGED <<pending, reqList, reqSend, atDevice, respList, respSend,
                 outstandingResponses, delivered>>

(* A CPU that sends again without waiting for the retry is turned away.    *)
RefuseWhileStalled(p) ==
  /\ p \in pending /\ retryReq
  /\ UNCHANGED vars

recvTimingReq(p) == AcceptReq(p) \/ StallReq(p) \/ RefuseWhileStalled(p)

(* Mutant: nothing is scheduled for the next packet.                       *)
NextSend_Never(list) == "idle"

(* The head leaves a queue: the event is scheduled again for the next one. *)
NextSend(list) == IF Len(list) > 1 THEN "scheduled" ELSE "idle"

(* Mutant: retryStalledReq is not called.                                  *)
ReqSent_NoRetry ==
  /\ reqSend # "idle"
  /\ atDevice' = atDevice \cup {Head(reqList)}
  /\ reqSend' = NextSend(reqList)
  /\ reqList' = Tail(reqList)
  /\ UNCHANGED <<pending, respList, respSend, outstandingResponses, retryReq,
                 delivered>>

(* BridgeRequestPort::trySendTiming, called by the event or by the peer's  *)
(* retry.  After a success retryStalledReq wakes a stalled sender, which   *)
(* may be stalled again.                                                   *)
ReqSent ==
  /\ reqSend # "idle"
  /\ atDevice' = atDevice \cup {Head(reqList)}
  /\ reqSend' = NextSend(reqList)
  /\ reqList' = Tail(reqList)
  /\ retryReq' = FALSE
  /\ UNCHANGED <<pending, respList, respSend, outstandingResponses, delivered>>

ReqRefused ==
  /\ reqSend # "idle"
  /\ reqSend' = "refused"
  /\ UNCHANGED <<pending, reqList, atDevice, respList, respSend,
                 outstandingResponses, retryReq, delivered>>

(* The far side consumes a posted request.                                 *)
Consumed(p) ==
  /\ p \in atDevice \ NeedsResponse
  /\ atDevice' = atDevice \ {p}
  /\ UNCHANGED <<pending, reqList, reqSend, respList, respSend,
                 outstandingResponses, retryReq, delivered>>

(* Mutant: what the far side hands back is queued as it is.                *)
QueueResp_Unconverted(p, kind) ==
  /\ p \in atDevice
  /\ kind = "response" => p \in NeedsResponse
  /\ atDevice' = atDevice \ {p}
  /\ respSend' = Scheduled(respList, respSend)
  /\ respList' = Append(respList, [pkt |-> p, kind |-> kind])
  /\ UNCHANGED <<pending, reqList, reqSend, outstandingResponses, retryReq,
                 delivered>>

(* BridgeRequestPort::recvTimingResp.  The far side answers a request that *)
(* needs it, or hands back any request as it is: that one is turned into a *)
(* response if it needs one and deleted if it does not.                    *)
QueueResp(p, kind) ==
  /\ p \in atDevice \cap NeedsResponse
  /\ atDevice' = atDevice \ {p}
  /\ respSend' = Scheduled(respList, respSend)
  /\ respList' = Append(respList, [pkt |-> p, kind |-> "response"])
  /\ UNCHANGED <<pending, reqList, reqSend, outstandingResponses, retryReq,
                 delivered>>

DropOrphan(p, kind) ==
  /\ p \in atDevice \ NeedsResponse
  /\ kind = "request"
  /\ atDevice' = atDevice \ {p}
  /\ UNCHANGED <<pending, reqList, reqSend, respList, respSend,
                 outstandingResponses, retryReq, delivered>>

recvTimingResp(p, kind) == QueueResp(p, kind) \/ DropOrphan(p, kind)

(* BridgeResponsePort::trySendTiming.  A head that is no response is made  *)
(* one, or discarded when it cannot be; both free its slot and wake a      *)
(* stalled sender if the request queue has room.                           *)
Deliverable(e) == e.kind = "response" \/ e.pkt \in NeedsResponse

(* Mutant: a freed response slot wakes nobody.                             *)
RespSent_NoRetry ==
  /\ respSend # "idle"
  /\ delivered' = IF Deliverable(Head(respList))
                  THEN delivered \cup {Head(respList).pkt} ELSE delivered
  /\ respSend' = NextSend(respList)
  /\ respList' = Tail(respList)
  /\ outstandingResponses' = outstandingResponses - 1
  /\ UNCHANGED <<pending, reqList, reqSend, atDevice, retryReq>>

RespSent ==
  /\ respSend # "idle"
  /\ delivered' = IF Deliverable(Head(respList))
                  THEN delivered \cup {Head(respList).pkt} ELSE delivered
  /\ respSend' = NextSend(respList)
  /\ respList' = Tail(respList)
  /\ outstandingResponses' = outstandingResponses - 1
  /\ retryReq' = (retryReq /\ reqQueueFull)
  /\ UNCHANGED <<pending, reqList, reqSend, atDevice>>

RespRefused ==
  /\ respSend # "idle"
  /\ Deliverable(Head(respList))
  /\ respSend' = "refused"
  /\ UNCHANGED <<pending, reqList, reqSend, atDevice, respList,
                 outstandingResponses, retryReq, delivered>>

(* Every packet went through: the only state the bridge may rest in.       *)
Quiet ==
  /\ pending = {} /\ atDevice = {}
  /\ reqSend = "idle" /\ respSend = "idle"
  /\ UNCHANGED vars

Kinds == {"response", "request"}

Next ==
  \/ \E p \in Packets : recvTimingReq(p) \/ Consumed(p)
  \/ \E p \in Packets, kind \in Kinds : recvTimingResp(p, kind)
  \/ ReqSent \/ ReqRefused \/ RespSent \/ RespRefused \/ Quiet

(* Senders send again when they are told to, devices answer, the event     *)
(* queue runs, and a peer that is tried again and again accepts at last.   *)
Answered(p) ==
  Consumed(p) \/ \E kind \in Kinds : recvTimingResp(p, kind)

Fairness ==
  /\ \A p \in Packets : WF_vars(recvTimingReq(p)) /\ WF_vars(Answered(p))
  /\ SF_vars(ReqSent) /\ SF_vars(RespSent)

Spec == Init /\ [][Next]_vars /\ Fairness

-----------------------------------------------------------------------------
(* The bridge's state has its type.                                        *)
BridgeTypeOK ==
  /\ pending \subseteq Packets
  /\ reqList \in Seq(Packets)
  /\ reqSend \in SendStates
  /\ atDevice \subseteq Packets
  /\ respList \in Seq([pkt : Packets, kind : Kinds])
  /\ respSend \in SendStates
  /\ outstandingResponses \in 0 .. RespLimit
  /\ retryReq \in BOOLEAN
  /\ delivered \subseteq Packets

(* Every reserved slot belongs to one request that still needs its         *)
(* response, wherever it is, so a response that arrives always has room    *)
(* ("we are guaranteed to have space", recvTimingResp) and the counter is  *)
(* never decremented at zero; packets the patch deletes never held a slot  *)
(* and never reach the response queue.                                     *)
SlotsMatchRequests ==
  /\ outstandingResponses =
       Cardinality(NeedsResponse \cap (Range(reqList) \cup atDevice))
       + Len(respList)
  /\ \A e \in Range(respList) :
       e.kind = "response" /\ e.pkt \in NeedsResponse

(* A queue with packets has its send event scheduled or is owed a retry by *)
(* the peer, an empty one neither: no packet is forgotten, sendEvent is    *)
(* never scheduled twice, and trySendTiming never runs on an empty queue.  *)
SendEventMatchesQueue ==
  /\ reqSend = "idle" <=> reqList = <<>>
  /\ respSend = "idle" <=> respList = <<>>

(* A sender is kept waiting only while one of the queues is still full:    *)
(* whichever of the two frees room last also sends the retry.              *)
StallHasReason == retryReq => reqQueueFull \/ respQueueFull

(* No sender waits for ever, and no request that needs a response goes     *)
(* without it: every packet is accepted, and what needs one is answered.   *)
EveryPacketServed ==
  \A p \in Packets : <>(p \notin pending /\ (p \in NeedsResponse => p \in delivered))

=============================================================================
