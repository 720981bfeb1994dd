SPECIFICATION Spec
CONSTANTS
  r1 = r1
  r2 = r2
  r3 = r3
  w1 = w1
  w2 = w2
  Packets <- MCPackets
  NeedsResponse <- MCReads
  ReqLimit = 2
  RespLimit = 2
INVARIANTS
  SlotsMatchRequests
  SendEventMatchesQueue
  StallHasReason
PROPERTY EveryPacketServed
