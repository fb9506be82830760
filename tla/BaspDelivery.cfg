CONSTANTS
  Receivers = {r1}
  NoReceiver = NoReceiver
  MaxId = 3
  Workers = {w1, w2}
  Mpx = mpx
  Payloads <- Payload
  Mortal = {r1}
  Idle = Idle
SPECIFICATION Spec
INVARIANTS BDInv IdsAccounted OnlyAbandonedBlocks
PROPERTIES SingleThreaded EventuallyShipped
CHECK_DEADLOCK FALSE
