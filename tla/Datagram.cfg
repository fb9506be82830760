CONSTANTS
  Nodes = {n1, n2}
  NoNode = NoNode
  Endpoints = {e1}
  NoEndpoint = NoEndpoint
  Greets = TRUE
  max_consecutive_reads = 2
  max_header_bufs = 1
  max_payload_bufs = 1
  MaxPushes = 2
  MaxDatagrams = 2
  MaxWorkers = 2
SPECIFICATION Spec
INVARIANTS TypeOK NoLostWakeup InOrder
SYMMETRY Symmetry
CHECK_DEADLOCK FALSE
