SPECIFICATION Spec
CONSTANTS
  Conns = {c1}
  TransportCounts = {1}
  Protected = FALSE
  HasMuxers = TRUE
  Identify = FALSE
  NestedCalls = {}
  NoConn = NoConn
CHECK_DEADLOCK FALSE
INVARIANT BaseIsReleased
