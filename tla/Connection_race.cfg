SPECIFICATION Spec
CONSTANTS
  Conns = {c1, c2, c3}
  TransportCounts = {0, 1}
  Protected = TRUE
  HasMuxers = TRUE
  Identify = TRUE
  NestedCalls = {"dial", "hangUp"}
  NoConn = NoConn
CHECK_DEADLOCK FALSE
SYMMETRY Interchangeable
INVARIANTS TypeOK TrackedUntilDisconnected QueueIsResumed MuxEventsTell PeerIsConnected
