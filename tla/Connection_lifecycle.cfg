SPECIFICATION LiveSpec
CONSTANTS
  Conns = {c1, c2}
  TransportCounts = {0, 2}
  Protected = TRUE
  HasMuxers = TRUE
  Identify = TRUE
  NestedCalls = {"dial"}
  NoConn = NoConn
CHECK_DEADLOCK FALSE
PROPERTIES KeepsLifecycle EveryAttemptEnds EveryCloseEnds
