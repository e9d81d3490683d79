SPECIFICATION LiveSpec
CONSTANTS
  Conns = {c1, c2}
  Protected = TRUE
  Known = {c1}
  Listening <- TwoTransports
  MaxStarts = 2
  MaxStops = 1
  Patient = FALSE
CHECK_DEADLOCK FALSE
INVARIANTS TypeOK PeerFollowsConnections ServicesFollowState StopUndoesStarts AwaitedAreClosing
PROPERTY EveryCallSettles
