SPECIFICATION Spec
CONSTANTS
  MaxQueue = 4
  Timeout = 4
  Peers = {p1, p2}
  Transports = {tcp}
  Protocols = {proto}
  MaxMessages = 4
SYMMETRY Interchangeable
CHECK_DEADLOCK FALSE
INVARIANTS TypeOK CountsAgree TimersFollowQueues StalenessIsBounded
