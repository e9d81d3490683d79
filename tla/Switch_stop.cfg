SPECIFICATION Spec
CONSTANTS
  Conns = {c1}
  Protected = FALSE
  Known = {}
  Listening <- OneTransport
  MaxStarts = 1
  MaxStops = 1
  Patient = TRUE
CHECK_DEADLOCK FALSE
INVARIANT StoppedIsClosed
