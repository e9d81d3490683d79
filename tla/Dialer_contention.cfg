SPECIFICATION Spec
CONSTANTS
  Peers = {p1, p2}
  Self = self
  Requests = {r1, r2, r3}
  Kinds <- ColdAndDial
  MaxParallelDials = 1
  MaxColdCalls = 1
  DenyAttempts = 2
  Events = {"inbound", "identify"}
  NestedCalls = {"dial"}
  MaxStops = 1
  None = None
SYMMETRY Interchangeable
CHECK_DEADLOCK FALSE
INVARIANTS TypeOK DialLimit SlotsAreHeld OneAttempt AnswerIsOwed DeniedQueuesAreDrained ColdCallsAreBounded WorkConserving
