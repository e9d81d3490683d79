SPECIFICATION LiveSpec
CONSTANTS
  Peers = {p1, p2}
  Self = self
  Requests = {r1, r2, r3}
  Kinds <- OnlyWarm
  MaxParallelDials = 1
  MaxColdCalls = 1
  DenyAttempts = 2
  Events = {}
  NestedCalls = {"dial"}
  MaxStops = 1
  None = None
CHECK_DEADLOCK FALSE
PROPERTIES EveryRequestAnswered SlotsAreReturned
