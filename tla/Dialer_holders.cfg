SPECIFICATION Spec
CONSTANTS
  Peers = {p1, self}
  Self = self
  Requests = {r1, r2, r3}
  Kinds <- FSMAndWarm
  MaxParallelDials = 1
  MaxColdCalls = 1
  DenyAttempts = 2
  Events = {"hangUp", "unmuxed", "closeErr", "clearDenylist"}
  NestedCalls = {"hangUp"}
  MaxStops = 1
  None = None
SYMMETRY Alike
CHECK_DEADLOCK FALSE
INVARIANTS AnswerIsOwed WorkConserving
