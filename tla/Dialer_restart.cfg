SPECIFICATION Spec
CONSTANTS
  Peers = {p1, p2}
  Self = self
  Requests = {r1, r2, r3}
  Kinds <- OnlyDial
  MaxParallelDials = 1
  MaxColdCalls = 1
  DenyAttempts = 2
  Events = {"clean", "restart"}
  NestedCalls = {"dial"}
  MaxStops = 1
  None = None
SYMMETRY Interchangeable
CHECK_DEADLOCK FALSE
INVARIANTS OneAttempt AnswerIsOwed DroppedQueuesAreIdle
PROPERTY CleanSparesAttempts
