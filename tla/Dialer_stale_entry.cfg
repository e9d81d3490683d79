SPECIFICATION Spec
CONSTANTS
  Peers = {p1, p2, p3}
  Self = self
  Requests = {r1, r2, r3, r4}
  Kinds <- OnlyWarm
  MaxParallelDials = 1
  MaxColdCalls = 1
  DenyAttempts = 2
  Events = {"clean", "inbound"}
  NestedCalls = {}
  MaxStops = 1
  None = None
CHECK_DEADLOCK FALSE
SYMMETRY Interchangeable
CONSTRAINT StaleEntryOnly
INVARIANT QueueKeepsProcessing
