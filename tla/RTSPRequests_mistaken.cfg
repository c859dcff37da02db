SPECIFICATION Spec
CONSTANTS
  Requests = {r1, r2, r3}
  Kinds = {"final", "twice"}
  MaxFaults = 1
SYMMETRY Symmetric
INVARIANTS OwnAnswer
CHECK_DEADLOCK FALSE
