SPECIFICATION FairSpec
CONSTANTS
  Requests = {r1, r2, r3, r4}
  Kinds = {"final", "unusable", "malformed", "auth", "redirect", "close",
           "misnumbered"}
  MaxFaults = 2
INVARIANTS TypeOK Accounted SocketPending
PROPERTIES ImplementsHandlers HandlersCalled
CHECK_DEADLOCK FALSE
