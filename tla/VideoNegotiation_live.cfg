SPECIFICATION FairSpec
CONSTANTS
  Clients = {c1, c2, c3}
  Servers = {s1}
  Videos = {v1, v2}
  Playable = {v1}
  None = None
  MaxFaults = 1
INVARIANTS TypeOK Agreement RightVideo
PROPERTIES ImplementsGrants GrantReachesClient NegotiationEnds
CHECK_DEADLOCK FALSE
