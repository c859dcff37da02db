SPECIFICATION Spec
CONSTANTS
  Clients = {c1, c2}
  Servers = {s1, s2}
  Videos = {v1, v2}
  Playable = {v1, v2}
  None = None
  MaxFaults = 0
INVARIANTS RightVideo
CHECK_DEADLOCK FALSE
