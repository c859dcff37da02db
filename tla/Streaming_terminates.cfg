SPECIFICATION FairSpec
CONSTANTS
  Viewers = {r1}
  NumTracks = 2
  MaxFaults = 0
PROPERTIES ServerTerminates
CHECK_DEADLOCK FALSE
