SPECIFICATION FairSpec
CONSTANTS
  MAX = 6
  PREFERRED = 6
  LIMIT = 24
  HEADERS = 1
  FrameLimit = 2
  Sizes = {1, 2, 9}
  MaxFrames = 3
  MaxPauses = 1
  CYCLE = 10
  FirstSeqNos = {8}
  InFlight = 2
  MaxFaults = 1
  MaxReports = 2
INVARIANT TypeOK
INVARIANT FramesArrive
INVARIANT ReportsTrue
PROPERTY StreamEnds
CHECK_DEADLOCK FALSE
