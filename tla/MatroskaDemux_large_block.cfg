SPECIFICATION Spec
CONSTANTS
  File <- MCFile
  BANK_SIZE = 5
  Tracks = {1, 2}
  SetUps = {{1}, {1, 2}}
  SubframeTracks = {1}
  MaxSize = 10
  ClusterOffset = 2
  Cues = {9}
  MisreadSizes = {1, 10}
  MaxMisreads = 2
  MaxPauses = 2
  MaxSeeks = 0
INVARIANT NoInternalError
CHECK_DEADLOCK FALSE
