SPECIFICATION FairSpec
CONSTANTS
  File <- MCFile
  BANK_SIZE = 5
  Tracks = {1, 2}
  SetUps = {{2}, {1, 2}}
  SubframeTracks = {1}
  MaxSize = 10
  ClusterOffset = 2
  Cues = {9}
  MisreadSizes = {1, 10}
  MaxMisreads = 2
  MaxPauses = 2
  MaxSeeks = 1
INVARIANT TypeOK
INVARIANT NoInternalError
INVARIANT BankIsFile
PROPERTY ImplementsReading
PROPERTY ReadsAnswered
CHECK_DEADLOCK FALSE
