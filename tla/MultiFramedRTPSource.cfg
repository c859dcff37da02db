SPECIFICATION FairSpec
CONSTANTS
  Half = 5
  First = 8
  NumPackets = 8
  FrameStarts <- Starts
  MaxFaults = 2
INVARIANTS TypeOK QueueOrdered SavedOnce FramesWhole NothingWasted
PROPERTIES AllShown
CHECK_DEADLOCK FALSE
