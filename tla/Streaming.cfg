SPECIFICATION FairSpec
CONSTANTS
  Viewers = {r1, r2}
  NumTracks = 2
  MaxFaults = 3
INVARIANTS TypeOK PlayingIsOpen ByeAccounted EndsAgree
PROPERTIES ImplementsViewing ReceiverEnds SessionsReclaimed KnownVideoEndsServer
CHECK_DEADLOCK FALSE
