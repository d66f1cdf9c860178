CONSTANTS
  NumBlocks = 2
  MaxPackets = 1
  MaxDepth = 1
  NumPackets = 1
  MaxStarts = 1
SPECIFICATION FairSpec
PROPERTIES
  StopEnds
CHECK_DEADLOCK FALSE
