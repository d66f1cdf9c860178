CONSTANTS
  NumBlocks = 2
  MaxPackets = 1
  MaxDepth = 1
  NumPackets = 2
  MaxStarts = 1
SPECIFICATION FairSpec
INVARIANTS
  TypeOK
  NothingLostOrDoubled
  OrderKept
  NothingStranded
PROPERTIES
  EveryPacketLeaves
  ResolverEnds
CHECK_DEADLOCK FALSE
