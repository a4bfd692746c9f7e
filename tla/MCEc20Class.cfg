SPECIFICATION FairSpec
CONSTANTS
  EpSize = 2
  Lengths <- MCLengths
  QueueLen = 2
  MaxBuffers = 2
  MaxPackets = 2
  MaxErrors = 1
INVARIANTS
  BuffersInOrder
  NoByteLost
  PacketsInOrder
  NeverStranded
PROPERTIES
  TransfersEnd
