SPECIFICATION FairSpec
CONSTANTS
  QueueLen = 2
  MaxErrors = 1
  TickPreempts = FALSE
  Upsets <- MCUnplug
CHECK_DEADLOCK FALSE
PROPERTIES
  DisconnectISREnds
