SPECIFICATION FairSpec
CONSTANTS
  QueueLen = 2
  MaxErrors = 1
  TickPreempts = TRUE
  Upsets <- MCUnplug
CHECK_DEADLOCK FALSE
PROPERTIES
  RemovedForGood
