SPECIFICATION FairSpec
CONSTANTS
  QueueLen = 2
  MaxErrors = 2
  Faults <- MCStalls
CHECK_DEADLOCK FALSE
PROPERTY
  StallExits
