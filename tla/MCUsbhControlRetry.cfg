SPECIFICATION FairSpec
CONSTANTS
  QueueLen = 2
  MaxErrors = 2
  Faults <- MCErrors
CHECK_DEADLOCK FALSE
PROPERTY
  RetryIsSent
