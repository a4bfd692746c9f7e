SPECIFICATION FairSpec
CONSTANTS
  QueueLen = 1
  MaxErrors = 2
  Faults <- MCAllFaults
INVARIANTS
  TypeOK
  NoLostWakeup
  HostBehindDevice
  WaitsForSomething
PROPERTIES
  OkMeansDone
  RequestsAnswered
  ImplementsTransfer
