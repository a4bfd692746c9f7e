SPECIFICATION FairSpec
CONSTANTS
  NumPorts = 2
  QueueLen = 1
  MaxDevices = 2
  MaxFaults = 1
  MaxStalls = 1
INVARIANTS
  ChildIsTheDevice
PROPERTIES
  KeepsLiveChild
  ChangesWorkedOff
CHECK_DEADLOCK FALSE
