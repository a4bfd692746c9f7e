SPECIFICATION FairSpec
CONSTANTS
  QueueLen = 1
  MaxErrors = 1
  TickPreempts = TRUE
  Upsets <- MCAllUpsets
CHECK_DEADLOCK FALSE
INVARIANTS
  TypeOK
  NoPassForgotten
  NoStrayTransfer
PROPERTIES
  FreshEnumeration
  EnumerationCompletes
  DisconnectHandled
