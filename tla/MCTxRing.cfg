SPECIFICATION LinkFairSpec
CONSTANTS
  Size = 4
  IndexMod = 8
  MaxPrinted = 10
INVARIANTS
  SenderIsOver
  SentInOrder
  NothingInvented
PROPERTIES
  PrintedIsSent
CHECK_DEADLOCK FALSE
