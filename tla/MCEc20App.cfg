SPECIFICATION FairSpec
CONSTANTS
  Queries = 1
  MaxTimeOutNum = 3
  Sessions = 2
  MaxAsked = 2
INVARIANTS
  StatesInOrder
  SenderUsesLiveApp
PROPERTIES
  SwitchedOnAgain
  SequenceLeadsOn
CHECK_DEADLOCK FALSE
