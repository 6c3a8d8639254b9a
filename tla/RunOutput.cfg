SPECIFICATION LiveRunSpec
CONSTANTS
  short = short
  long = long
  Texts = {short, long}
  Size <- MCSize
  ItemMax = 4
  EvidenceMax = 5
  None = None
  MaxEvents = 3
  MaxFinal = 1
INVARIANTS
  InOrder
  NothingLost
  AnswerIsNewest
PROPERTIES
  StageReturns
CHECK_DEADLOCK FALSE
