SPECIFICATION LiveSpec
CONSTANTS
  SubAgents = {inspect}
  Texts = {x}
  Tools = {t, u}
  MaxStreams = 2
  MaxEvents = 1
  MaxSwitches = 1
INVARIANTS
  OneSessionOnPage
  ApprovalsMatch
  CardNamesItsTool
PROPERTIES
  HistoryIntact
  InputComesBack
CHECK_DEADLOCK FALSE
