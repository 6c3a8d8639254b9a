SPECIFICATION ReaderSpec
CONSTANTS
  SubAgents = {inspect}
  Tools = {t}
  MaxSent = 2
INVARIANTS
  AskIsHeard
  ReplayAgrees
PROPERTIES
  ChannelSpec
CHECK_DEADLOCK FALSE
