SPECIFICATION LiveSpec
CONSTANTS
  Cap = 2
  QuotaKeep = 1
  MaxSessions = 2
  MaxTurns = 2
  MaxClicks = 2
INVARIANTS
  OneRecordEach
  SnapshotsAreOwn
  RestsSaved
PROPERTIES
  DeletedStaysDeleted
  SavesSettle
CHECK_DEADLOCK FALSE
