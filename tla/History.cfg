SPECIFICATION Spec
CONSTANTS
  idA = idA
  idB = idB
  NoID = NoID
  IDs = {idA, idB}
  Histories <- MCHistories
  CompactMax = 2
INVARIANTS
  Paired
  Stable
  LatestUserKept
CHECK_DEADLOCK FALSE
