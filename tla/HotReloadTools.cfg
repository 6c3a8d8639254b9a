SPECIFICATION Spec
CONSTANTS
  Requests = {r1}
  Writers = {w1}
  Vals = {a, blank}
  InitVal = a
  Blank = blank
  NoOne = NoOne
  Editable = {"skills", "memory", "agents"}
  MaxWrites = 1
  MaxGen = 1
  Faults = {}
INVARIANT MemoryToolsFollowStore
CHECK_DEADLOCK FALSE
