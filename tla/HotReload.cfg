SPECIFICATION LiveSpec
CONSTANTS
  Requests = {r1, r2}
  Writers = {w1}
  Vals = {a, blank}
  InitVal = a
  Blank = blank
  NoOne = NoOne
  Editable = {"agents"}
  MaxWrites = 2
  MaxGen = 1
  Faults = {"write", "db", "read", "build"}
INVARIANTS
  ReadYourWrites
  InstalledConnected
PROPERTIES
  RequestsServed
  Converges
CHECK_DEADLOCK FALSE
