SPECIFICATION Spec
CONSTANTS
  r1 = r1
  r2 = r2
  r3 = r3
  r0 = r0
  Requests = {r0, r1, r2, r3}
  Earlier = {r0}
  Kinds <- TwoTurns
  MaxActive = 2
  Outcomes <- SomeOutcomes
  Unreliable = {"answer"}
  HasScene = FALSE
  NoOne = NoOne
INVARIANTS
  TurnsKept
  Accounted
  LinksLast
  NothingStray
CHECK_DEADLOCK FALSE
