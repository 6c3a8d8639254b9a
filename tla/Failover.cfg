SPECIFICATION LivePoolSpec
CONSTANTS
  Callers = {c1, c2}
  N = 2
  RateMax = 1
  TransientMax = 1
  CompactRetries = 1
INVARIANTS
  RetryBudget
PROPERTIES
  KeepsPromise
  CallsReturn
CHECK_DEADLOCK FALSE
