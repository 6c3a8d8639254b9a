SPECIFICATION LiveSpec
CONSTANTS
  Runs = {r1, r2}
  MaxRetries = 2
  Burst = 1
  MaxCalls = 1
  NoOne = NoOne
INVARIANTS
  RetryOnNewClient
PROPERTIES
  CallsReturn
CHECK_DEADLOCK FALSE
