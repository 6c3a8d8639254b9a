SPECIFICATION OptionsSpec
CONSTANTS
  Models = {m}
  Default = Default
  MaxGen = 0
  MaxReloads = 1
INVARIANT ApprovalsCanBeGiven
CHECK_DEADLOCK FALSE
