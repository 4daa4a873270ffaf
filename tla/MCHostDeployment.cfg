CONSTANTS
  Releases = {a, b}
  First = a
  None = None
  MaxRuns = 2
  LateRuns = 1
SPECIFICATION DeploySpec
INVARIANTS
  RecoveryRestores
  SuccessIsWhole
CHECK_DEADLOCK FALSE
