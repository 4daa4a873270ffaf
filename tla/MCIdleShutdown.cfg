CONSTANTS
  Releases = {a, b}
  First = a
  None = None
  MaxRuns = 1
  LateRuns = 0
SPECIFICATION DeploySpec
PROPERTIES
  IdleSparesDeployment
CHECK_DEADLOCK FALSE
