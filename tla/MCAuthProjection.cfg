CONSTANTS
  Users = {1, 2}
  Contexts = {1}
  MaxWrites = 2
  MaxTime = 1
  MaxRestarts = 1
SPECIFICATION AuthSpec
INVARIANTS
  Projected
  TargetMirrors
  SessionHasToken
CHECK_DEADLOCK FALSE
