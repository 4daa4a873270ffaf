CONSTANTS
  Users = {1}
  Contexts = {}
  MaxWrites = 2
  MaxTime = 1
  MaxRestarts = 0
SPECIFICATION AuthSpec
INVARIANTS
  IndexExpiresWithLatest
CHECK_DEADLOCK FALSE
