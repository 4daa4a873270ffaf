CONSTANT
  MaxCommits = 3
SPECIFICATION ResetSpec
INVARIANTS
  ServedDataComplete
  CompletedMeansReset
CHECK_DEADLOCK FALSE
