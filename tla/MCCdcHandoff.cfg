CONSTANTS
  MaxCommits = 2
  MaxRequests = 1
  MaxRestarts = 1
SPECIFICATION LiveCdcSpec
INVARIANTS
  WriterHasEverything
  RequestsExactlyOnce
PROPERTIES
  FenceSparesRequests
  ControllersEnd
CHECK_DEADLOCK FALSE
