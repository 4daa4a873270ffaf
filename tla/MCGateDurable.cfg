SPECIFICATION HostSpec
CONSTANTS
  r1 = r1
  r2 = r2
  r3 = r3
  r4 = r4
  Requests = {r1, r2}
  Size <- MCSize
  Multipart = {}
  Unsized = {}
  MaxWaiters = 2
  MaxWaitBytes = 2
  MaxHolds = 2
INVARIANTS
  CommitDurableBeforeV2Dispatch
CHECK_DEADLOCK FALSE
