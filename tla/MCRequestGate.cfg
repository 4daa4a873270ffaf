SPECIFICATION Spec
CONSTANTS
  r1 = r1
  r2 = r2
  r3 = r3
  r4 = r4
  Requests = {r1, r2, r3, r4}
  Size <- MCSize
  Multipart = {r4}
  Unsized = {}
  MaxWaiters = 2
  MaxWaitBytes = 2
  MaxHolds = 2
INVARIANTS
  TypeOK
  CountersMatch
  BytesMatch
  AuthorityFence
  WithinLimits
PROPERTIES
  SingleHandover
  TimerEndsOnlyItsHold
CHECK_DEADLOCK FALSE
