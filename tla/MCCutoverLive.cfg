SPECIFICATION CutoverFairSpec
CONSTANTS
  r1 = r1
  r2 = r2
  c1 = c1
  c2 = c2
  Requests = {r1, r2}
  Size <- MCSize
  Multipart = {}
  Unsized = {}
  MaxWaiters = 1
  MaxWaitBytes = 1
  MaxHolds = 1
  Controllers = {c1}
  Creators = {r1}
  Deleters = {}
  Interruptible = TRUE
PROPERTIES
  LockReleased
  HoldEnds
  HeldLeave
CHECK_DEADLOCK FALSE
