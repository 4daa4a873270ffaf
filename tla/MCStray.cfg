SPECIFICATION CutoverSpec
CONSTANTS
  r1 = r1
  r2 = r2
  c1 = c1
  c2 = c2
  Requests = {r1}
  Size <- MCSize
  Multipart = {}
  Unsized = {}
  MaxWaiters = 1
  MaxWaitBytes = 1
  MaxHolds = 2
  Controllers = {c1, c2}
  Creators = {r1}
  Deleters = {}
  Interruptible = FALSE
INVARIANTS
  FinalSnapshot
CHECK_DEADLOCK FALSE
