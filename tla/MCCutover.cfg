SPECIFICATION CutoverHostSpec
CONSTANTS
  r1 = r1
  r2 = r2
  c1 = c1
  c2 = c2
  Requests = {r1, r2}
  Size <- MCSize
  Multipart = {}
  Unsized = {}
  MaxWaiters = 1
  MaxWaitBytes = 1
  MaxHolds = 2
  Controllers = {c1, c2}
  Creators = {r1}
  Deleters = {r2}
  Interruptible = FALSE
SYMMETRY MCSymmetry
INVARIANTS
  LostWritesPrecedeHold
  ImportOverAtCommit
  AckedForever
PROPERTIES
  AbortOnlyOwnHold
CHECK_DEADLOCK FALSE
