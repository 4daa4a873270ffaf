CONSTANTS
  Urls = {u1, u2}
  NoUrl = NoUrl
  MaxOps = 2
  MaxForeign = 1
SPECIFICATION LiveSettingsSpec
INVARIANTS
  SettledAgrees
  NoCompetingRestore
  MismatchHasBackup
PROPERTIES
  UpdateEnds
CHECK_DEADLOCK FALSE
