CONSTANTS
  Urls = {u1, u2}
  NoUrl = NoUrl
  MaxOps = 2
  MaxForeign = 1
SPECIFICATION SettingsSpec
INVARIANTS
  NeverCompetes
CHECK_DEADLOCK FALSE
