CONSTANTS
  Runs = {r1, r2}
  Releases <- MCReleases
  Images = {1, 2}
  Manifest <- MCManifest
  None = None
  Exclusive = TRUE
SPECIFICATION LivePromotionSpec
INVARIANTS
  AcceptingMeansWhole
  NoCompetingMutation
  RollbackGoesOneBack
  UnfinishedJournalBlocks
PROPERTIES
  EveryRunEnds
CHECK_DEADLOCK FALSE
