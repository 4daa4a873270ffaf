SPECIFICATION LiveHandoffSpec
CONSTANTS
  t1 = t1
  t2 = t2
  Txns <- MCTxns
  Autocommit <- MCAutocommit
  MaxCommands = 3
INVARIANTS
  ForwardOnly
  JournalTellsWriter
PROPERTIES
  OneHistory
  PromotedUntouched
  FenceSparesTransactions
  CommandEnds
CHECK_DEADLOCK FALSE
