SPECIFICATION ReceiptSpec
CONSTANTS
  Inventory = Inventory
  Budget = Budget
  Policy = Policy
  Heads <- MCHeads
INVARIANTS
  HistoryTiles
  CommitNeverRefused
  ReceiptsResolve
  OutcomeDecidesCut
PROPERTY
  PastNeverChanges
CHECK_DEADLOCK FALSE
