SPECIFICATION DualSpec
CONSTANTS
  Inventory = Inventory
  Budget = Budget
  Policy = Policy
  MaxAgents = 2
INVARIANTS
  OneActiveSession
  StartConverges
PROPERTY
  RefusalHasCause
