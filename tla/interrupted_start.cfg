SPECIFICATION DualSpec
CONSTANTS
  Inventory = Inventory
  Budget = Budget
  Policy = Policy
  MaxAgents = 2
INVARIANT
  InterruptedStartResumes
