SPECIFICATION DiagnosedSpec
CONSTANTS
  Inventory = Inventory
  Budget = Budget
  Policy = Policy
  Reobs = Reobs
  None = None
  Heads <- DriftHeads
  Scenarios = {"normal", "impossible", "revised"}
  Fixture <- MCFixture
  RefreshHead <- MCRefreshHead
  Revisions <- MCRevisions
  MaxStoreFaults = 1
INVARIANT
  RaceIsDiagnosed
