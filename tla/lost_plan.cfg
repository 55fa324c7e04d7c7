SPECIFICATION DiagnosedSpec
CONSTANTS
  Inventory = Inventory
  Budget = Budget
  Policy = Policy
  Reobs = Reobs
  None = None
  Heads <- StillHeads
  Scenarios = {"normal", "impossible", "revised"}
  Fixture <- MCFixture
  RefreshHead <- MCRefreshHead
  Revisions <- MCRevisions
  MaxStoreFaults = 0
INVARIANT
  RetainedEvidenceHasPlan
