SPECIFICATION FairSpec
CONSTANTS
  Inventory = Inventory
  Budget = Budget
  Policy = Policy
  Reobs = Reobs
  None = None
  Heads <- DriftHeads
  Scenarios = {"revised"}
  Fixture <- MCFixture
  RefreshHead <- MCRefreshHead
  Revisions <- MCRevisions
  MaxStoreFaults = 1
PROPERTIES
  BackgroundSettles
  RefreshSettles
  OwnershipIsReleased
