SPECIFICATION DiagnosedSpec
CONSTANTS
  Inventory = Inventory
  Budget = Budget
  Policy = Policy
  Reobs = Reobs
  None = None
  Heads <- DriftHeads
  Scenarios = {"normal", "impossible", "revised"}
  Fixture <- MCFixture
  RefreshHead <- MCRefreshHead
  Revisions <- MCRevisions
  MaxStoreFaults = 2
INVARIANTS
  TypeOK
  EffectAtCommonCut
  EffectMeansCommitted
  CommitRetryConverges
  ReadyIsCommittable
  BlockedIsRefreshable
  ClaimHasOneOwner
  DecisionsAreBacked
  InFlightIsOwned
  RecoveryNeverRefuses
  DiagnosticsStayClosed
  EndIsExplained
  SteadyWorldIsReadable
  OfferedActionsAreAccepted
PROPERTIES
  TerminalIsFinal
  RevisionFences
  EvidenceIsSpentOnce
  KeepsPromise
