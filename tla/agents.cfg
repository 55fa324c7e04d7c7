SPECIFICATION AgentFairSpec
CONSTANTS
  Handlers = {h1, h2}
  Runs = {r1, r2}
  None = None
  MaxUpdates = 2
  MaxFaults = 1
INVARIANTS
  BusyHasRun
  CancelWaits
  ResultsAreEvidence
PROPERTIES
  RunOutcomeIsFinal
  BusyEnds
  CancelReturns
CHECK_DEADLOCK FALSE
