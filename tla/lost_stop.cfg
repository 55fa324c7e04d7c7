SPECIFICATION AgentFairSpec
CONSTANTS
  Handlers = {h1, h2}
  Runs = {r1, r2}
  None = None
  MaxUpdates = 0
  MaxFaults = 0
PROPERTY
  StoppedUntilStarted
CHECK_DEADLOCK FALSE
