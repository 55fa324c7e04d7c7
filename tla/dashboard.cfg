SPECIFICATION FairDashboardSpec
CONSTANTS
  Mutations <- SessionMutations
  Empty <- NoSession
  Apply <- SessionApply
  Refused = Refused
  None = None
  MaxWaiting = 2
  MaxFaults = 1
  MaxRevision = 3
  MaxClicks = 1
  MaxGlitches = 1
PROPERTY LostServerIsNoticed
PROPERTY ViewConverges
PROPERTY CommandSettles
PROPERTY StoreIsAtomic
PROPERTY ShownNeverGoesBack
