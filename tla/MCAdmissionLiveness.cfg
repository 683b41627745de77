SPECIFICATION FairSpec
CONSTANTS
  A1 = A1
  A2 = A2
  B1 = B1
  Agents <- MCSplit
  Workspaces <- MCTwo
  WorkspaceOf <- MCWorkspaceOf
  LegacyRuns <- MCNoLegacy
  UsesHelper = {}
  Limits <- MCOneSlot
  MaxRows = 2
  MaxProcs = 1
  MaxEntries = 2
  MaxRestarts = 1
  MaxLimitChanges = 0
PROPERTIES
  ClaimsEnd
  HeadsAreServed
  CancelledStartsDie
  CancelledStartsSpawnNothing
CHECK_DEADLOCK FALSE
