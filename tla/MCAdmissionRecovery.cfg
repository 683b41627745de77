SPECIFICATION Spec
CONSTANTS
  A1 = A1
  A2 = A2
  B1 = B1
  Agents <- MCSplit
  Workspaces <- MCTwo
  WorkspaceOf <- MCWorkspaceOf
  LegacyRuns <- MCLegacyTwins
  UsesHelper = {A1}
  Limits <- MCGrowing
  MaxRows = 4
  MaxProcs = 4
  MaxEntries = 0
  MaxRestarts = 1
  MaxLimitChanges = 1
INVARIANTS
  TypeOK
  OneProcessPerAgent
  LivingProcessHoldsSlot
  LivingWithinLimits
PROPERTIES
  ReleasedIsFinal
CHECK_DEADLOCK FALSE
