SPECIFICATION Spec
CONSTANTS
  MaxTurns = 3
  MaxInputs = 1
  MaxRuns = 2
  MaxCommits = 1
  MaxToggles = 1
INVARIANTS
  NoTurnIsForgotten
PROPERTIES
  RefusedForOthersOnly
CHECK_DEADLOCK FALSE
