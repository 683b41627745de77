CONSTANTS
  A = A
  B = B
  Order <- MCOrder
  Needs <- MCFree
  Quality <- MCFirst
  Outcomes <- MCOutcomes
  Uncertain <- MCNone
  Rerunnable <- MCFirst
  MaxAttempts = 2
  MaxCommits = 0
  Reopenable <- MCFirstDispatch
  MaxRestarts = 1
SPECIFICATION FairSpec
INVARIANT FailedRunsLeaveNoOpenWork
PROPERTIES
  ReportsAreApplied
  RerunsSettle
  ReadyStepsAreDispatched
  StoppedWorkIsCancelled
CHECK_DEADLOCK FALSE
