CONSTANTS
  A = A
  B = B
  Order <- MCOrder
  Needs <- MCChain
  Quality <- MCFirst
  Outcomes <- MCSuccess
  Uncertain <- MCFirstDispatch
  Rerunnable <- MCAll
  MaxAttempts = 2
  MaxCommits = 1
  Reopenable <- MCFirstDispatch
  MaxRestarts = 1
SPECIFICATION Spec
INVARIANTS
  TypeOK
  EachAttemptIsDispatchedOnce
  AttemptsDoNotOverlap
PROPERTIES
  StepsKeepToCurrentResults
  NewWorkAwaitsDecisions
CHECK_DEADLOCK FALSE
