CONSTANTS
  A = A
  B = B
  Order <- MCOrder
  Needs <- MCChain
  Quality <- MCFirst
  Outcomes <- MCSuccess
  Uncertain <- MCNone
  Rerunnable <- MCAll
  MaxAttempts = 2
  MaxCommits = 0
  Reopenable <- MCNone
  MaxRestarts = 0
SPECIFICATION Spec
INVARIANT PendingRerunsWait
CHECK_DEADLOCK FALSE
