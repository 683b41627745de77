SPECIFICATION FairSpec
CONSTANTS
  Orchestrator = Orchestrator
  W = W
  D1 = D1
  D2 = D2
  None = None
  Agents <- MCAgents
  Dispatches <- MCOneDispatch
  Adapter <- MCCodex
  Assignee <- MCAssignee
  Protocol <- MCProtocol1
  OrchestratorSends = {}
  RemoteSends = {}
  StartsRunning <- MCWorkers
  Stopping = {}
  MaxRows = 2
  MaxAttempts = 2
  MaxRuns = 2
  MaxSubmits = 1
  MaxResends = 1
  MaxRevisions = 1
  MaxRestarts = 1
INVARIANTS
  TypeOK
  AtMostOneCopy
  AttemptingRowsAreOwned
  RetriesAreUnwritten
PROPERTIES
  SettledIsFinal
  KeepsTheLane
  AttemptsEnd
  MessagesLeaveTheQueue
  JournaledReceiptsAreFound
CHECK_DEADLOCK FALSE
