SPECIFICATION Spec
CONSTANTS
  Orchestrator = Orchestrator
  W = W
  D1 = D1
  D2 = D2
  None = None
  Agents <- MCAgents
  Dispatches <- MCOneDispatch
  Adapter <- MCCodex
  Assignee <- MCAssignee
  Protocol <- MCProtocol1
  OrchestratorSends <- MCOneDispatch
  RemoteSends = {}
  StartsRunning = {}
  Stopping <- MCWorkers
  MaxRows = 2
  MaxAttempts = 2
  MaxRuns = 2
  MaxSubmits = 1
  MaxResends = 0
  MaxRevisions = 1
  MaxRestarts = 0
PROPERTIES
  CancelledIsFinal
CHECK_DEADLOCK FALSE
