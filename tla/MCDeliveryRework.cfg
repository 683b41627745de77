SPECIFICATION Spec
CONSTANTS
  Orchestrator = Orchestrator
  W = W
  D1 = D1
  D2 = D2
  None = None
  Agents <- MCAgents
  Dispatches <- MCOneDispatch
  Adapter <- MCCodex
  Assignee <- MCAssignee
  Protocol <- MCProtocol0
  OrchestratorSends = {}
  RemoteSends = {}
  StartsRunning <- MCAgents
  Stopping = {}
  MaxRows = 3
  MaxAttempts = 1
  MaxRuns = 1
  MaxSubmits = 1
  MaxResends = 0
  MaxRevisions = 2
  MaxRestarts = 0
INVARIANTS
  LatestReportIsForwarded
CHECK_DEADLOCK FALSE
