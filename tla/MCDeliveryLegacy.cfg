SPECIFICATION Spec
CONSTANTS
  Orchestrator = Orchestrator
  W = W
  D1 = D1
  D2 = D2
  None = None
  Agents <- MCAgents
  Dispatches <- MCTwoDispatches
  Adapter <- MCNativeOrchestrator
  Assignee <- MCAssignee
  Protocol <- MCProtocolMixed
  OrchestratorSends <- MCOneDispatch
  RemoteSends <- MCOneDispatch
  StartsRunning = {Orchestrator}
  Stopping <- MCWorkers
  MaxRows = 3
  MaxAttempts = 2
  MaxRuns = 1
  MaxSubmits = 1
  MaxResends = 0
  MaxRevisions = 2
  MaxRestarts = 0
INVARIANTS
  QueuedDispatchesAreCarried
CHECK_DEADLOCK FALSE
