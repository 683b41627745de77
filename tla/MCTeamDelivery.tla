--------------------------- MODULE MCTeamDelivery ---------------------------
(***************************************************************************)
(* Instances of TeamDelivery for TLC: one worker, one or two dispatches.   *)
(***************************************************************************)
EXTENDS TeamDelivery

CONSTANTS W, D1, D2

MCAgents == {Orchestrator, W}
MCWorkers == {W}
MCOneDispatch == {D1}
MCTwoDispatches == {D1, D2}

MCCodex == [a \in Agents |-> "codex"]
MCNativeOrchestrator == [a \in Agents |-> IF a = W THEN "claude" ELSE "native"]
MCAssignee == [d \in Dispatches |-> W]
MCProtocol0 == [d \in Dispatches |-> 0]
MCProtocol1 == [d \in Dispatches |-> 1]
MCProtocolMixed == [d \in Dispatches |-> IF d = D1 THEN 0 ELSE 1]

=============================================================================
