------------------------------ MODULE MCWorkflow ------------------------------
(***************************************************************************)
(* Instances of Workflow for TLC.                                          *)
(***************************************************************************)
EXTENDS Workflow

CONSTANTS A, B

MCOrder == <<A, B>>
MCChain == [s \in Steps |-> IF s = A THEN {} ELSE {A}]
MCFree == [s \in Steps |-> {}]

MCNone == {}
MCFirst == {A}
MCAll == {A, B}
MCFirstDispatch == {1}

MCSuccess == {"success"}
MCOutcomes == {"success", "failed", "none"}

=============================================================================
