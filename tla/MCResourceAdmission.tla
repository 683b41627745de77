------------------------- MODULE MCResourceAdmission -------------------------
(***************************************************************************)
(* Instances of ResourceAdmission for TLC.                                 *)
(***************************************************************************)
EXTENDS ResourceAdmission

CONSTANTS A1, A2, B1

MCTwo == {1, 2}
MCSplit == {A1, B1}
MCWorkspaceOf == [a \in Agents |-> IF a = B1 THEN 2 ELSE 1]

MCNoLegacy == <<>>
MCLegacyTwins == <<[agent |-> A1, pid |-> TRUE], [agent |-> A1, pid |-> TRUE]>>

MCOneSlot == {[total |-> 1, workspace |-> 1]}
MCGrowing == {[total |-> 1, workspace |-> 1], [total |-> 2, workspace |-> 2]}

=============================================================================
