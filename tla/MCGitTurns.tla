----------------------------- MODULE MCGitTurns -----------------------------
(***************************************************************************)
(* Instance of GitTurns for TLC.                                           *)
(***************************************************************************)
EXTENDS GitTurns

=============================================================================
