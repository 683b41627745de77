--------------------------- MODULE MCTerminalStream ---------------------------
(***************************************************************************)
(* Instances of TerminalStream for TLC.                                    *)
(***************************************************************************)
EXTENDS TerminalStream

CONSTANTS V1, V2

MCViewers == {V1, V2}

=============================================================================
