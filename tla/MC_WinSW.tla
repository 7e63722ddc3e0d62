------------------------------- MODULE MC_WinSW -------------------------------
(* Instances of WinSW for TLC.                                            *)
EXTENDS WinSW

CONSTANTS p1, p2

\* One goroutine calling the process manager for the server.
MCCallers1 == {p1}
=============================================================================
