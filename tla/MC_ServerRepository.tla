------------------------ MODULE MC_ServerRepository ------------------------
(* Instances of ServerRepository for TLC.                                 *)
EXTENDS ServerRepository

CONSTANTS s1, s2

\* Two servers, so that a batch can mix them.
MCServers2 == {s1, s2}
\* One server: every race is on the same Server object.
MCServers1 == {s1}
=============================================================================
