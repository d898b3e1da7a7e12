----------------------------- MODULE MCPreFork -----------------------------
(* Two slots, and one process id more than slots.                        *)
EXTENDS PreFork
CONSTANTS p1, p2, p3

MCPid == {p1, p2, p3}
MCNoProcs == 2
=============================================================================
