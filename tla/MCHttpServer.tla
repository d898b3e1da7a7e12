---------------------------- MODULE MCHttpServer ----------------------------
(* Two slots, a process id more than slots, two clients, two faults.       *)
EXTENDS HttpServer
CONSTANTS p1, p2, p3, c1, c2

MCPid == {p1, p2, p3}
MCClient == {c1, c2}
MCNoProcs == 2
=============================================================================
