---------------------------- MODULE MCTaskStore ----------------------------
(* TaskStore on one initiative with a few commands in flight.               *)
EXTENDS TaskStore, TLC

CONSTANTS p1, p2

MCProcs == {p1, p2}
MCSlugs == 1..1
MCPris == {1}

=============================================================================
