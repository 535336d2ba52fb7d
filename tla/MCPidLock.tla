------------------------------ MODULE MCPidLock ------------------------------
(* Three runs of one agent, for TLC.                                       *)
EXTENDS PidLock, TLC

CONSTANTS p1, p2, p3

RunPids == {p1, p2, p3}

=============================================================================
