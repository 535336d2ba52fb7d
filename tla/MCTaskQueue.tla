----------------------------- MODULE MCTaskQueue -----------------------------
(* A short queue, for TLC.                                                 *)
EXTENDS TaskQueue, TLC

CONSTANT run1

OnePlanner == {run1}
==============================================================================
