----------------------------- MODULE MCStageGates -----------------------------
(* Cron jobs at both ends of the chain and the orchestrator, which runs    *)
(* the three gated steps between them itself, for TLC.                     *)
EXTENDS StageGates

ChainEnds == {"test", "deploy", "orchestrator"}

=============================================================================
