--------------------------- MODULE MCOrchestrator ---------------------------
(* Two calls, todowrite and one with an effect; short passes.  No pass is   *)
(* given loop_brake, so its default holds.                                  *)
EXTENDS Orchestrator
CONSTANTS todo, act
=============================================================================
