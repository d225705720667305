--------------------------- MODULE MCOrchestrator ---------------------------
(* Two stacks, one of which shares its port, and run.py started twice: a     *)
(* smoke plan of both stacks, or a quick plan (two load configurations) of   *)
(* one stack that clears earlier results.                                    *)
EXTENDS Orchestrator

MCInvocations ==
  {[profile |-> "smoke", stacks |-> Stacks, fresh |-> FALSE],
   [profile |-> "quick", stacks |-> Stacks \ ReusePort, fresh |-> TRUE]}

=============================================================================
