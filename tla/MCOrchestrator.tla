--------------------------- MODULE MCOrchestrator ---------------------------
(* Instances of Orchestrator for TLC; the constants are set in the .cfg    *)
(* files.                                                                  *)
EXTENDS Orchestrator, TLC

Symmetry == Permutations(Requests)
=============================================================================
