--------------------------- MODULE MCExperimentChain ---------------------------
(* The symmetries of the safety runs: experiment IDs and processes are      *)
(* interchangeable, since the order of the migration is left open.          *)
EXTENDS ExperimentChain, TLC

Alike == Permutations(Ids) \union Permutations(Procs)
=============================================================================
