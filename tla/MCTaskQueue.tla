---------------------------- MODULE MCTaskQueue ----------------------------
(* TLC instances of TaskQueue. *)
EXTENDS TaskQueueStats, TLC

Symmetry == Permutations(Consumers)
=============================================================================
