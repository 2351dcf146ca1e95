---------------------------- MODULE MCJobQueue ----------------------------
(* JobQueue under arbitrary clients, for TLC. *)
EXTENDS JobQueue, TLC

Symmetry == Permutations(Jobs) \cup Permutations(WorkerIds)
===========================================================================
