---------------------------- MODULE MCJobWorker ----------------------------
(* JobWorker for TLC. *)
EXTENDS JobWorker, TLC

\* Every process was given the same JOB_WORKER_ID.
SharedId == [w \in Workers |-> CHOOSE id \in WorkerIds : TRUE]

Symmetry == Permutations(Workers)
============================================================================
