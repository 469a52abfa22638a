---------------------------- MODULE MCWorkerLoop ----------------------------
(* Small instances of WorkerLoop for TLC, with numbered jobs.              *)
EXTENDS WorkerLoop

\* The first job is urgent, the others have the lowest priority.
MixedPriority == [j \in JobId |-> IF j = 1 THEN 9 ELSE 0]
=============================================================================
