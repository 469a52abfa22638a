------------------------- MODULE MCSqlJobRepository -------------------------
(* Small instances of SqlJobRepository for TLC.                            *)
EXTENDS SqlJobRepository, TLC

\* Jobs, workers and requests are interchangeable.
Symmetry == Permutations(JobId) \cup Permutations(Worker) \cup Permutations(Canceller)
=============================================================================
