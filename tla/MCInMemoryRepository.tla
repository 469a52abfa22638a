------------------------ MODULE MCInMemoryRepository ------------------------
(* Small instances of InMemoryRepository for TLC.                          *)
EXTENDS InMemoryRepository, TLC

Symmetry == Permutations(JobId) \cup Permutations(Thread)
=============================================================================
