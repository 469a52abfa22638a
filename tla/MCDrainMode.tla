---------------------------- MODULE MCDrainMode -----------------------------
(* Small instances of DrainMode for TLC, with numbered jobs.               *)
EXTENDS DrainMode, MCWorkerLoop
=============================================================================
