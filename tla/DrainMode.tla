----------------------------- MODULE DrainMode ------------------------------
(***************************************************************************)
(* What POST /ops/drain promises an operator who wants to stop the         *)
(* workers.  claim_job reads drain_enabled in a query of its own and       *)
(* commits the claim two queries later, under no lock, so that a claim may *)
(* be committed after the request was answered.  The fleet, with a history *)
(* variable that counts such claims and changes nothing else.              *)
(***************************************************************************)
EXTENDS WorkerLoop

VARIABLE late   \* how many claims each worker has committed since the drain began

drainVars == <<fleetVars, late>>

DrainInit == FleetInit /\ late = [w \in Worker |-> 0]

CommitsClaim(w) == pc[w] = "claiming" /\ pc'[w] = "running"

Watch ==
    late' = [w \in Worker |->
        IF drain = TRUE /\ drain' = TRUE
        THEN IF CommitsClaim(w) THEN late[w] + 1 ELSE late[w]
        ELSE 0]

\* FleetNext, watched.
DrainNext ==
    \/ \E j \in JobId, retries \in RetryLimit, cron \in CronKind, delayed \in BOOLEAN :
          Submit(j, retries, cron, delayed) /\ Watch
    \/ \E j \in JobId : Announce(j) /\ Watch
    \/ \E j \in JobId : Tick(j) /\ Watch
    \/ \E w \in Worker : Run(w) /\ Watch
    \/ \E w \in Worker : Die(w) /\ Watch
    \/ \E w \in Worker : Stop(w) /\ Watch
    \/ \E w \in Worker : Evict(w) /\ Watch
    \/ Api /\ Watch

DrainSpec == DrainInit /\ [][DrainNext]_drainVars

DrainFairSpec == DrainSpec /\ FleetFairness

-----------------------------------------------------------------------------
\* While drain mode is on, each worker commits at most one more claim, the one it
\* had begun before, through whatever failures, retries, crashes, cancellations
\* and repeated requests: the number of workers bounds what a drain still lets
\* start.
OneLateClaim == drain = TRUE => \A w \in Worker : late[w] <= 1

\* SPEC.md: "If drain mode is enabled, workers do not claim new jobs."
NoClaimWhileDraining == drain = TRUE => \A w \in Worker : late[w] = 0
=============================================================================
