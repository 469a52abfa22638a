---------------------------- MODULE JobLifecycle ----------------------------
(***************************************************************************)
(* What a job repository promises of the life of a job, with every         *)
(* operation atomic: a waiting job is started, an attempt that fails is    *)
(* repeated until the job's retries are used up, and a final status is     *)
(* final.  Only a waiting job can be cancelled.                            *)
(*                                                                         *)
(* Two constants weaken this as far as an implementation needs it, and no  *)
(* further: the number of attempts, the limit on them and the finality of  *)
(* what is neither cancelled nor failed late are promised in any case.     *)
(***************************************************************************)
EXTENDS Integers

CONSTANTS JobId,        \* identities of jobs
          RetryLimit,   \* values of max_retries
          StaleCancel,  \* a cancellation may overwrite any status, and be overwritten
          FailsLate     \* an attempt that succeeded may be recorded as failed after all

VARIABLE jobs   \* the jobs submitted so far, with their status and attempts

Waiting == {"queued", "failed"}
Overwritten == IF StaleCancel THEN {"cancelled"} ELSE {}

Init == jobs = << >>

\* A client submits a job, or a schedule yields its next occurrence.
Submit(j) ==
    /\ j \notin DOMAIN jobs
    /\ \E retries \in RetryLimit :
          jobs' = [k \in DOMAIN jobs \cup {j} |->
                     IF k \in DOMAIN jobs THEN jobs[k]
                     ELSE [status |-> "queued", attempt_count |-> 0, max_retries |-> retries]]

Start(j) ==
    /\ jobs[j].status \in Waiting \cup Overwritten
    /\ jobs' = [jobs EXCEPT ![j].status = "running", ![j].attempt_count = @ + 1]

Finish(j, status) == jobs' = [jobs EXCEPT ![j].status = status]

Succeed(j) == jobs[j].status \in {"running"} \cup Overwritten /\ Finish(j, "succeeded")

Fail(j, status) ==
    /\ \/ jobs[j].status \in {"running"} \cup Overwritten
       \/ FailsLate /\ jobs[j].status = "succeeded"
    /\ Finish(j, status)

Retry(j) == jobs[j].attempt_count <= jobs[j].max_retries /\ Fail(j, "failed")
Bury(j) == jobs[j].attempt_count = jobs[j].max_retries + 1 /\ Fail(j, "dead_lettered")

Cancel(j) ==
    /\ jobs[j].status \in Waiting \/ StaleCancel
    /\ Finish(j, "cancelled")

Next ==
    \/ \E j \in JobId : Submit(j)
    \/ \E j \in DOMAIN jobs : Start(j) \/ Succeed(j) \/ Retry(j) \/ Bury(j) \/ Cancel(j)

Spec == Init /\ [][Next]_jobs
=============================================================================
