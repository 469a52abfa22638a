-------------------------- MODULE SqlJobRepository --------------------------
(***************************************************************************)
(* The job state machine as it runs in production: worker processes drive  *)
(* JobService.process_job, API requests call cancel_job and set_drain, all *)
(* through SqlAlchemyJobRepository on one PostgreSQL database.             *)
(*                                                                         *)
(* An operation that modifies a job is two steps: the SELECT that loads    *)
(* the row into the session, on which the Python code decides, and the     *)
(* commit that writes the changed columns.  The isolation level is READ    *)
(* COMMITTED, no SELECT locks and no UPDATE has a condition on the loaded  *)
(* values, so every other actor may commit in between.  A message of the   *)
(* queue is a job id that any worker may receive at any time, any number   *)
(* of times.                                                               *)
(***************************************************************************)
EXTENDS JobRow, FiniteSets

CONSTANTS JobId,       \* primary keys; finite in a model, where it bounds the jobs
          Worker,      \* worker processes
          Canceller,   \* POST /jobs/{id}/cancel requests being served
          Operator,    \* POST /ops/drain requests being served
          RetryLimit,  \* values of max_retries clients submit
          CronKind,    \* kinds of recurring_cron clients submit
          None         \* no job, no row, no setting

ASSUME ConstantsAssumption ==
    /\ RetryLimit \subseteq Nat
    /\ CronKind \subseteq Cron
    /\ None \notin JobId /\ None \notin Row /\ None \notin BOOLEAN
    /\ None \notin [job : JobId, row : Row]

VARIABLES
    jobs,          \* table jobs: a function from the ids inserted so far to rows
    due,           \* the jobs whose next_run_at is not in the future
    attempts,      \* table job_attempts: <<job_id, attempt_number>> -> status
    drain,         \* row drain_enabled of ops_settings, None before it exists
    pc,            \* where each worker is in process_job
    job,           \* the job of the message each worker is processing
    seen,          \* the row each worker's session loaded
    cancelling,    \* the job and loaded row of each cancel request
    draining,      \* the value and loaded setting of each drain request
    dead_letters,  \* how many events topic jobs.dead_lettered holds of each job
    chain          \* history: the submitted job a recurrence descends from

tables == <<jobs, due, attempts, chain>>
workers == <<pc, job, seen>>
api == <<drain, cancelling, draining>>
vars == <<tables, workers, api, dead_letters>>

-----------------------------------------------------------------------------
\* process_job is between the commit of claim_job and the commit that records
\* the outcome of the attempt, a failing create_next_recurring_job included.
Claiming == {"undrained", "claiming"}
Executing == {"running", "succeeding", "recurring", "failing"}
PC == {"idle"} \cup Claiming \cup Executing \cup {"failed", "dead_letter"}

\* Only these stages hold a row of the session that a commit compares with.
Loaded == {"claiming", "succeeding", "failing"}

CancelRequest == [job : JobId, row : Row]
DrainRequest == [enabled : BOOLEAN, was : BOOLEAN \cup {None}]

TablesTypeOK ==
    /\ jobs \in [DOMAIN jobs -> Row] /\ DOMAIN jobs \subseteq JobId
    /\ due \subseteq JobId
    /\ attempts \in [DOMAIN attempts -> AttemptStatus]
    /\ DOMAIN attempts \subseteq JobId \X Nat
    /\ chain \in [DOMAIN jobs -> JobId]
    /\ dead_letters \in [JobId -> Nat]

WorkersTypeOK ==
    /\ pc \in [Worker -> PC]
    /\ job \in [Worker -> JobId \cup {None}]
    /\ seen \in [Worker -> Row \cup {None}]
    /\ \A w \in Worker : /\ pc[w] # "idle" => job[w] \in DOMAIN jobs
                         /\ pc[w] \in Loaded => seen[w] \in Row

ApiTypeOK ==
    /\ drain \in BOOLEAN \cup {None}
    /\ cancelling \in [Canceller -> CancelRequest \cup {None}]
    /\ \A c \in Canceller : cancelling[c] # None => cancelling[c].job \in DOMAIN jobs
    /\ draining \in [Operator -> DrainRequest \cup {None}]

\* The tables and the processes hold what the schema and the code allow; in
\* particular a process that is past its query works on a row that exists.
TypeOK == TablesTypeOK /\ WorkersTypeOK /\ ApiTypeOK

Init ==
    /\ jobs = << >> /\ due = {} /\ attempts = << >> /\ chain = << >>
    /\ drain = None
    /\ pc = [w \in Worker |-> "idle"]
    /\ job = [w \in Worker |-> None]
    /\ seen = [w \in Worker |-> None]
    /\ cancelling = [c \in Canceller |-> None]
    /\ draining = [o \in Operator |-> None]
    /\ dead_letters = [j \in JobId |-> 0]

-----------------------------------------------------------------------------
(* create_job without an idempotency key: one INSERT.  A run_at that is    *)
(* absent or past makes the job due at once.                               *)
CreateJob(j, retries, cron, delayed) ==
    /\ j \in JobId \ DOMAIN jobs
    /\ jobs' = Store(jobs, j, NewRow(retries, cron))
    /\ due' = IF delayed THEN due ELSE due \cup {j}
    /\ chain' = Store(chain, j, j)
    /\ UNCHANGED <<attempts, workers, api, dead_letters>>

\* The clock passes next_run_at of j.
BecomeDue(j) ==
    /\ j \in DOMAIN jobs \ due
    /\ due' = due \cup {j}
    /\ UNCHANGED <<jobs, attempts, chain, workers, api, dead_letters>>

-----------------------------------------------------------------------------
(* Moves of a worker between the stages of process_job.                    *)
\* Mutation: the stage is entered without the loaded row.
GotoEmptyHanded(w, stage, row) ==
    /\ pc' = [pc EXCEPT ![w] = stage]
    /\ UNCHANGED seen

Goto(w, stage, row) ==
    /\ pc' = [pc EXCEPT ![w] = stage]
    /\ seen' = [seen EXCEPT ![w] = row]

\* process_job returns, or the process dies and is started again: whatever was
\* not committed is gone, and nothing is taken up from where it was.
Leave(w) ==
    /\ Goto(w, "idle", None)
    /\ job' = [job EXCEPT ![w] = None]

\* Mutation: claim_job does not look at drain_enabled.
ClaimUnchecked(w, j) ==
    /\ pc[w] = "idle"
    /\ j \in DOMAIN jobs
    /\ pc' = [pc EXCEPT ![w] = "undrained"]
    /\ job' = [job EXCEPT ![w] = j]
    /\ UNCHANGED <<tables, seen, api, dead_letters>>

\* claim_job, first query: get_drain.
ClaimCheckDrain(w, j) ==
    /\ pc[w] = "idle"
    /\ j \in DOMAIN jobs
    /\ drain # TRUE
    /\ pc' = [pc EXCEPT ![w] = "undrained"]
    /\ job' = [job EXCEPT ![w] = j]
    /\ UNCHANGED <<tables, seen, api, dead_letters>>

\* Mutation: claim_job takes any job that is due, whatever its status.
ClaimableWhenDue(j) == j \in due

Claimable(j) == jobs[j].status \in Pending /\ j \in due

\* claim_job, second query: load the row, and return None unless it is
\* pending and due.
ClaimLoad(w) ==
    /\ pc[w] = "undrained"
    /\ \/ /\ Claimable(job[w])
          /\ Goto(w, "claiming", jobs[job[w]])
          /\ UNCHANGED job
       \/ /\ ~Claimable(job[w])
          /\ Leave(w)
    /\ UNCHANGED <<tables, api, dead_letters>>

\* Mutation: job_attempts without its unique constraint.
AnyAttemptKey(key) == TRUE

\* The UNIQUE (job_id, attempt_number) constraint of job_attempts.
AttemptKeyFree(key) == key \notin DOMAIN attempts

\* claim_job, commit: the UPDATE of the row and the INSERT of the attempt are
\* one transaction.  If the attempt exists already the IntegrityError leaves
\* process_job and the worker loop, and the worker process ends.
ClaimCommit(w) ==
    LET j == job[w]
        new == Claimed(seen[w])
        key == <<j, new.attempt_count>>
    IN  /\ pc[w] = "claiming"
        /\ \/ /\ AttemptKeyFree(key)
              /\ jobs' = [jobs EXCEPT ![j] = Flush(@, seen[w], new)]
              /\ attempts' = Store(attempts, key, "running")
              /\ Goto(w, "running", None)
              /\ UNCHANGED <<due, chain, job>>
           \/ /\ ~AttemptKeyFree(key)
              /\ Leave(w)
              /\ UNCHANGED tables
        /\ UNCHANGED <<api, dead_letters>>

-----------------------------------------------------------------------------
\* Mutations: the attempt before the current one is finished; none is.
FinishPreviousAttempt(j, row, status) ==
    LET key == <<j, row.attempt_count - 1>>
    IN  IF key \in DOMAIN attempts THEN [attempts EXCEPT ![key] = status] ELSE attempts

FinishNoAttempt(j, row, status) == attempts

\* _finish_attempt: the attempt numbered by the loaded attempt_count, if any.
FinishAttempt(j, row, status) ==
    LET key == <<j, row.attempt_count>>
    IN  IF key \in DOMAIN attempts THEN [attempts EXCEPT ![key] = status] ELSE attempts

\* The handler returned a result: mark_succeeded loads the row.
MarkSucceededLoad(w) ==
    /\ pc[w] = "running"
    /\ Goto(w, "succeeding", jobs[job[w]])
    /\ UNCHANGED <<tables, job, api, dead_letters>>

MarkSucceededCommit(w) ==
    LET j == job[w]
    IN  /\ pc[w] = "succeeding"
        /\ jobs' = [jobs EXCEPT ![j] = Flush(@, seen[w], Succeeded(seen[w]))]
        /\ attempts' = FinishAttempt(j, seen[w], "succeeded")
        /\ Goto(w, "recurring", None)
        /\ UNCHANGED <<due, chain, job, api, dead_letters>>

\* Mutation: the worker stays in create_next_recurring_job, as a retry of the
\* INSERT after it has committed would.
CreateNextAgain(w) ==
    LET j == job[w]
    IN  /\ pc[w] = "recurring"
        /\ jobs[j].cron = "valid"
        /\ \E k \in JobId \ DOMAIN jobs, cron \in CronKind \ {"none"} :
              /\ jobs' = Store(jobs, k, NewRow(jobs[j].max_retries, cron))
              /\ chain' = Store(chain, k, chain[j])
        /\ UNCHANGED <<due, attempts, workers, api, dead_letters>>

\* create_next_recurring_job: nothing for a job without a schedule, else the
\* INSERT of the next occurrence, whose next_run_at is in the future.  When it
\* has run, its schedule may have no run in the next year any more.
CreateNextRecurring(w) ==
    LET j == job[w]
    IN  /\ pc[w] = "recurring"
        /\ \/ /\ jobs[j].cron = "none"
              /\ UNCHANGED <<jobs, chain>>
           \/ /\ jobs[j].cron = "valid"
              /\ \E k \in JobId \ DOMAIN jobs, cron \in CronKind \ {"none"} :
                    /\ jobs' = Store(jobs, k, NewRow(jobs[j].max_retries, cron))
                    /\ chain' = Store(chain, k, chain[j])
        /\ Leave(w)
        /\ UNCHANGED <<due, attempts, api, dead_letters>>

\* The except clause of process_job: mark_failed_attempt loads the row.  It is
\* reached when the handler raised, timed out or ended without a result, and
\* also when next_cron_run raised, after mark_succeeded has committed.
MarkFailedLoad(w) ==
    /\ \/ pc[w] = "running"
       \/ pc[w] = "recurring" /\ jobs[job[w]].cron = "impossible"
    /\ Goto(w, "failing", jobs[job[w]])
    /\ UNCHANGED <<tables, job, api, dead_letters>>

\* mark_failed_attempt, commit: next_run_at is at least a second away.
MarkFailedCommit(w) ==
    LET j == job[w]
    IN  /\ pc[w] = "failing"
        /\ jobs' = [jobs EXCEPT ![j] = Flush(@, seen[w], FailedAttempt(seen[w]))]
        /\ due' = due \ {j}
        /\ attempts' = FinishAttempt(j, seen[w], "failed")
        /\ Goto(w, "failed", None)
        /\ UNCHANGED <<chain, job, api, dead_letters>>

\* Mutation: every failed attempt is reported, not only the last one.
ReportEveryFailure(w) ==
    /\ pc[w] = "failed"
    /\ Goto(w, "dead_letter", None)
    /\ UNCHANGED <<tables, job, api, dead_letters>>

\* mark_failed_attempt reads the row again after its commit, and process_job
\* publishes a dead-letter event only if it now says dead_lettered.
MarkFailedRefresh(w) ==
    /\ pc[w] = "failed"
    /\ \/ /\ jobs[job[w]].status = "dead_lettered"
          /\ Goto(w, "dead_letter", None)
          /\ UNCHANGED job
       \/ /\ jobs[job[w]].status # "dead_lettered"
          /\ Leave(w)
    /\ UNCHANGED <<tables, api, dead_letters>>

PublishDeadLetter(w) ==
    /\ pc[w] = "dead_letter"
    /\ dead_letters' = [dead_letters EXCEPT ![job[w]] = @ + 1]
    /\ Leave(w)
    /\ UNCHANGED <<tables, api>>

\* The process is killed, or an exception that process_job does not handle
\* ends it: a lost database connection, a failing dead-letter publish, or, right
\* after the claim, a handler that this worker's version does not have.
Crash(w) ==
    /\ pc[w] # "idle"
    /\ Leave(w)
    /\ UNCHANGED <<tables, api, dead_letters>>

-----------------------------------------------------------------------------
\* cancel_job, load: any other status is answered with 409.
CancelLoad(c, j) ==
    /\ cancelling[c] = None
    /\ j \in DOMAIN jobs
    /\ jobs[j].status \in Pending
    /\ cancelling' = [cancelling EXCEPT ![c] = [job |-> j, row |-> jobs[j]]]
    /\ UNCHANGED <<tables, workers, drain, draining, dead_letters>>

CancelCommit(c) ==
    LET j == cancelling[c].job
        row == cancelling[c].row
    IN  /\ cancelling[c] # None
        /\ jobs' = [jobs EXCEPT ![j] = Flush(@, row, Cancelled(row))]
        /\ cancelling' = [cancelling EXCEPT ![c] = None]
        /\ UNCHANGED <<due, attempts, chain, workers, drain, draining, dead_letters>>

SetDrainLoad(o, enabled) ==
    /\ draining[o] = None
    /\ draining' = [draining EXCEPT ![o] = [enabled |-> enabled, was |-> drain]]
    /\ UNCHANGED <<tables, workers, drain, cancelling, dead_letters>>

\* set_drain, commit: an INSERT if the setting did not exist, which fails if it
\* does by now, else an UPDATE that leaves an equal value alone.
SetDrainCommit(o) ==
    LET request == draining[o]
        keeps == IF request.was = None THEN drain # None ELSE request.enabled = request.was
    IN  /\ request # None
        /\ drain' = IF keeps THEN drain ELSE request.enabled
        /\ draining' = [draining EXCEPT ![o] = None]
        /\ UNCHANGED <<tables, workers, cancelling, dead_letters>>

-----------------------------------------------------------------------------
(* process_job after its first query, up to its return.  A crash is not    *)
(* part of it: nothing makes a process fail.                               *)
ProcessJob(w) ==
    \/ ClaimLoad(w)
    \/ ClaimCommit(w)
    \/ MarkSucceededLoad(w)
    \/ MarkSucceededCommit(w)
    \/ CreateNextRecurring(w)
    \/ MarkFailedLoad(w)
    \/ MarkFailedCommit(w)
    \/ MarkFailedRefresh(w)
    \/ PublishDeadLetter(w)

Next ==
    \/ \E j \in JobId, retries \in RetryLimit, cron \in CronKind, delayed \in BOOLEAN :
          CreateJob(j, retries, cron, delayed)
    \/ \E j \in JobId : BecomeDue(j)
    \/ \E w \in Worker : (\E j \in JobId : ClaimCheckDrain(w, j)) \/ ProcessJob(w) \/ Crash(w)
    \/ \E c \in Canceller : (\E j \in JobId : CancelLoad(c, j)) \/ CancelCommit(c)
    \/ \E o \in Operator : (\E enabled \in BOOLEAN : SetDrainLoad(o, enabled)) \/ SetDrainCommit(o)

Spec == Init /\ [][Next]_vars

-----------------------------------------------------------------------------
(* Safety.                                                                 *)

ExecutorsOf(j) == {w \in Worker : job[w] = j /\ pc[w] \in Executing}
HoldersOf(j) == {w \in Worker : job[w] = j /\ pc[w] \in Executing \cup {"claiming"}}
LastAttempt(j) == attempts[<<j, jobs[j].attempt_count>>]

\* However many messages name a job and whatever cancellations intervene, two
\* workers never execute attempts of one job at the same time (claim_job has no
\* row lock and no conditional update; only the attempt's unique key is there).
OneExecutor ==
    \A j \in DOMAIN jobs, v, w \in Worker : v \in ExecutorsOf(j) /\ w \in ExecutorsOf(j) => v = w

\* job_attempts is the exact history of attempt_count: attempts 1 to
\* attempt_count exist, no other does, and each attempt before the last has
\* failed.  Column and table are written by different statements.
AttemptLedger ==
    /\ \A j \in DOMAIN jobs : \A n \in 1 .. jobs[j].attempt_count : <<j, n>> \in DOMAIN attempts
    /\ \A key \in DOMAIN attempts :
          key[1] \in DOMAIN jobs /\ key[2] \in 1 .. jobs[key[1]].attempt_count
    /\ \A key \in DOMAIN attempts :
          key[2] < jobs[key[1]].attempt_count => attempts[key] = "failed"

\* A job is attempted at most max_retries + 1 times, also when a stale claim or
\* a stale cancellation overwrites its status between two attempts.
RetryBound == \A j \in DOMAIN jobs : jobs[j].attempt_count <= jobs[j].max_retries + 1

\* A final status is backed by the rest of the row and by the attempt table: a
\* succeeded job has its result and a last attempt that succeeded; a dead job
\* has used its whole budget and its last attempt failed; neither is locked.
OutcomeRecorded ==
    \A j \in DOMAIN jobs :
        /\ jobs[j].status = "succeeded" =>
              /\ jobs[j].result /\ ~jobs[j].locked
              /\ LastAttempt(j) = "succeeded"
        /\ jobs[j].status = "dead_lettered" =>
              /\ Exhausted(jobs[j]) /\ ~jobs[j].locked
              /\ LastAttempt(j) = "failed"

\* A dead-letter event is about a job that no worker will run again: its budget
\* is used up, its last attempt failed, and only a late cancellation can still
\* change its status.  The event is decided on a row read after the commit.
DeadLetterIsFinal ==
    \A j \in DOMAIN jobs : dead_letters[j] > 0 =>
        /\ jobs[j].attempt_count = jobs[j].max_retries + 1
        /\ LastAttempt(j) = "failed"
        /\ jobs[j].status \in {"dead_lettered", "cancelled"}
        /\ ExecutorsOf(j) = {}

\* A recurrence never forks: of the jobs that descend from one submission at
\* most one is waiting, running or about to create the next occurrence.
Live(j) == jobs[j].status \in Pending \cup {"running"} \/ ExecutorsOf(j) # {}
OneLiveOccurrence ==
    \A j, k \in DOMAIN jobs : chain[j] = chain[k] /\ Live(j) /\ Live(k) => j = k

\* Once a job is cancelled and no worker is still claiming or executing it from
\* before, it stays so: it is never claimed or executed, and neither its row nor
\* its attempts change again.
AtRest(j) == j \in DOMAIN jobs /\ jobs[j].status = "cancelled" /\ HoldersOf(j) = {}
History(j) == [n \in 1 .. jobs[j].attempt_count |-> attempts[<<j, n>>]]
CancellationFinal ==
    [][\A j \in JobId : AtRest(j) => AtRest(j)' /\ UNCHANGED <<jobs[j], History(j)>>]_vars

-----------------------------------------------------------------------------
(* What the documents say and the code does not do.                        *)

\* SPEC.md: "Cancelled jobs are never claimed."
CancelledNeverClaimed ==
    [][\A j \in DOMAIN jobs : jobs[j].status = "cancelled" => jobs'[j].status # "running"]_vars

\* A job that succeeded is skipped from then on, as the tests and SPEC.md have
\* it: its status is never changed again.
SuccessIsFinal ==
    [][\A j \in DOMAIN jobs : jobs[j].status = "succeeded" => jobs'[j].status = "succeeded"]_vars

-----------------------------------------------------------------------------
(* The life of a job as the documents describe it, which the repository    *)
(* implements except for two things: cancellations are decided on statuses *)
(* that may be out of date, and a schedule without a next run turns a      *)
(* success into a failure.                                                 *)
Lifecycle == INSTANCE JobLifecycle WITH
    StaleCancel <- Canceller # {},
    FailsLate <- "impossible" \in CronKind,
    jobs <- [j \in DOMAIN jobs |-> [status |-> jobs[j].status,
                                    attempt_count |-> jobs[j].attempt_count,
                                    max_retries |-> jobs[j].max_retries]]

\* Every step of workers, clients and clock is a step of the life of a job, or
\* changes nothing of it: no interleaving of sessions skips or repeats an
\* attempt, exceeds the retries or revives a job that ended.
ImplementsLifecycle == Lifecycle!Spec
=============================================================================
