------------------------- MODULE InMemoryRepository -------------------------
(***************************************************************************)
(* InMemoryJobRepository, the repository the tests run the service on,     *)
(* under the threads of an API.  An operation that modifies a job is two   *)
(* steps, as in SqlJobRepository: it reads the record, and puts a record   *)
(* computed from what it read in its place.  Here a lock is held from the  *)
(* one to the other.  create_next_recurring_job and set_drain do not take  *)
(* it, and each is a single assignment.                                    *)
(***************************************************************************)
EXTENDS JobRow

CONSTANTS JobId,       \* uuids; finite in a model, where it bounds the jobs
          Thread,      \* threads that call the service
          Key,         \* idempotency keys
          RetryLimit,  \* values of max_retries clients submit
          CronKind,    \* kinds of recurring_cron clients submit
          None         \* no thread, no job, no key, no record

ASSUME MemoryAssumption ==
    /\ RetryLimit \subseteq Nat
    /\ CronKind \subseteq Cron
    /\ None \notin Thread /\ None \notin JobId /\ None \notin Key /\ None \notin Row

VARIABLES
    jobs,           \* id -> record
    due,            \* the jobs whose next_run_at is not in the future
    key_of,         \* id -> idempotency_key of the record
    idempotency,    \* the index: key -> id
    drain_enabled,
    lock,           \* the thread that holds the lock
    pc, job, seen,  \* where each thread is, the job of its call, the record it read
    dead_letters    \* id -> number of events at the producer

records == <<jobs, key_of, idempotency>>
threads == <<pc, job, seen>>
vars == <<records, due, drain_enabled, lock, threads, dead_letters>>

Inside == {"claiming", "succeeding", "failing", "cancelling"}
Executing == {"running", "succeeding", "recurring", "failing"}
PC == {"idle", "dead_letter"} \cup Inside \cup Executing

RecordsTypeOK ==
    /\ jobs \in [DOMAIN jobs -> Row] /\ DOMAIN jobs \subseteq JobId
    /\ key_of \in [DOMAIN jobs -> Key \cup {None}]
    /\ idempotency \in [DOMAIN idempotency -> DOMAIN jobs] /\ DOMAIN idempotency \subseteq Key
    /\ due \subseteq JobId
    /\ dead_letters \in [JobId -> Nat]

ThreadsTypeOK ==
    /\ drain_enabled \in BOOLEAN
    /\ lock \in Thread \cup {None}
    /\ pc \in [Thread -> PC]
    /\ job \in [Thread -> JobId \cup {None}]
    /\ seen \in [Thread -> Row \cup {None}]
    /\ \A t \in Thread : /\ pc[t] # "idle" => job[t] \in DOMAIN jobs
                         /\ pc[t] \in Inside => lock = t /\ seen[t] \in Row

\* The records and threads hold what the code allows; in particular a thread
\* between reading and writing a record is the one that holds the lock.
TypeOK == RecordsTypeOK /\ ThreadsTypeOK

Init ==
    /\ jobs = << >> /\ key_of = << >> /\ idempotency = << >>
    /\ due = {}
    /\ drain_enabled = FALSE
    /\ lock = None
    /\ pc = [t \in Thread |-> "idle"]
    /\ job = [t \in Thread |-> None] /\ seen = [t \in Thread |-> None]
    /\ dead_letters = [j \in JobId |-> 0]

-----------------------------------------------------------------------------
(* The parts of an operation.                                              *)

\* Mutation: the lock is taken without waiting for it.
Barge(t, stage, j) ==
    /\ lock' = t
    /\ pc' = [pc EXCEPT ![t] = stage]
    /\ job' = [job EXCEPT ![t] = j]
    /\ seen' = [seen EXCEPT ![t] = jobs[j]]

\* with self.lock: the record of the job is read.
Enter(t, stage, j) ==
    /\ lock = None /\ lock' = t
    /\ pc' = [pc EXCEPT ![t] = stage]
    /\ job' = [job EXCEPT ![t] = j]
    /\ seen' = [seen EXCEPT ![t] = jobs[j]]

Go(t, stage) == pc' = [pc EXCEPT ![t] = stage] /\ seen' = [seen EXCEPT ![t] = None]

\* The call returns.
Return(t) == Go(t, "idle") /\ job' = [job EXCEPT ![t] = None]

\* self.jobs[job_id] = JobRecord(**updated): the whole record is replaced, and
\* the lock is released.
Replace(t, record) ==
    /\ jobs' = [jobs EXCEPT ![job[t]] = record]
    /\ lock' = None
    /\ UNCHANGED <<key_of, idempotency>>

Insert(j, retries, cron, key) ==
    /\ j \notin DOMAIN jobs
    /\ jobs' = Store(jobs, j, NewRow(retries, cron))
    /\ key_of' = Store(key_of, j, key)

-----------------------------------------------------------------------------
\* create_job.  With a key that is in the index it returns the job it has.
CreateJob(j, retries, cron, key, delayed) ==
    /\ lock = None
    /\ key \notin DOMAIN idempotency
    /\ Insert(j, retries, cron, key)
    /\ idempotency' = IF key = None THEN idempotency ELSE Store(idempotency, key, j)
    /\ due' = IF delayed THEN due ELSE due \cup {j}
    /\ UNCHANGED <<drain_enabled, lock, threads, dead_letters>>

\* The clock passes next_run_at of j.
BecomeDue(j) ==
    /\ j \in DOMAIN jobs \ due
    /\ due' = due \cup {j}
    /\ UNCHANGED <<records, drain_enabled, lock, threads, dead_letters>>

\* claim_job, up to its decision: otherwise it returns None.
ClaimRead(t, j) ==
    /\ pc[t] = "idle"
    /\ ~drain_enabled
    /\ j \in due \cap DOMAIN jobs /\ jobs[j].status \in Pending
    /\ Enter(t, "claiming", j)
    /\ UNCHANGED <<records, due, drain_enabled, dead_letters>>

ClaimWrite(t) ==
    /\ pc[t] = "claiming"
    /\ Replace(t, Claimed(seen[t]))
    /\ Go(t, "running")
    /\ UNCHANGED <<due, job, drain_enabled, dead_letters>>

\* The handler returned a result.
MarkSucceededRead(t) ==
    /\ pc[t] = "running"
    /\ Enter(t, "succeeding", job[t])
    /\ UNCHANGED <<records, due, drain_enabled, dead_letters>>

MarkSucceededWrite(t) ==
    /\ pc[t] = "succeeding"
    /\ Replace(t, Succeeded(seen[t]))
    /\ Go(t, "recurring")
    /\ UNCHANGED <<due, job, drain_enabled, dead_letters>>

\* Mutation: the next occurrence is submitted with the key of its predecessor.
CreateNextWithKey(t) ==
    /\ pc[t] = "recurring"
    /\ \/ jobs[job[t]].cron = "none" /\ UNCHANGED records
       \/ /\ jobs[job[t]].cron = "valid"
          /\ \E j \in JobId, cron \in CronKind \ {"none"} :
                Insert(j, jobs[job[t]].max_retries, cron, key_of[job[t]])
          /\ UNCHANGED idempotency
    /\ Return(t)
    /\ UNCHANGED <<due, drain_enabled, lock, dead_letters>>

\* create_next_recurring_job, without the lock: the next occurrence has no key,
\* and may be the last one that its schedule has within a year.
CreateNextRecurring(t) ==
    /\ pc[t] = "recurring"
    /\ \/ jobs[job[t]].cron = "none" /\ UNCHANGED records
       \/ /\ jobs[job[t]].cron = "valid"
          /\ \E j \in JobId, cron \in CronKind \ {"none"} :
                Insert(j, jobs[job[t]].max_retries, cron, None)
          /\ UNCHANGED idempotency
    /\ Return(t)
    /\ UNCHANGED <<due, drain_enabled, lock, dead_letters>>

\* The except clause: the attempt failed, or next_cron_run raised.
MarkFailedRead(t) ==
    /\ pc[t] = "running" \/ (pc[t] = "recurring" /\ jobs[job[t]].cron = "impossible")
    /\ Enter(t, "failing", job[t])
    /\ UNCHANGED <<records, due, drain_enabled, dead_letters>>

\* Mutation: any failed attempt counts as processed.
MemoryFailedProcessed(record) == [FailedAttempt(record) EXCEPT !.processed = TRUE]

\* Unlike the SQL repository, processed_at is cleared unless this was the last
\* attempt.
MemoryFailed(record) == [FailedAttempt(record) EXCEPT !.processed = Exhausted(record)]

\* process_job decides on the record it gets back, and the call is over unless
\* that says dead_lettered.
MarkFailedWrite(t) ==
    /\ pc[t] = "failing"
    /\ Replace(t, MemoryFailed(seen[t]))
    /\ due' = due \ {job[t]}
    /\ IF Exhausted(seen[t]) THEN Go(t, "dead_letter") /\ UNCHANGED job ELSE Return(t)
    /\ UNCHANGED <<drain_enabled, dead_letters>>

\* Mutation: the lock is only taken to write.
CancelReadUnlocked(t, j) ==
    /\ pc[t] = "idle"
    /\ j \in DOMAIN jobs /\ jobs[j].status \in Pending
    /\ Barge(t, "cancelling", j)
    /\ UNCHANGED <<records, due, drain_enabled, dead_letters>>

\* publish_dead_letter of the tests' producer, which may not be available.
PublishDeadLetter(t) ==
    /\ pc[t] = "dead_letter"
    /\ \/ dead_letters' = [dead_letters EXCEPT ![job[t]] = @ + 1]
       \/ UNCHANGED dead_letters
    /\ Return(t)
    /\ UNCHANGED <<records, due, drain_enabled, lock>>

\* cancel_job, up to its decision: otherwise it raises a conflict.
CancelRead(t, j) ==
    /\ pc[t] = "idle"
    /\ j \in DOMAIN jobs /\ jobs[j].status \in Pending
    /\ Enter(t, "cancelling", j)
    /\ UNCHANGED <<records, due, drain_enabled, dead_letters>>

CancelWrite(t) ==
    /\ pc[t] = "cancelling"
    /\ Replace(t, Cancelled(seen[t]))
    /\ Return(t)
    /\ UNCHANGED <<due, drain_enabled, dead_letters>>

SetDrain(enabled) ==
    /\ drain_enabled' = enabled
    /\ UNCHANGED <<records, due, lock, threads, dead_letters>>

ProcessJob(t) ==
    \/ (\E j \in JobId : ClaimRead(t, j)) \/ ClaimWrite(t)
    \/ MarkSucceededRead(t) \/ MarkSucceededWrite(t) \/ CreateNextRecurring(t)
    \/ MarkFailedRead(t) \/ MarkFailedWrite(t) \/ PublishDeadLetter(t)

Next ==
    \/ \E j \in JobId, retries \in RetryLimit, cron \in CronKind, key \in Key \cup {None},
          delayed \in BOOLEAN : CreateJob(j, retries, cron, key, delayed)
    \/ \E j \in JobId : BecomeDue(j)
    \/ \E t \in Thread : ProcessJob(t) \/ (\E j \in JobId : CancelRead(t, j)) \/ CancelWrite(t)
    \/ \E enabled \in BOOLEAN : SetDrain(enabled)

Spec == Init /\ [][Next]_vars

-----------------------------------------------------------------------------
\* The index and the records agree: an idempotency key names one job for ever,
\* whatever recurrences descend from it.
OneJobPerKey ==
    \A j \in DOMAIN jobs : key_of[j] # None =>
        key_of[j] \in DOMAIN idempotency /\ idempotency[key_of[j]] = j

\* processed_at is set exactly for the jobs that have ended: the latencies of
\* the metrics are those of finished jobs.  Not so in the SQL repository.
ProcessedWhenEnded == \A j \in DOMAIN jobs : jobs[j].processed <=> jobs[j].status \in Terminal

\* At most one event is sent of a job, and only of one that stays buried.
OneDeadLetter ==
    \A j \in JobId : dead_letters[j] > 0 =>
        dead_letters[j] = 1 /\ j \in DOMAIN jobs /\ jobs[j].status = "dead_lettered"

\* The documented life of a job, cancellation included: what the lock gives and
\* the SQL repository lacks.
Lifecycle == INSTANCE JobLifecycle WITH
    StaleCancel <- FALSE,
    FailsLate <- "impossible" \in CronKind,
    jobs <- [j \in DOMAIN jobs |-> [status |-> jobs[j].status,
                                    attempt_count |-> jobs[j].attempt_count,
                                    max_retries |-> jobs[j].max_retries]]

\* Every step of threads and clock is a step of the documented life of a job,
\* cancellation included, or changes nothing of it.
ImplementsLifecycle == Lifecycle!Spec
=============================================================================
