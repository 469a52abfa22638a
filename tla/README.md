# Verification of the async job processing pipeline

TLA+ models of the job processing service under `src/`, the TLC runs that check
them on small instances, and TLAPS proofs about them for every value of their
constants. Line numbers refer to files under `src/`.

Run a check with `tlc -workers 2 -config sql_races.cfg MCSqlJobRepository.tla`,
a proof with `tlapm SqlJobRepositoryProofs.tla`. `PROJECT.json` is the index: the
runs, the mutations each property is shown to reject, the source lines of every
definition, the hazards, the findings and the theorems.

## 1. The system

A client submits a job over HTTP. The API commits it to PostgreSQL and then
publishes its id to a Kafka topic. Worker processes consume the ids, claim the
job, run its handler in a child process and record the outcome. There is no
scheduler: between two polls every worker publishes the due jobs again, which is
how retries, delayed jobs, recurrences and lost publishes reach a worker.

| Component | State | Operations | Interacts with |
|---|---|---|---|
| Job repository on PostgreSQL (`app/jobs/repositories.py`, `app/db/models.py`) | tables `jobs`, `job_attempts`, `ops_settings` | create, due, claim, mark succeeded / failed, next occurrence, cancel, drain | called by the service, one session per job or request |
| Job service (`app/jobs/service.py`) | none of its own | submit, `process_job`, `publish_due_jobs`, `_run_with_timeout` | repository, queue, handler child process |
| Handler process (`_handler_process`, `app/jobs/handlers.py`) | child process, `multiprocessing.Queue`, signals | run the handler, put the outcome | parent worker through a pipe and SIGTERM |
| Worker loop (`app/worker.py`) | `running` flag, consumer positions | poll, sweep, process, commit offsets, stop | service, Kafka |
| Queue (`app/queue/kafka.py`) | topics by priority, dead-letter topic | publish, consume | API and workers |
| HTTP API (`app/main.py`, `app/jobs/schemas.py`, `app/core/errors.py`) | none | submit, read, cancel, drain, metrics | service |
| In-memory repository (`app/jobs/repositories.py`) | dictionaries under a `Lock` | the same as the SQL one | tests |
| Cron (`app/jobs/scheduling.py`) | none | validate, next run | service, schemas, repository |
| Metrics (`metrics`, `queue_depth`, percentiles) | none | several SELECTs per report, pages of a list | API |
| Configuration, session, deployment | settings | | all |

What is hard about it:

- **Stale rows.** Every repository operation loads a row, decides in Python and
  writes the changed columns back by primary key. No SELECT locks, no UPDATE has a
  condition, and the isolation level is READ COMMITTED. What each column is
  compared with and what is written are therefore different states of the table.
- **At-least-once messages.** Each worker republishes each due job at each poll;
  a rebalance redelivers. Two workers with one job id at the same time is the
  normal case, and the only thing between them is the unique key
  `(job_id, attempt_number)` of the attempt.
- **Less than once.** `consumer.commit()` after the first message of a polled batch
  commits past all of them (`worker.py:58`); a publish may fail after the job was
  committed (`service.py:29`).
- **Crashes.** A worker may die between any two commits. There is no reaper, and
  several ordinary errors end the worker process: an `IntegrityError` of a lost
  claim race, a failing dead-letter publish.
- **Processes, signals and a bounded pipe.** The timeout of an attempt rests on
  SIGTERM to a child that inherited a handler for it, and on a queue whose feeder
  thread the child joins when it ends.

What makes each component correct:

- repository and `process_job`: one executor per job, an exact attempt table,
  bounded retries, final statuses that stay final and are backed by the
  attempts, recurrences that do not fork, cancellation that sticks, a drain that
  lets each worker start no more than what it had begun to claim;
- handler process: a verdict that is the truth, no process left behind, a call
  that returns;
- submission: one job per idempotency key whatever the interleaving, no answer
  about a job that is not committed, no committed job that stays pending for ever;
- worker loop: no message is lost for good, offsets and retries make progress;
- in-memory repository: the same contract as the SQL one;
- cron: the answer is the first run there is, and the search ends;
- metrics, depth, lists: reports that are put together from several snapshots
  count no success as a failure and miss no job that rests; paging misses none.

## 2. The modules

| Module | Models | Built on |
|---|---|---|
| `JobRow` | a row of `jobs`, the assignments of each operation, the UPDATE of a session | |
| `JobRowProofs` | lemmas about these operators | `JobRow` |
| `SqlJobRepository` | `process_job`, `cancel_job`, `set_drain`, `create_job` on PostgreSQL | `JobRow`, `JobLifecycle` (refinement) |
| `JobLifecycle` | abstract: the life of a job, each operation atomic | |
| `MCSqlJobRepository` | symmetry sets for TLC | `SqlJobRepository` |
| `SqlJobRepositoryProofs` | theorems: types, executors, attempts, retries; outcomes, dead letters, recurrences, cancellations, successes, refinement | `SqlJobRepository`, `JobRowProofs` |
| `JobQueries` | `queue_depth`, `metrics` and paging through `list_jobs`, while the table changes | `SqlJobRepository` (composition) |
| `JobQueriesProofs` | theorems | `JobQueries`, `SqlJobRepositoryProofs` |
| `WorkerLoop` | `Worker.run` of all workers, Kafka topics, offsets and the consumer group | `SqlJobRepository` (composition) |
| `MCWorkerLoop` | priorities for TLC | `WorkerLoop` |
| `DrainMode` | which claims are committed while drain mode is on | `WorkerLoop` (with a history variable) |
| `MCDrainMode` | priorities for TLC | `DrainMode`, `MCWorkerLoop` |
| `WorkerLoopProofs` | theorems, that on drains included | `DrainMode`, `SqlJobRepositoryProofs` |
| `InMemoryRepository` | `InMemoryJobRepository` under concurrent threads | `JobRow`, `JobLifecycle` (refinement) |
| `MCInMemoryRepository` | symmetry sets for TLC | `InMemoryRepository` |
| `InMemoryRepositoryProofs` | theorems | `InMemoryRepository`, `JobRowProofs` |
| `HandlerProcess` | one call of `_run_with_timeout` and its child | |
| `HandlerProcessProofs` | theorems | `HandlerProcess` |
| `JobSubmission` | `submit_job`, `publish_due_jobs`, delivery | `JobIntake` (refinement) |
| `MCJobSubmission` | requests for TLC | `JobSubmission` |
| `JobIntake` | abstract: a request, a delivery and a drain take effect in one step each | |
| `JobSubmissionProofs` | theorems | `JobSubmission` |
| `Cron` | `next_cron_run`, its validation and its search | |
| `MCCron` | schedules and instants for TLC | `Cron` |
| `CronProofs` | theorems | `Cron` |

Definitions whose comment begins with *Mutation* are not part of a
specification. Each is what a definition below it would be after a plausible
mistake, and the index names the property that rejects it.

### SqlJobRepository

| State | In the code |
|---|---|
| `jobs` | table `jobs`; a row keeps status, attempt_count, max_retries, the kind of schedule, and whether locked_at, result and processed_at are set |
| `due` | the jobs with `next_run_at <= now`; it is a relation of row and clock |
| `attempts` | table `job_attempts`, keyed by its unique constraint |
| `drain` | setting `drain_enabled`, `None` before its row exists |
| `pc`, `job`, `seen` | where each worker is in `process_job`, its message, the row in its session |
| `cancelling`, `draining` | API requests between their SELECT and their commit |
| `dead_letters` | number of events on the dead-letter topic, per job |
| `chain` | history variable: the submission a recurrence descends from |

An operation on a job is two actions, `...Load` (the SELECT and the decision on
it) and `...Commit` (the flush). `Flush` is the ORM's rule: only columns whose
value differs from the loaded one are written, the others keep what the table
holds by now. With `autoflush=False` and one session per message this is exactly
what an interleaved actor can observe. `claim_job` is three steps, since
`get_drain` is a query of its own. The order of `process_job` is the order of
`pc`: `undrained`, `claiming`, `running`, `succeeding`, `recurring`, or `failing`,
`failed`, `dead_letter`.

A message may reach any idle worker at any time, any number of times
(`ClaimCheckDrain` takes any job). That covers duplicates, reordering,
redelivery and loss without a topic as state. `Crash` is possible at every stage
and returns the worker to `idle`, losing what was not committed. Losing the race
on the attempt's key is an `IntegrityError` that nobody handles: the worker ends
and is started again, the same as leaving.

The except clause of `process_job` is modelled as written: it is reached also
when `create_next_recurring_job` raises after `mark_succeeded` has committed
(`MarkFailedLoad` from `recurring`).

What `JobLifecycle` promises is what `SPEC.md:510-533` describes, weakened by two
constants where the code needs it. `StaleCancel` lets a cancellation overwrite any
status and be overwritten by a claim or an outcome that loaded the row before;
`FailsLate` lets an attempt that succeeded be recorded as failed. The refinement
gives them the value TRUE only for an instance that has cancellers, or schedules
without a next run; the number of attempts, its limit, and the finality of every
other status are promised in any case. The in-memory repository needs only the
second.

### JobQueries

A report (`GET /queue/depth`, `GET /metrics`) is a sequence of SELECTs, each with
a snapshot of its own; `Count` is the next of them (`done` says how many have run) and
keeps the set of rows it counted, where the code keeps their number. The retry
count is a sum over the table. Any step of `SqlJobRepository` may come
between two of them (`Elsewhere`). `FetchPage` is one `GET /jobs`: the query with the
limit that `JobService.list_jobs` caps, given by the positions in the list that it
returns, and a client that goes on behind the page by
the limit that the endpoint answers with. `moved` and `left` are history variables: the jobs
that changed during the report, and whether a job has left the filtered list.

### Cron

One call of `next_cron_run`. An instant is a number of minutes; day, month and
weekday are computed from it by the rules of the Gregorian calendar. A field is
what `_parse_cron_part` distinguishes: `*`, `*/n`, a number, anything else.
`Validate`, then `Advance` minute by minute until `Return` or, after 366 days, `GiveUp`.
`MinutesPerHour` and `HoursPerDay` are constants, so that TLC can walk a year with
days of 4 minutes; the theorems hold for 60 and 24 as well.

### HandlerProcess

One call from after `process.start()` to its return or exception. The parent
joins with a timeout, then terminates and joins without one, or polls the queue
and reads it. The child runs the handler, puts the outcome in its buffer, and on
exit joins the feeder thread. The pipe holds 64 KiB: a *large* outcome is written
only in part until someone reads. `inherited` says whether the parent had
installed a SIGTERM handler before the fork: `Worker.run` has (`worker.py:31`), a
test or script that calls the service directly has not.

`ChildKilled` and `WorkerKilled` are kills from outside. A killed worker leaves its
child behind, which is not a daemon process: it runs on, without a timeout, and
writes its outcome to a pipe that it reads from itself as far as the kernel is
concerned, so that it gets no `EPIPE`. Where the worker is the first process of a
container the kernel kills the child with it, which is `WorkerKilled` followed by
`ChildKilled`.

A large outcome is reachable with accepted input: a payload of 64,000 bytes of
JSON numbers, which `echo` returns, pickles to 144,078 bytes.

### JobSubmission

Requests run the statements of `submit_job` one at a time: refusal (by the schema,
for a bad schedule, an unsupported handler or a large payload, or for want of a
Kafka producer, all before the first query), lookup by key, INSERT
with its commit, recovery from the `IntegrityError`, publish, answer. A publish
may fail with or without the broker having the message. Workers run the sweep:
the query of the pending jobs that are due, ordered by priority and age and limited to
`worker_batch_size`, then one publish per row, which may fail and drop the rest. A
job with a `run_at` in the future, or with a backoff, is *waiting* until `ComeDue`; its
first message is published at once all the same (`service.py:29`) and consumed
without effect by a worker that gets it before. A topic is a set of job ids;
`Deliver` may leave the message in place (redelivery), `LoseMessage` drops it (an
early offset commit).

A row is a status and an attempt count. The rest of a job's life is here as far as it
competes for the sweep or keeps a job from being taken: `Deliver` claims a job that is
pending and due, unless drain mode is on; `AttemptEnds` succeeds, buries or leaves a retry;
`Cancel` takes a pending job; `SetDrain`. Each is one step: their races are the matter of
`SqlJobRepository`. An attempt need not end, which is a worker that died.

`JobIntake` is what a client and an operator may rely on. A job exists from one step on,
the commit of its INSERT; an answer is `Confirm` (its own job, 201 or 503), `Replay`
(the job that has its key, 200) or `Refuse`; a job is taken by one worker at a time, not before
its time, not during a drain and never once it is closed. The mapping hides lookups,
lost races, publishes, sweeps and messages.

### WorkerLoop

`SqlJobRepository` lets any message reach any worker at any time. `WorkerLoop` says
where messages come from: it adds Kafka and the loop of `Worker.run` to the same
tables and the same `process_job`, whose actions it calls.

| State | In the code |
|---|---|
| `uncommitted`, `unread` | the log of a submission topic from the group's committed offset on: what was polled since, and the rest |
| `reader`, `member` | the assignment of the group's coordinator, and who is still in the group |
| `loop` | where each worker is between `consumer.poll` and `consumer.commit` (`worker.py:52-58`) |
| `batch` | the polled messages still to be processed, sorted by `_topic_rank`; the first one is in process |
| `sweep` | rows `publish_due_jobs` has still to publish |
| `announcing` | submissions between the commit of the row and the publish |

`Poll` takes all unread messages of the worker's topics. `Commit` is
`consumer.commit()` without arguments: every polled message counts as consumed,
processed or not. When a worker dies, stops or is evicted, `PassOn` gives its
topics to some worker, which reads them from the committed offset on. A lost
claim race (`DieOfConflict`) and a commit after an eviction (`DieOfEviction`) end the
process, as their exceptions leave `Worker.run`. `Stop` is possible at the head of
the loop only, where `running` is tested.

A topic has one partition; more of them are more topics of the same rank. A
job's priority fixes its topic, so that topics without a job in the instance
are left out, and so is the retry topic, which nobody publishes to.

### DrainMode

`late` is a history variable of the fleet: how many claims each worker has committed since
drain mode was switched on. `get_drain` is a query of its own, and two more follow before the
claim's commit, so that the answer to `POST /ops/drain` does not mean that nobody
starts a job any more.

### InMemoryRepository

The operations of the repository the tests use, called by any number of threads.
An operation is `...Read`, which takes the lock and reads the record, and `...Write`,
which replaces the whole record by one computed from what was read, and releases
the lock. `create_next_recurring_job` and `set_drain` do not take the lock and are
one assignment each. A failed attempt clears `processed_at` here (`MemoryFailed`);
the SQL repository keeps it.

## 3. The runs

| Run | Instance | Checks | Distinct states |
|---|---|---|---|
| `sql_races` | 2 jobs, 2 workers, 1 cancel request at a time, retries 0 or 1, all schedules | all safety of `SqlJobRepository` | 1,483,652 |
| `handler_process` | both signal dispositions, every kind of handler and outcome, killed workers and children | all of `HandlerProcess` | 542 |
| `submission` | 2 requests, with a key and urgent or neither, delayed or not, 1 retry, cancellations, drains, a sweeper with batches of 1, fairness | all of `JobSubmission`, refinement of `JobIntake` | 216,992 |
| `in_memory` | 2 jobs, 3 threads, a key, all schedules | all of `InMemoryRepository`, refinement of `JobLifecycle` | 72,800 |
| `fleet_batch` | 2 jobs of different topics, 1 worker, 1 death, fairness | `EveryJobSettles` | 97,786 |
| `fleet_group` | 1 job, 2 workers, 1 death, stop or eviction, drain requests, fairness | all of `WorkerLoop`, `OneLateClaim`, refinement of `JobLifecycle` | 394,494 |
| `cron` | 13 schedules, 6 instants, days of 2 hours of 2 minutes, fairness | all of `Cron` | 42,900 |
| `queries` | 2 jobs, 1 worker, 1 reader, pages of 1, one filter | all of `JobQueries` | 852,251 |
| `doc_cancelled`, `doc_succeeded`, `doc_timeout`, `doc_offsets` | the smallest instance | a documented sentence that the code contradicts | |

What they show:

- `OneExecutor`, `AttemptLedger`, `RetryBound`: any number of duplicate messages,
  stale claims, stale cancellations and crashes neither run a job in two places
  at once, nor number an attempt twice or skip a number, nor exceed
  `max_retries + 1` attempts. Also proved, section 6.
- `OutcomeRecorded`: `succeeded` means a result and a last attempt that succeeded;
  `dead_lettered` means an exhausted budget and a last attempt that failed, although
  row and attempt are read and written by different statements.
- `DeadLetterIsFinal`: an event on the dead-letter topic is never about a job that
  somebody runs again. It may be sent twice (a slow refresh while a retry is
  buried) or never (a crash); the property does not claim otherwise.
- `OneLiveOccurrence`: a recurring job never has two live occurrences.
- `CancellationFinal`: a cancelled job that nobody is still claiming or
  executing stays cancelled, with its row and attempts unchanged. The condition
  on holders is needed: `doc_cancelled` shows the race without it.
- `ImplementsLifecycle`: seen through status, attempts and retries, each step is one
  of the abstract life of a job, or none. With the constants as above the
  fleet, which has neither cancellers nor impossible schedules, implements the
  undiluted life; `doc_cancelled` and `doc_succeeded` show that the other two need
  the dilution.
- `OneLateClaim`: while drain mode is on, each worker commits at most one more claim,
  one for which it had read the setting before: the number of workers bounds what still
  starts, whatever messages, retries and crashes come. That there may be one is
  a difference from the documents (section 4).
- `NoOrphan`, `VerdictIsTrue`: `_run_with_timeout` does not return while the handler's
  process lives, so that a retry never overlaps with its predecessor, and a
  finished handler is never reported as having no result unless someone else
  killed it (`queue.empty()` is safe because the child joined its feeder).
- `CallReturns`: the call returns whenever the SIGTERM handler is not inherited,
  and also in a worker if the handler ends and its outcome fits into the pipe.
- `OrphanEnds`: the child of a killed worker ends by itself, unless its handler does
  not end or its outcome is larger than the pipe: then nothing ever ends it.
- `AnswersAgree`, `AnswerIsDurable`: one job and at most one 201 per idempotency
  key; a refused request leaves no job; any other answer, also a 503, names a
  committed job with that key; the loser of
  the race on the key always finds the winner's row.
- `ImplementsIntake`: for a client each request happens at once, and so does each
  delivery. The last two properties say what answers have in common; this one
  says besides that a job exists before its answer and never changes its key,
  that a request gets its own job or the one of its key and not both, and that a
  message that comes twice, before the job's time, during a drain or after a cancellation
  makes no worker take it.
- `EveryJobTaken`: unless drain mode stays on, no job stays pending for ever: it is taken,
  once more for each retry, or cancelled. The sweep repairs every lost publish and
  message, behind a batch limit smaller than a backlog of new jobs and retries, and
  brings back the job whose message came too early or during a drain.
- `AnswerIsNextRun`, `SearchEnds`: the search finds the first matching minute, and says
  that there is none only if the next 366 days have none.
- `YearlyHasRun`: a date that comes every year is found whenever one asks; 365 days
  would not be enough from 1 January of a leap year on. 29 February, days that no
  month has, and dates tied to a weekday can fail, and are then treated as
  impossible: the recurrence of such a job ends with `doc_succeeded`.
- `SuccessesAreNoFailures`: no job is both among the successes and among the failures of one
  report, nor both running and queued, though they come from different snapshots. The
  code owes this to the order of its SELECTs (succeeded before failed and
  dead_lettered, running before queued): in the opposite order a job that moves on is
  counted in both. True of schedules that have a next run. Failed and dead_lettered
  may overlap (section 4).
- `StableJobsCounted`: a job that rests during a report is in it exactly once, and
  backlog, due and the depth by priority agree about it. Of jobs that move it says
  nothing: due may exceed what is pending.
- `PagingComplete`: a client that pages to the end misses no job that was listed when
  it began, unless a status change has taken a job out of its filter; new jobs
  only make it see some twice.
- `CommittedAtHead`: a worker at the head of its loop has committed all it polled,
  so that a stop by SIGTERM neither loses nor repeats a message. `FleetTypeOK` says
  besides that a worker is in `process_job` only for the first message of its batch.
- `EveryJobSettles`: once drain mode is off for good, every job reaches a final
  status, retries included, unless a worker dies while it executes the job or
  `process_job` does not return, which is assumed of a live worker (*Fairness*). Early
  offset commits, lost publishes, messages consumed in drain mode or before the
  job was due, evictions and lost claims only delay it. The sweep is what makes
  it true: without the sweep of failed jobs it is violated.
- In memory, `ImplementsLifecycle` holds with cancellation. `ProcessedWhenEnded` (a job
  has `processed_at` exactly if it has ended) and `OneDeadLetter` (at most one event of
  a job, which stays buried) hold there and not of the SQL repository;
  `OneJobPerKey` says that index and records agree, recurrences included.

### Bounds

- *Two jobs.* A recurrence needs a submission and its successor; every other
  property is about one job, and actors on different jobs share only `drain`.
  `JobId` being finite also bounds recurrence: with no id left,
  `CreateNextRecurring` is disabled and the worker can only crash. The runs with
  fairness have no recurring jobs, so that it is never asked of a disabled action.
- *Two workers, one canceller.* The races are between two claims, a claim and a
  cancellation, a slow finish and the next attempt. The proofs hold for any
  number of each.
- *Retry limits 0 and 1.* 0 is the boundary of burial at the first failure, 1 has
  one retry; the proofs hold for any limit. No bound on
  `attempt_count` is needed: `RetryBound` keeps the state space finite, and so is
  `dead_letters`, which grows at most once per finished attempt.
- *Two requests, one key* (`submission`). Two requests race on the key, or one or
  both have none, which is all that two different keys could do. A request with the key
  is urgent, one without is not, so that with a batch of one the job of low priority is
  shut out of the sweep as long as the other is due, as a new job or as a retry; two of
  equal priority compete by age. One retry is enough for a failed job to compete with a
  new one. The proofs hold for any number of requests, keys, priorities and retries, and
  any batch size.
- *One operator* (`fleet_group`): it switches drain mode on and off, again and again.
- *One worker with two jobs, two workers with one job* (`fleet_batch`, `fleet_group`).
  A message is lost by a commit if a batch has two; a conflict or an eviction
  needs two workers. `MaxFailures` is 1: deaths, stops and evictions are
  independent of each other, and liveness needs them to end. `Publish` keeps at
  most one unread message per job in a topic: a second one would be polled in
  the same batch and skipped. The proofs hold for any number of workers, jobs
  and failures.
- *Three threads* (`in_memory`): one may hold the lock while another executes the
  same job's attempt and a third cancels.
- *Short days* (`cron`): the year is walked minute by minute, so that its length
  matters and not that of a day. The instants are the turns of a leap and of a
  common year and the end of February, 2100 included; the schedules have every
  kind of field, the first and the last minute of a year, and every reason to be
  refused. Proved for every schedule, instant and length of day.
- *One reader, pages of one job* (`queries`): readers do not touch each other.
  Two jobs are enough for one to move over the edge of a page, or
  between two SELECTs while the other rests. The client asks for two jobs
  where the maximum is one.
- *Symmetry* only over ids, workers, cancellers and threads, and never in
  a run with a liveness property.

### Fairness

- `HandlerProcess!FairSpec`: weak fairness of the child's threads, of signal
  delivery and of the parent. Nothing forces `ChildKilled` or `WorkerKilled`, and a handler that is
  `endless` has no fair action.
- `JobSubmission!FairSpec`: weak fairness of the sweep's query (workers poll for
  ever), strong fairness of each worker's publish (Kafka accepts one now and
  then, between failures), strong fairness of delivery (a message that is
  published again and again is not lost each time), weak fairness of the clock. The
  API's own publish is not fair: it may never happen. Nor are the end of an
  attempt, cancellations and drain requests; that drain mode does not stay on is the
  premise of `EveryJobTaken`.
- `Cron!FairSpec`: weak fairness of the search, a loop of one process.
- `WorkerLoop!FleetFairness`, of `FleetFairSpec` and of `DrainFairSpec`, which both fleet runs
  use: weak fairness of all a worker does when nothing fails (`Run(w)`), as the loop has no
  end but `stop`, and of the clock (`Tick(j)`). With it `process_job` returns, which is the
  least justified part: `doc_timeout` shows a call of a handler that does not. A worker in
  such a call counts as dead here. First publishes, drain requests, deaths, stops and
  evictions are not fair.

`CHECK_DEADLOCK FALSE` is set where the model ends: when the call is over, and
when every request is answered and every job closed.

## 4. Where the code differs from its documents

Shown by a run:

1. `doc_cancelled`: a claim that loaded its row before a cancellation committed
   turns `cancelled` into `running` and executes the job. `SPEC.md:531`: "Cancelled
   jobs are never claimed." Conversely a stale cancellation cancels a running
   job, against `SPEC.md:532`.
2. `doc_succeeded`: for a schedule that every field check accepts but that has no
   run in the next year (`0 0 30 2 *`), `create_next_recurring_job` raises after
   `mark_succeeded` has committed, and the except clause marks the job failed. It is
   to be run a second time, with a result: the run ends where the job that succeeded
   waits for its second attempt. `SPEC.md:522`: "On success, set
   `status = succeeded`".
3. `doc_timeout`: in a worker, `process.terminate()` does not end the child, which
   inherited `Worker.stop` as its SIGTERM handler; `process.join()` then waits as long
   as the handler likes, and for ever if the outcome is larger than the pipe.
   `CODE_REVIEW.md:128`: "Running the handler in a child process lets the worker
   terminate a timed-out attempt."
4. `doc_offsets`: `consumer.commit()` (`worker.py:58`) runs after the first message of a
   polled batch and commits the positions behind all of them. `CODE_REVIEW.md:28`:
   the worker "commits offsets only after processing". The sweep makes up for it
   (`EveryJobSettles`).

Without a run of their own; TLC shows them when the named property is added as an
INVARIANT to the named configuration:

5. `NoClaimWhileDraining` (`fleet_group.cfg`): a claim that read the setting before a drain
   began is committed after it. `SPEC.md:510`: "If drain mode is enabled, workers do not
   claim new jobs." One claim per worker is the limit (`OneLateClaim`).
6. `FailuresCountedOnce` (`queries.cfg`): a retry that is buried between the SELECT of the
   failed jobs and that of the dead-lettered is in both counts, and `main.py:141` and
   `service.py:108` add them up. `SPEC.md:952`: "Job success and failure counters derived
   from terminal job status transitions."
7. `LatenciesOfEnded` (`queries.cfg` with `CronKind = {"impossible"}`): the rows with a
   `processed_at`, called `terminal_jobs` (`repositories.py:232`), include a job that
   succeeded, was then failed (see `doc_succeeded`) and waits, as the column is never
   cleared. `SPEC.md:967`: "Job latency from submission to terminal state."
8. `RetriesCounted` (`queries.cfg`): each job that was never attempted cancels one retry of
   another in `retry_count` (`repositories.py:231`; the in-memory repository counts right,
   `:452`). `SPEC.md:953`: "Retry and dead-letter counters for worker failure visibility."

Seen while reading:

9.  `SPEC.md:515` asks for conditional updates or row locks in the claim. The code
    has neither; the attempt's unique key prevents double execution, at the price
    of ending the worker that loses.
10. `SPEC.md:376` lists `failed` among the statuses that cannot be cancelled; the code
    cancels a job that waits for its retry.
11. `README.md:178` describes a retry topic for republished jobs; no code publishes
    to it.
12. `SPEC.md:506`: "If Kafka publish fails, keep the job row and return `503
    dependency_unavailable`". The API builds its producer at the first request that
    needs one (`api/dependencies.py:15`); until Kafka has been reachable once this
    raises, no row is written, and every endpoint but the health checks answers
    500 (`Refuse`).
13. `SPEC.md:271`: "`503 dependency_unavailable` if PostgreSQL is unavailable." Nothing
    catches the driver's errors, so that the answer is 500 (`Lose`: it says nothing
    of whether the job was committed).
14. `README.md:165`: "`worker_utilization` derived from running vs pending jobs". Of the
    pending jobs only the queued are counted (`repositories.py:239`), not those that
    wait for a retry.

## 5. What is not modelled

- `get_job` and the health endpoints, response bodies, logging: no effect on the
  state. Of the metrics, the arithmetic on the rows that were counted: rates,
  percentiles, utilization.
- Which requests are refused: the checks of handler, payload size and schema are
  one nondeterministic step. The cron expression's check is in `Cron`.
- A retry's backoff is kept only as "not due yet".
- The refresh of the claimed row at the end of `claim_job`, like any statement that
  fails after a commit, is folded into `Crash`: the worker ends and the job stays running.
- In `SqlJobRepository` a schedule is only known to have a next run at the job's
  success, or not; the next occurrence may differ from the last in this, as it does for
  29 February. `Cron` says which schedules have one when.
- Failure of `mark_succeeded` or `mark_failed_attempt` themselves (a lost
  connection): as a crash. In the code a failing `mark_succeeded` enters the
  except clause with a session that must be rolled back first, and the next
  query raises: the worker ends.
- That the repair of a job whose worker died is missing: it stays `running`, which
  nobody claims; the documents name the missing reaper as a limitation
  (`SPEC.md:533`).
- Two first `set_drain` requests that both INSERT the setting: the module has the
  race (`SetDrainCommit`), the runs have one operator.
- In `WorkerLoop`, the order and limit of a sweep, which `JobSubmission` has, the
  split of a poll at `max_poll_records`, and cancellations in the runs (the module
  has them, and the theorems cover them).
- The queries of the in-memory repository, which change nothing.
- PostgreSQL and Kafka are external: READ COMMITTED transactions with unique
  constraints, and topics as above.

## 6. What is proved

`SqlJobRepositoryProofs`, for any sets of jobs, workers, requests, retry limits and
schedules, from `ConstantsAssumption` (retry limits are natural numbers, `None` is
not a value):

- `TypeCorrect`: `Spec => []TypeOK`, by one step per action. Its content is that no
  process is ever past its query without a job that exists and, where a commit
  compares with it, a loaded row.
- `MutualExclusion`, `LedgerIsExact`, `RetriesAreBounded`: `OneExecutor`, `AttemptLedger`
  and `RetryBound` are invariants. None is inductive. `IInv` adds what a stale session
  still knows:
  - `PendingFree`: a job in a claimable status is *free*: nobody executes it, its last
    attempt failed, and its budget is not used up;
  - `ClaimsFree`: a claim that has loaded its row has either loaded the current
    `attempt_count`, and then the job is still free, or a lower one, and then the
    attempt number it is going to insert is taken. This is why the unique key is
    enough: a stale claim always fails;
  - `OutcomesFresh`: the row from which an outcome is recorded has the current
    `attempt_count` and `max_retries`, so that a worker finishes its own attempt and
    decides between retry and burial on the true count;
  - `CancelsPending`: a cancellation in flight loaded a claimable row.

  The lemmas about `Flush` and the row operations carry the arithmetic; each
  commit then has a lemma (`ClaimStep`, `OutcomeStep`, `CancelStep`, `InsertStep`), and every
  action that writes neither table is covered by `SessionStep`.

Its second part, from the same assumption and invariant:

- `OutcomesAreRecorded`: `LifeInv` adds what a row, an executor and a cancellation in
  flight know of flags and attempts (`JobsOK`, `ExecutionsOK`, `CancelsOK`); a commit of
  columns that changed against a stale row then leaves a row that is still right.
- `DeadLettersAreFinal`: `DeadInv` says that a job of which an event is on its way, or
  was sent, has used up its budget, has failed its last attempt and has no
  executor: no claim can start it again.
- `RecurrencesDoNotFork`: by `OneOpen`, of the jobs of a chain at most one can still be
  executed, a cancelled one that a stale claim may yet start included.
- `CancellationsAreFinal`: a job that is cancelled, and that nobody holds, is
  claimed by nobody, since a claim loads a pending row.
- `SqlImplementsLifecycle`: every step maps to one of `JobLifecycle` or leaves the view
  of the table (`View`) alone. A cancellation of a stale row is where `StaleCancel`
  is needed, a failure after a success where `FailsLate` is.
- `SuccessesAreFinal`: without cancellers and impossible schedules nothing happens to
  the status of a job that has succeeded (`SuccessIsFinal`, which `doc_succeeded` shows
  violated with such a schedule). By `Settled`, nobody executes it or has loaded
  an outcome for it; a worker past `mark_succeeded` can only go on to the next occurrence.

`JobQueriesProofs`, from `QueriesAssumption` besides. Every step of `QueriesSpec` is a step
of the repository or leaves it alone (`StepsBelow`), so that all of the above holds
below a reader; `RequestSteps` says what a step does to one request: start, the next
SELECT or page, a step of the others, nothing.

- `QueriesTypeCorrect`: `QueriesTypeOK`.
- `StableJobsAreCounted`: each column that was counted is right about the jobs that have
  not moved since the request came (`StableReport`).
- `NoSuccessIsAFailure`, if `CronKind` has no `"impossible"`: what was counted as succeeded is
  settled and cannot become failed or dead-lettered, unless it is cancelled; what was
  counted as running cannot be queued again (`RowsKept`). `MetricsReport` says so of the
  columns counted so far, in their order.
- `PagingIsComplete`: `PagingOK` says that a job the client still has to see, and that has
  stayed in the list, has at least `offset` newer jobs in front of it. Insertions only
  add to them. A page that is short leaves nobody behind it (`PageIsFull`).

`WorkerLoopProofs`, from `FleetAssumption` besides:

- `FleetImplementsRepository`: `FleetSpec => Spec`. Every step of the loops, of Kafka and
  of the group is a step of `SqlJobRepository` or leaves its variables alone, which
  needs `TypeOK` for the job of a message to exist. `FleetIsSafe` and
  `FleetImplementsLifecycle` follow: what is proved of the repository holds of the
  fleet.
- `FleetTypeCorrect`, `StopsClean`: `FleetTypeOK` and `CommittedAtHead` are invariants. The
  inductive one, `FInv`, adds `HeadOK`: what a topic has polled and not committed is
  being processed by the member that reads it, whose batch is therefore not
  empty, and the batch of a worker at the head is empty.

- `DrainsLetOneClaimThrough`: `OneLateClaim`, of `DrainMode`. Its invariant `DInv` says that a
  worker that has committed a late claim while the drain goes on is not between the
  check of the setting and the commit any more; the only way there leads through the check,
  which now fails (`WayIntoClaiming`); every step of the fleet is one of the repository or none.

`InMemoryRepositoryProofs`, from `MemoryAssumption`:

- `MemoryImplementsLifecycle`: `Spec` implements `JobLifecycle`, for all schedules. The
  invariant `IInv` says for each stage of a thread what the record
  of its job is (`StageOK`): a record that was read under the lock is the current
  one (lemma `Fresh`), and a thread inside the lock is alone with its job
  (`Others`), so that each replacement is one step of the lifecycle.
- `MemoryTypeCorrect`, `ProcessedExactly`, `DeadLettersOnce`, `KeysNameOneJob`: the four
  invariants of the run, for all schedules.

`HandlerProcessProofs`, from `HandlerAssumption`: `CallTypeOK`, `NoOrphanLeft` and
`VerdictsAreTrue`, with an invariant that follows the outcome from buffer to pipe to parent
(`OutcomeKept`).

`JobSubmissionProofs`, from `SubmissionAssumption` (finitely many requests, a batch of at
least one job): `SubmissionTypeOK`, `AnswersAreDurable`, `IdempotentAnswers`. The inductive
invariant says what each stage of a request implies for its row and its answer
(`RequestOK`), and that no two rows have one key (`KeysUnique`), which is what makes the
row that a loser of the race finds the one that all others were answered with.
From the same invariant:

- `SubmissionImplementsIntake`: every step is one of `JobIntake` or is not seen. The key of
  a request that has not been answered is hidden, so that its lookup and a lost race
  are stutters, and the commit of the INSERT is the one point where it matters. A
  delivery is `Take` if the job is open, due and no drain is on, and else a stutter; that a
  waiting job is pending (`TypeOK`) makes `Cancel` and the end of an attempt one step
  each.
- `SweepsFindTheDueJobs`: `Due # {} => DueJobs # {}`. The order of `due_jobs` is strict and
  transitive (`BeforeIsStrict`, `BeforeIsTransitive`), so that a finite backlog has a first
  job, and one after the other its first `n`.

`CronProofs`, from `CronAssumption`: `CronTypeOK`, `NextRunIsFirst` (what was tried and did
not match stays behind the candidate), `YearlySchedulesRun` (a yearly date lies within
366 days of any instant, by the arithmetic of the calendar).

A note on induction. The induction theorems of the library take an operator as a
parameter, which the provers cannot instantiate. What is needed is stated here
for a set of numbers instead (`LeastNumber`), from the well-foundedness of `<`.

Only model-checked: liveness (`CallReturns`, `OrphanEnds`, `EveryJobTaken`,
`EveryJobSettles`, `SearchEnds`), which is out of the prover's reach. Every safety
property of a passing run is a theorem.

## 7. Plan

Done: `JobRow`, `SqlJobRepository`, `JobLifecycle`, `DrainMode`; `HandlerProcess`; `JobSubmission`,
`JobIntake`; `WorkerLoop`; `InMemoryRepository`; `Cron`; `JobQueries`; proofs of all their safety
properties and refinements.

Left, in this order:

1. An abstract call of a handler (it ends once, with a verdict, and nothing is left
   behind), implemented by `HandlerProcess`: the step that `SqlJobRepository` takes at
   `running`.
2. Percentiles and rates as functions on the counted rows.
