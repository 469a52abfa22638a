--------------------------- MODULE JobSubmission ----------------------------
(***************************************************************************)
(* From POST /jobs to the worker that takes the job: JobService.submit_job *)
(* with SqlAlchemyJobRepository.create_job, the publish that follows the   *)
(* commit, and publish_due_jobs, with which every worker repeats, between  *)
(* two polls, the publishes that may have been lost.  A taken job ends or  *)
(* fails and waits for a retry, a pending one may be cancelled, and drain  *)
(* mode keeps workers from taking any; claim_job, cancel_job, set_drain    *)
(* and the outcome of an attempt are one step each here, since their races *)
(* are the matter of SqlJobRepository.                                     *)
(*                                                                         *)
(* Requests with one idempotency key interleave at every statement.  The   *)
(* id of a job (a fresh uuid4) is named after the request that inserts it. *)
(* A run_at in the future delays a job; its message is published at once   *)
(* all the same, and consumed in vain by a worker that gets it too early.  *)
(* A topic is a set: what a consumer reads next, or twice, is left open,   *)
(* and a message may be lost, since Worker.run commits the position behind *)
(* all polled messages after the first one.                                *)
(***************************************************************************)
EXTENDS Integers, Sequences, FiniteSets, Functions

CONSTANTS Request,     \* POST /jobs requests, retries by the client included
          Key,         \* idempotency keys
          Body,        \* what of a request matters: its key and its priority
          Sweeper,     \* workers, as callers of publish_due_jobs
          BatchSize,   \* worker_batch_size
          MaxRetries,  \* max_retries of every job
          None         \* no key, no body, no answer, no job

\* 400 and 422 reject the request, 500 is an exception that nobody handles, 503
\* tells of a publish that failed.
Refused == {400, 422, 500}
Answer == [code : {200, 201, 503} \cup Refused, id : Request \cup {None}]

ASSUME SubmissionAssumption ==
    /\ Body \subseteq [key : Key \cup {None}, priority : Int]
    /\ BatchSize \in Nat \ {0}
    /\ MaxRetries \in Nat
    /\ IsFiniteSet(Request)
    /\ None \notin Key \cup Request \cup Body \cup Answer

VARIABLES
    stage,    \* where each request is in submit_job
    body,     \* the key and priority of each request
    answer,   \* the status code and job id of each response
    rows,     \* table jobs: a function from the ids inserted so far to rows
    waiting,  \* the pending jobs whose next_run_at is still to come
    created,  \* the ids in the order of created_at
    topic,    \* the jobs that a submission topic has a message of
    batch,    \* the due jobs each worker has still to publish
    drain     \* the ops setting drain_enabled

requests == <<stage, body, answer>>
table == <<rows, waiting, created>>
vars == <<requests, table, topic, batch, drain>>

\* The status of a row; a job that succeeded or was dead-lettered is "ended".
Pending == {"queued", "failed"}
Status == Pending \cup {"running", "ended", "cancelled"}
Row == [status : Status, attempt_count : 0 .. MaxRetries + 1]

Stage == {"new", "inserting", "conflict", "publishing", "answered", "lost"}

\* Processes and tables hold what the code allows; a sweep is bounded, and what
\* a worker sweeps or a topic names is a row that exists.
TypeOK ==
    /\ stage \in [Request -> Stage]
    /\ body \in [Request -> Body \cup {None}]
    /\ answer \in [Request -> Answer \cup {None}]
    /\ \A r \in Request : stage[r] = "answered" <=> answer[r] # None
    /\ DOMAIN rows \subseteq Request
    /\ \A id \in DOMAIN rows :
          /\ rows[id] \in Row
          /\ rows[id].status \in Pending => rows[id].attempt_count <= MaxRetries
    /\ waiting \subseteq {id \in DOMAIN rows : rows[id].status \in Pending}
    /\ created \in Seq(Request) /\ IsInjective(created) /\ Range(created) = DOMAIN rows
    /\ topic \subseteq DOMAIN rows
    /\ batch \in [Sweeper -> Seq(DOMAIN rows)]
    /\ \A w \in Sweeper : Len(batch[w]) <= BatchSize
    /\ drain \in BOOLEAN

Init ==
    /\ stage = [r \in Request |-> "new"]
    /\ body = [r \in Request |-> None]
    /\ answer = [r \in Request |-> None]
    /\ rows = << >> /\ waiting = {} /\ created = << >>
    /\ topic = {}
    /\ batch = [w \in Sweeper |-> << >>]
    /\ drain = FALSE

-----------------------------------------------------------------------------
(* submit_job, on behalf of one request.                                   *)

WithKey(key) == {id \in DOMAIN rows : body[id].key = key}

Reply(r, code, id) ==
    /\ stage' = [stage EXCEPT ![r] = "answered"]
    /\ answer' = [answer EXCEPT ![r] = [code |-> code, id |-> id]]

Goto(r, s) == stage' = [stage EXCEPT ![r] = s] /\ UNCHANGED answer

\* The request breaks the schema (422), or has a bad schedule, an unsupported
\* handler or too large a payload (400), or the API has no producer yet and
\* cannot reach Kafka (500): it is refused before anything is read.
Refuse(r) ==
    /\ stage[r] = "new"
    /\ \E code \in Refused : Reply(r, code, None)
    /\ UNCHANGED <<body, table, topic, batch, drain>>

\* A valid request.  With a key, create_job first looks for the job of an
\* earlier request with it, and that is the answer, without another publish.
Lookup(r, read) ==
    /\ stage[r] = "new"
    /\ body' = [body EXCEPT ![r] = read]
    /\ \/ /\ read.key # None
          /\ \E id \in WithKey(read.key) : Reply(r, 200, id)
       \/ /\ read.key = None \/ WithKey(read.key) = {}
          /\ Goto(r, "inserting")
    /\ UNCHANGED <<table, topic, batch, drain>>

\* Mutation: idempotency_key without its unique constraint.
AnyKeyFree(key) == TRUE

\* UNIQUE (idempotency_key), which NULL never violates.
KeyFree(key) == key = None \/ WithKey(key) = {}

Submitted == [status |-> "queued", attempt_count |-> 0]

\* The INSERT and its commit, or the IntegrityError.  A run_at may or may not be
\* still to come.
Insert(r) ==
    /\ stage[r] = "inserting"
    /\ \/ /\ KeyFree(body[r].key)
          /\ rows' = [id \in DOMAIN rows \cup {r} |-> IF id = r THEN Submitted ELSE rows[id]]
          /\ waiting' \in {waiting, waiting \cup {r}}
          /\ created' = Append(created, r)
          /\ Goto(r, "publishing")
       \/ /\ ~KeyFree(body[r].key)
          /\ Goto(r, "conflict")
          /\ UNCHANGED table
    /\ UNCHANGED <<body, topic, batch, drain>>

\* Mutation: the IntegrityError is raised to the caller.
RaiseConflict(r) ==
    /\ stage[r] = "conflict"
    /\ Reply(r, 500, None)
    /\ UNCHANGED <<body, table, topic, batch, drain>>

\* After the rollback: the winner's job is the answer.
Recover(r) ==
    /\ stage[r] = "conflict"
    /\ IF WithKey(body[r].key) = {}
       THEN Reply(r, 500, None)
       ELSE \E id \in WithKey(body[r].key) : Reply(r, 200, id)
    /\ UNCHANGED <<body, table, topic, batch, drain>>

\* publish_job: acknowledged, or a KafkaError, which says nothing of whether
\* the broker has the message.
Publish(r) ==
    /\ stage[r] = "publishing"
    /\ \/ topic' = topic \cup {r} /\ Reply(r, 201, r)
       \/ topic' \in {topic, topic \cup {r}} /\ Reply(r, 503, r)
    /\ UNCHANGED <<body, table, batch, drain>>

\* The API process dies, or the connection to the client does; or the database
\* does, and the client gets a 500 that says nothing of the job.
Lose(r) ==
    /\ stage[r] \in {"inserting", "conflict", "publishing"}
    /\ Goto(r, "lost")
    /\ UNCHANGED <<body, table, topic, batch, drain>>

-----------------------------------------------------------------------------
(* Workers.                                                                *)

\* The order of due_jobs: priority descending, created_at ascending.
Before(i, j) ==
    \/ body[i].priority > body[j].priority
    \/ /\ body[i].priority = body[j].priority
       /\ \E m, n \in DOMAIN created : m < n /\ created[m] = i /\ created[n] = j

\* Mutation: only jobs whose publish is known to have failed are published again.
KnownFailures ==
    {id \in DOMAIN rows \ waiting :
        rows[id].status \in Pending /\ answer[id] # None /\ answer[id].code = 503}

Due == {id \in DOMAIN rows \ waiting : rows[id].status \in Pending}

\* The first n due jobs in that order; ties are left to the database.
FirstDue(n) ==
    {jobs \in [1 .. n -> Due] :
        /\ IsInjective(jobs)
        /\ \A k \in 1 .. n : \A i \in Due :
              Before(i, jobs[k]) => \E m \in 1 .. k : jobs[m] = i}

\* Mutation: the query has no limit.
AllDueJobs == FirstDue(Cardinality(Due))

DueJobs == FirstDue(IF Cardinality(Due) < BatchSize THEN Cardinality(Due) ELSE BatchSize)

\* publish_due_jobs: the query.  It does not change the rows it returns.
SweepLoad(w) ==
    /\ batch[w] = << >> /\ Due # {}
    /\ \E jobs \in DueJobs : batch' = [batch EXCEPT ![w] = jobs]
    /\ UNCHANGED <<requests, table, topic, drain>>

\* ... and one publish after the other, whatever became of the job since.
SweepPublish(w) ==
    /\ batch[w] # << >>
    /\ topic' = topic \cup {Head(batch[w])}
    /\ batch' = [batch EXCEPT ![w] = Tail(@)]
    /\ UNCHANGED <<requests, table, drain>>

\* A publish fails, or the worker dies: the rest of the batch is given up.
SweepFail(w) ==
    /\ batch[w] # << >>
    /\ batch' = [batch EXCEPT ![w] = << >>]
    /\ UNCHANGED <<requests, table, topic, drain>>

Running(id) == [status |-> "running", attempt_count |-> rows[id].attempt_count + 1]

\* Mutation: the claim does not look at drain_enabled.
DeliverDrained(id) ==
    /\ id \in topic
    /\ rows' = IF id \in Due THEN [rows EXCEPT ![id] = Running(id)] ELSE rows
    /\ topic' \in {topic, topic \ {id}}
    /\ UNCHANGED <<requests, waiting, created, batch, drain>>

\* A worker receives a message and claims the job, or skips it because of drain
\* mode, or since it is not pending or not yet due; a message is done with either
\* way, or redelivered.
Deliver(id) ==
    /\ id \in topic
    /\ rows' = IF ~drain /\ id \in Due THEN [rows EXCEPT ![id] = Running(id)] ELSE rows
    /\ topic' \in {topic, topic \ {id}}
    /\ UNCHANGED <<requests, waiting, created, batch, drain>>

\* The attempt succeeds, or fails; a retry waits for its backoff.  A worker that
\* dies leaves the job running.
AttemptEnds(id) ==
    /\ id \in DOMAIN rows /\ rows[id].status = "running"
    /\ \/ /\ rows' = [rows EXCEPT ![id].status = "ended"]
          /\ UNCHANGED waiting
       \/ /\ rows[id].attempt_count > MaxRetries
          /\ rows' = [rows EXCEPT ![id].status = "ended"]
          /\ UNCHANGED waiting
       \/ /\ rows[id].attempt_count <= MaxRetries
          /\ rows' = [rows EXCEPT ![id].status = "failed"]
          /\ waiting' = waiting \cup {id}
    /\ UNCHANGED <<requests, created, topic, batch, drain>>

\* POST /jobs/{id}/cancel; any other job is answered 409.
Cancel(id) ==
    /\ id \in DOMAIN rows /\ rows[id].status \in Pending
    /\ rows' = [rows EXCEPT ![id].status = "cancelled"]
    /\ waiting' = waiting \ {id}
    /\ UNCHANGED <<requests, created, topic, batch, drain>>

\* POST /ops/drain.
SetDrain(enabled) ==
    /\ drain' = enabled
    /\ UNCHANGED <<requests, table, topic, batch>>

\* A message is skipped: its offset was committed with those of other messages
\* by a worker that died before it came to this one.
LoseMessage(id) ==
    /\ id \in topic
    /\ topic' = topic \ {id}
    /\ UNCHANGED <<requests, table, batch, drain>>

\* The clock reaches the next_run_at of a job.
ComeDue(id) ==
    /\ id \in waiting
    /\ waiting' = waiting \ {id}
    /\ UNCHANGED <<requests, rows, created, topic, batch, drain>>

-----------------------------------------------------------------------------
Next ==
    \/ \E r \in Request :
          \/ \E read \in Body : Lookup(r, read)
          \/ Refuse(r) \/ Insert(r) \/ Recover(r) \/ Publish(r) \/ Lose(r)
    \/ \E w \in Sweeper : SweepLoad(w) \/ SweepPublish(w) \/ SweepFail(w)
    \/ \E id \in Request :
          \/ Deliver(id) \/ LoseMessage(id)
          \/ AttemptEnds(id) \/ Cancel(id) \/ ComeDue(id)
    \/ \E enabled \in BOOLEAN : SetDrain(enabled)

Spec == Init /\ [][Next]_vars

\* Workers poll for ever; Kafka accepts a publish every now and then, and not
\* every message is lost; time passes.  Nothing is assumed of the API, of its
\* clients and operators, or of the attempts, which may never end.
FairSpec ==
    /\ Spec
    /\ \A w \in Sweeper : WF_vars(SweepLoad(w)) /\ SF_vars(SweepPublish(w))
    /\ \A id \in Request : SF_vars(Deliver(id)) /\ WF_vars(ComeDue(id))

-----------------------------------------------------------------------------
\* Of the answers that name a job under one key all name the same job, and at
\* most one says that it was created, in whatever order the requests run.
AnswersAgree ==
    \A q, r \in Request :
        /\ answer[q] # None /\ answer[q].id # None
        /\ answer[r] # None /\ answer[r].id # None
        /\ body[q].key = body[r].key /\ body[q].key # None
        => /\ answer[q].id = answer[r].id
           /\ answer[q].code = 201 /\ answer[r].code = 201 => q = r

\* A refused request was refused before it read the table, and leaves no job
\* behind.  Any other answer names a job that is committed and has the request's
\* key: also a 503 leaves the job in the table, and the loser of a race on a key
\* gets the winner's job and never an internal error.
AnswerIsDurable ==
    \A r \in Request : answer[r] # None =>
        IF answer[r].code \in Refused
        THEN body[r] = None /\ r \notin DOMAIN rows
        ELSE /\ answer[r].id \in DOMAIN rows
             /\ body[answer[r].id].key = body[r].key

\* The jobs' keys, where each job stands, and what each client was told.
Keys == [id \in DOMAIN rows |-> body[id].key]
Standing ==
    [id \in DOMAIN rows |->
        IF rows[id].status \in Pending THEN "open"
        ELSE IF rows[id].status = "running" THEN "taken" ELSE "closed"]
Told ==
    [r \in Request |->
        IF answer[r] = None THEN None
        ELSE [key |-> IF body[r] = None THEN None ELSE body[r].key,
              code |-> answer[r].code, id |-> answer[r].id]]

Intake == INSTANCE JobIntake WITH
    accepted <- Keys, standing <- Standing, later <- waiting, answer <- Told

\* Seen by clients and workers, what submission, sweeps and deliveries do in many
\* statements happens at once: a job is made by the commit of its INSERT alone,
\* a request that finds its key taken, before or after it tried to insert, is
\* answered with that job, and a message that comes twice, too early, while the
\* system drains or after a cancellation makes no worker take a job.
ImplementsIntake == Intake!Spec

\* Unless drain mode stays on, no committed job stays pending for ever: it is
\* taken by a worker, for every retry again, or cancelled, though its publish may
\* have failed, never been tried or come before the job was due, a replay does
\* not publish, messages are lost or consumed during a drain, and a sweep takes
\* only the first BatchSize jobs, new ones and retries.
Open(id) == id \in DOMAIN rows /\ rows[id].status \in Pending
EveryJobTaken == <>[]~drain => \A id \in Request : Open(id) ~> ~Open(id)
=============================================================================
