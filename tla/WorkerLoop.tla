----------------------------- MODULE WorkerLoop -----------------------------
(***************************************************************************)
(* The worker fleet: every Worker.run polls Kafka, publishes the due jobs  *)
(* again, gives each polled message to process_job (SqlJobRepository, of   *)
(* which this module is a composition with Kafka) and commits offsets.     *)
(*                                                                         *)
(* A topic has one partition here, which one member of the consumer group  *)
(* reads.  Its log is kept from the committed offset on, in two parts: the *)
(* messages that were polled since, and the messages still unread.  What   *)
(* lies behind the committed offset no consumer sees again.  A message is  *)
(* the id of a job.  Nothing publishes to the retry topic, so that it is   *)
(* left out.                                                               *)
(***************************************************************************)
EXTENDS SqlJobRepository, Sequences

CONSTANTS Priority,    \* the priority of each job
          MaxFailures  \* bound: how many deaths, evictions and stops of workers

ASSUME FleetAssumption ==
    /\ Priority \in [JobId -> Int]
    /\ MaxFailures \in Nat

VARIABLES
    unread,       \* topic -> its messages that no member has polled
    uncommitted,  \* topic -> its messages polled since the last commit
    reader,       \* topic -> the worker that reads it
    member,       \* the workers whose membership in the group is current
    loop,         \* where each worker is in the loop of Worker.run
    batch,        \* the polled messages each worker has still to process
    sweep,        \* the due jobs each worker has still to publish
    announcing,   \* the committed jobs whose first publish is still to come
    failures      \* how many deaths, evictions and stops there were

kafka == <<unread, uncommitted, reader, member>>
loops == <<loop, batch, sweep>>
fleet == <<kafka, loops, announcing, failures>>
fleetVars == <<vars, fleet>>

topic_for_priority(p) == IF p >= 8 THEN "high" ELSE IF p = 0 THEN "low" ELSE "default"

\* The topics that have messages; the others are never read from.
Topic == {topic_for_priority(Priority[j]) : j \in JobId}

Loop == {"polling", "polled", "sweeping", "processing", "processed"}

KafkaTypeOK ==
    /\ unread \in [Topic -> Seq(JobId)] /\ uncommitted \in [Topic -> Seq(JobId)]
    /\ reader \in [Topic -> Worker]
    /\ member \subseteq Worker

LoopTypeOK ==
    /\ loop \in [Worker -> Loop]
    /\ batch \in [Worker -> Seq(JobId)] /\ sweep \in [Worker -> SUBSET DOMAIN jobs]
    /\ announcing \subseteq DOMAIN jobs
    /\ failures \in 0 .. MaxFailures

StageOK(w) ==
    /\ loop[w] \in {"processing", "processed"} => batch[w] # << >>
    /\ pc[w] # "idle" => loop[w] = "processing" /\ job[w] = batch[w][1]

\* Messages name jobs, and a worker is in process_job only while its loop says
\* so, and for the first message of its batch.
FleetTypeOK == KafkaTypeOK /\ LoopTypeOK /\ \A w \in Worker : StageOK(w)

FleetInit ==
    /\ Init
    /\ unread = [t \in Topic |-> << >>] /\ uncommitted = [t \in Topic |-> << >>]
    /\ reader \in [Topic -> Worker]
    /\ member = Worker
    /\ loop = [w \in Worker |-> "polling"]
    /\ batch = [w \in Worker |-> << >>] /\ sweep = [w \in Worker |-> {}]
    /\ announcing = {}
    /\ failures = 0

-----------------------------------------------------------------------------
(* Publishing.                                                             *)

\* publish_job.  Bound: a job has at most one unread message, since a second one
\* would be polled with the first and skipped.
Publish(j) ==
    LET t == topic_for_priority(Priority[j])
    IN  unread' = IF \E i \in DOMAIN unread[t] : unread[t][i] = j THEN unread
                  ELSE [unread EXCEPT ![t] = Append(@, j)]

\* submit_job commits the row ...
Submit(j, retries, cron, delayed) ==
    /\ CreateJob(j, retries, cron, delayed)
    /\ announcing' = announcing \cup {j}
    /\ UNCHANGED <<kafka, loops, failures>>

\* ... and publishes it, due or not, if the API and Kafka are up.
Announce(j) ==
    /\ j \in announcing
    /\ announcing' = announcing \ {j}
    /\ Publish(j) \/ UNCHANGED unread
    /\ UNCHANGED <<vars, uncommitted, reader, member, loops, failures>>

-----------------------------------------------------------------------------
(* Worker.run.                                                             *)

Goes(w, stage) == loop' = [loop EXCEPT ![w] = stage]

\* Where the loop continues once msgs are what is left of a batch.
GoOn(w, msgs) == Goes(w, IF msgs = << >> THEN "polling" ELSE "processing")

\* What w polls from a topic: all of it, if it reads the topic.
Polls(w, t) == IF t \in Topic /\ w \in member /\ reader[t] = w THEN unread[t] ELSE << >>

\* poll, and the sort by _topic_rank.  A worker that was evicted from the group
\* joins it again, here without a topic.
Poll(w) ==
    /\ loop[w] = "polling"
    /\ batch' = [batch EXCEPT ![w] = Polls(w, "high") \o Polls(w, "default") \o Polls(w, "low")]
    /\ uncommitted' = [t \in Topic |-> uncommitted[t] \o Polls(w, t)]
    /\ unread' = [t \in Topic |-> IF Polls(w, t) # << >> THEN << >> ELSE unread[t]]
    /\ member' = member \cup {w}
    /\ Goes(w, "polled")
    /\ UNCHANGED <<vars, reader, sweep, announcing, failures>>

\* Mutation: only jobs that were never attempted are published again.
SweepQueued(w) ==
    /\ loop[w] = "polled"
    /\ sweep' = [sweep EXCEPT ![w] = {j \in due \cap DOMAIN jobs : jobs[j].status = "queued"}]
    /\ Goes(w, "sweeping")
    /\ UNCHANGED <<vars, kafka, batch, announcing, failures>>

\* publish_due_jobs: the query.  JobSubmission has its order and its limit.
SweepLoad(w) ==
    /\ loop[w] = "polled"
    /\ sweep' = [sweep EXCEPT ![w] = {j \in DOMAIN jobs : Claimable(j)}]
    /\ Goes(w, "sweeping")
    /\ UNCHANGED <<vars, kafka, batch, announcing, failures>>

SweepPublish(w) ==
    /\ loop[w] = "sweeping"
    /\ \E j \in sweep[w] :
          /\ Publish(j)
          /\ sweep' = [sweep EXCEPT ![w] = @ \ {j}]
    /\ UNCHANGED <<vars, uncommitted, reader, member, loop, batch, announcing, failures>>

SweepDone(w) ==
    /\ loop[w] = "sweeping" /\ sweep[w] = {}
    /\ GoOn(w, batch[w])
    /\ UNCHANGED <<vars, kafka, batch, sweep, announcing, failures>>

\* process_job starts: its first query, after which it may already be over.
Start(w) ==
    /\ loop[w] = "processing" /\ pc[w] = "idle"
    /\ \/ ClaimCheckDrain(w, batch[w][1]) /\ UNCHANGED loop
       \/ drain = TRUE /\ Goes(w, "processed") /\ UNCHANGED vars
    /\ UNCHANGED <<kafka, batch, sweep, announcing, failures>>

\* The claim lost against another one: process_job raises.
ClaimLost(w) == pc[w] = "claiming" /\ pc'[w] = "idle"

\* Mutation: the offsets are committed while process_job is still at work.
WorkAhead(w) ==
    /\ loop[w] = "processing"
    /\ ProcessJob(w) /\ ~ClaimLost(w)
    /\ Goes(w, "processed")
    /\ UNCHANGED <<kafka, batch, sweep, announcing, failures>>

\* process_job goes on, or returns.
Work(w) ==
    /\ loop[w] = "processing"
    /\ ProcessJob(w) /\ ~ClaimLost(w)
    /\ IF pc'[w] = "idle" THEN Goes(w, "processed") ELSE UNCHANGED loop
    /\ UNCHANGED <<kafka, batch, sweep, announcing, failures>>

\* Mutation: offsets are only committed while there are messages left.
CommitBetween(w) ==
    /\ loop[w] = "processed" /\ w \in member
    /\ uncommitted' = [t \in Topic |->
          IF reader[t] = w /\ Len(batch[w]) > 1 THEN << >> ELSE uncommitted[t]]
    /\ batch' = [batch EXCEPT ![w] = Tail(@)]
    /\ GoOn(w, Tail(batch[w]))
    /\ UNCHANGED <<vars, unread, reader, member, sweep, announcing, failures>>

\* consumer.commit() without arguments: the position of every topic the worker
\* reads, which is behind the last message it has polled.
Commit(w) ==
    /\ loop[w] = "processed" /\ w \in member
    /\ uncommitted' = [t \in Topic |-> IF reader[t] = w THEN << >> ELSE uncommitted[t]]
    /\ batch' = [batch EXCEPT ![w] = Tail(@)]
    /\ GoOn(w, Tail(batch[w]))
    /\ UNCHANGED <<vars, unread, reader, member, sweep, announcing, failures>>

-----------------------------------------------------------------------------
(* Failures.                                                               *)

\* The topics of w pass to v, which reads them from the committed offset on.
PassOn(w, v) ==
    /\ reader' = [t \in Topic |-> IF reader[t] = w THEN v ELSE reader[t]]
    /\ unread' = [t \in Topic |-> IF reader[t] = w THEN uncommitted[t] \o unread[t] ELSE unread[t]]
    /\ uncommitted' = [t \in Topic |-> IF reader[t] = w THEN << >> ELSE uncommitted[t]]

\* The process ends and is started again.
Restart(w) ==
    /\ \E v \in Worker : PassOn(w, v)
    /\ member' = member \cup {w}
    /\ Goes(w, "polling")
    /\ batch' = [batch EXCEPT ![w] = << >>]
    /\ sweep' = [sweep EXCEPT ![w] = {}]
    /\ UNCHANGED announcing

Fail == failures < MaxFailures /\ failures' = failures + 1

\* The process is killed, or loses the database, or a publish of its sweep fails.
Die(w) ==
    /\ loop[w] # "polling"
    /\ IF pc[w] = "idle" THEN UNCHANGED vars ELSE Crash(w)
    /\ Restart(w)
    /\ Fail

\* The IntegrityError of a lost claim leaves Worker.run.
DieOfConflict(w) ==
    /\ loop[w] = "processing"
    /\ ClaimCommit(w) /\ ClaimLost(w)
    /\ Restart(w)
    /\ UNCHANGED failures

\* The group goes on without w.
Expel(w) ==
    /\ w \in member
    /\ \E v \in Worker \ {w} : PassOn(w, v)
    /\ member' = member \ {w}
    /\ Fail
    /\ UNCHANGED <<vars, loops, announcing>>

\* Worker.stop: the loop ends at its head, where the consumer leaves the group,
\* and the process is started again.
Stop(w) == loop[w] = "polling" /\ Expel(w)

\* The worker did not poll for max.poll.interval.ms, being still at work.
Evict(w) == loop[w] # "polling" /\ Expel(w)

\* The CommitFailedError of a member that was evicted leaves Worker.run.
DieOfEviction(w) ==
    /\ loop[w] = "processed" /\ w \notin member
    /\ Restart(w)
    /\ UNCHANGED <<vars, failures>>

-----------------------------------------------------------------------------
\* Cancellations and drain requests, as in SqlJobRepository.
Api ==
    /\ \/ \E c \in Canceller : (\E j \in JobId : CancelLoad(c, j)) \/ CancelCommit(c)
       \/ \E o \in Operator :
             (\E enabled \in BOOLEAN : SetDrainLoad(o, enabled)) \/ SetDrainCommit(o)
    /\ UNCHANGED fleet

Tick(j) == BecomeDue(j) /\ UNCHANGED fleet

\* Everything a worker does when nothing fails.
Run(w) ==
    \/ Poll(w) \/ SweepLoad(w) \/ SweepPublish(w) \/ SweepDone(w)
    \/ Start(w) \/ Work(w) \/ Commit(w) \/ DieOfConflict(w) \/ DieOfEviction(w)

FleetNext ==
    \/ \E j \in JobId, retries \in RetryLimit, cron \in CronKind, delayed \in BOOLEAN :
          Submit(j, retries, cron, delayed)
    \/ \E j \in JobId : Announce(j) \/ Tick(j)
    \/ \E w \in Worker : Run(w) \/ Die(w) \/ Stop(w) \/ Evict(w)
    \/ Api

FleetSpec == FleetInit /\ [][FleetNext]_fleetVars

\* Workers are scheduled, Kafka and the database answer, process_job returns,
\* and time passes.  Failures end because they are bounded.
FleetFairness ==
    /\ \A w \in Worker : WF_fleetVars(Run(w))
    /\ \A j \in JobId : WF_fleetVars(Tick(j))

FleetFairSpec == FleetSpec /\ FleetFairness

-----------------------------------------------------------------------------
\* A worker that comes to the head of its loop, where alone a stop takes effect,
\* has committed every offset it has polled: a deployment that stops workers
\* with SIGTERM and waits loses no message and delivers none twice.
CommittedAtHead ==
    \A w \in Worker, t \in Topic :
        loop[w] = "polling" /\ w \in member /\ reader[t] = w => uncommitted[t] = << >>

\* A worker died between claim and outcome, and nothing repairs that.
Stranded(j) == jobs[j].status = "running" /\ ExecutorsOf(j) = {}

\* Once drain mode is off for good, every job reaches a final status, retries
\* included, unless a worker dies while it executes the job.  Lost first
\* publishes, messages consumed while draining or before they were due, early
\* offset commits, evictions and lost claims only delay it.
EveryJobSettles ==
    <>[](drain # TRUE) =>
        \A j \in JobId : []<>(j \notin DOMAIN jobs \/ jobs[j].status \in Terminal \/ Stranded(j))

\* CODE_REVIEW.md: the worker "commits offsets only after processing".
CommitAfterProcessing ==
    \A w \in member : loop[w] \in {"processing", "processed"} =>
        \A i \in DOMAIN batch[w] :
            \E t \in Topic : \E k \in DOMAIN uncommitted[t] : uncommitted[t][k] = batch[w][i]
=============================================================================
