-------------------------- MODULE WorkerLoopProofs --------------------------
(***************************************************************************)
(* The fleet of workers implements SqlJobRepository, so that what is       *)
(* proved there holds of it; a worker that stops leaves no offset behind   *)
(* that it has polled and not committed; and drain mode lets each worker   *)
(* commit one more claim at most.                                          *)
(***************************************************************************)
EXTENDS DrainMode, SqlJobRepositoryProofs

-----------------------------------------------------------------------------
(* Every step of the fleet is a step of the repository or leaves it alone. *)

LEMMA FleetStep == TypeOK /\ [FleetNext]_fleetVars => [Next]_vars
<1> SUFFICES ASSUME TypeOK, [FleetNext]_fleetVars PROVE [Next]_vars
  OBVIOUS
<1>1. ASSUME NEW j \in JobId, NEW retries \in RetryLimit, NEW cron \in CronKind,
             NEW delayed \in BOOLEAN, Submit(j, retries, cron, delayed)
      PROVE  Next
  BY <1>1 DEF Submit, Next
<1>2. ASSUME NEW j \in JobId, Announce(j) PROVE UNCHANGED vars
  BY <1>2 DEF Announce
<1>3. ASSUME NEW j \in JobId, Tick(j) PROVE Next
  BY <1>3 DEF Tick, Next
<1>4. ASSUME NEW w \in Worker, Run(w) PROVE [Next]_vars
  <2>1. CASE Poll(w) \/ SweepLoad(w) \/ SweepPublish(w) \/ SweepDone(w) \/ Commit(w)
    BY <2>1 DEF Poll, SweepLoad, SweepPublish, SweepDone, Commit
  <2>2. CASE Start(w)
    <3>1. ASSUME ClaimCheckDrain(w, batch[w][1]) PROVE Next
      <4>1. batch[w][1] \in JobId
        BY <3>1 DEF ClaimCheckDrain, TypeOK, TablesTypeOK
      <4>2. QED
        BY <3>1, <4>1 DEF Next
    <3>2. QED
      BY <2>2, <3>1 DEF Start
  <2>3. CASE Work(w)
    BY <2>3 DEF Work, Next
  <2>4. CASE DieOfConflict(w)
    BY <2>4 DEF DieOfConflict, Next, ProcessJob
  <2>5. CASE DieOfEviction(w)
    BY <2>5 DEF DieOfEviction
  <2>6. QED
    BY <1>4, <2>1, <2>2, <2>3, <2>4, <2>5 DEF Run
<1>5. ASSUME NEW w \in Worker, Die(w) PROVE [Next]_vars
  BY <1>5 DEF Die, Next
<1>6. ASSUME NEW w \in Worker, Stop(w) \/ Evict(w) PROVE UNCHANGED vars
  BY <1>6 DEF Stop, Evict, Expel
<1>7. CASE Api
  BY <1>7 DEF Api, Next
<1>8. CASE UNCHANGED fleetVars
  BY <1>8 DEF fleetVars
<1>9. QED
  BY <1>1, <1>2, <1>3, <1>4, <1>5, <1>6, <1>7, <1>8 DEF FleetNext

\* The fleet, with its polls, sweeps, commits, deaths, evictions and stops,
\* does nothing to jobs and attempts that SqlJobRepository does not allow.
THEOREM FleetImplementsRepository == FleetSpec => Spec
<1>1. FleetInit => Init
  BY DEF FleetInit
<1>2. TypeOK /\ [FleetNext]_fleetVars => TypeOK'
  BY FleetStep, NextTypeOK
<1>3. QED
  BY <1>1, <1>2, FleetStep, InitTypeOK, PTL DEF FleetSpec, Spec

\* The safety of the repository is that of the fleet: any number of workers and
\* jobs, of polls, republished and redelivered messages, crashes and evictions.
THEOREM FleetIsSafe ==
    FleetSpec => /\ []OneExecutor /\ []AttemptLedger /\ []RetryBound
                 /\ []OutcomeRecorded /\ []DeadLetterIsFinal /\ []OneLiveOccurrence
                 /\ CancellationFinal
<1>1. QED
  BY FleetImplementsRepository, MutualExclusion, LedgerIsExact, RetriesAreBounded,
     OutcomesAreRecorded, DeadLettersAreFinal, RecurrencesDoNotFork, CancellationsAreFinal, PTL

\* In a fleet, too, a job lives the life that is documented.
THEOREM FleetImplementsLifecycle == FleetSpec => ImplementsLifecycle
<1>1. QED
  BY FleetImplementsRepository, SqlImplementsLifecycle

-----------------------------------------------------------------------------
(* What a step of the repository does to the workers and to the job ids.   *)

LEMMA ProcessJobStep ==
    ASSUME TypeOK, NEW w \in Worker, ProcessJob(w)
    PROVE  /\ pc[w] # "idle"
           /\ \A v \in Worker \ {w} : pc'[v] = pc[v] /\ job'[v] = job[v]
           /\ pc'[w] # "idle" => job'[w] = job[w]
           /\ DOMAIN jobs \subseteq DOMAIN jobs'
<1> USE DEF TypeOK, WorkersTypeOK, TablesTypeOK, Goto, Leave, tables
<1>1. CASE ClaimLoad(w)
  BY <1>1 DEF ClaimLoad
<1>2. CASE ClaimCommit(w)
  BY <1>2 DEF ClaimCommit
<1>3. CASE MarkSucceededLoad(w)
  BY <1>3 DEF MarkSucceededLoad
<1>4. CASE MarkSucceededCommit(w)
  BY <1>4 DEF MarkSucceededCommit
<1>5. CASE CreateNextRecurring(w)
  BY <1>5 DEF CreateNextRecurring, Store
<1>6. CASE MarkFailedLoad(w)
  BY <1>6 DEF MarkFailedLoad
<1>7. CASE MarkFailedCommit(w)
  BY <1>7 DEF MarkFailedCommit
<1>8. CASE MarkFailedRefresh(w)
  BY <1>8 DEF MarkFailedRefresh
<1>9. CASE PublishDeadLetter(w)
  BY <1>9 DEF PublishDeadLetter
<1>10. QED
  BY <1>1, <1>2, <1>3, <1>4, <1>5, <1>6, <1>7, <1>8, <1>9 DEF ProcessJob

LEMMA ApiStep ==
    ASSUME TypeOK, Api
    PROVE  UNCHANGED <<pc, job, fleet>> /\ DOMAIN jobs' = DOMAIN jobs
<1> USE DEF tables, workers, TypeOK, TablesTypeOK
<1>1. ASSUME NEW c \in Canceller, NEW j \in JobId, CancelLoad(c, j)
      PROVE  UNCHANGED <<pc, job>> /\ DOMAIN jobs' = DOMAIN jobs
  BY <1>1 DEF CancelLoad
<1>2. ASSUME NEW c \in Canceller, CancelCommit(c)
      PROVE  UNCHANGED <<pc, job>> /\ DOMAIN jobs' = DOMAIN jobs
  BY <1>2 DEF CancelCommit
<1>3. ASSUME NEW o \in Operator, NEW enabled \in BOOLEAN, SetDrainLoad(o, enabled)
      PROVE  UNCHANGED <<pc, job>> /\ DOMAIN jobs' = DOMAIN jobs
  BY <1>3 DEF SetDrainLoad
<1>4. ASSUME NEW o \in Operator, SetDrainCommit(o)
      PROVE  UNCHANGED <<pc, job>> /\ DOMAIN jobs' = DOMAIN jobs
  BY <1>4 DEF SetDrainCommit
<1>5. QED
  BY <1>1, <1>2, <1>3, <1>4 DEF Api

-----------------------------------------------------------------------------
(* The inductive invariant behind CommittedAtHead: what is polled and not  *)
(* committed belongs to a member that has still messages to process, and a *)
(* worker at the head of its loop has none.                                *)

HeadOK ==
    /\ \A t \in Topic : uncommitted[t] # << >> => /\ reader[t] \in member
                                                 /\ batch[reader[t]] # << >>
    /\ \A w \in Worker : loop[w] = "polling" => batch[w] = << >>

FInv == FleetTypeOK /\ HeadOK

LEMMA PublishType ==
    ASSUME KafkaTypeOK, NEW j \in JobId, Publish(j), UNCHANGED <<uncommitted, reader, member>>
    PROVE  KafkaTypeOK'
BY DEF KafkaTypeOK, Publish, Topic

LEMMA PassOnType ==
    ASSUME KafkaTypeOK, HeadOK, NEW w \in Worker, NEW v \in Worker, PassOn(w, v)
    PROVE  /\ unread' \in [Topic -> Seq(JobId)] /\ uncommitted' \in [Topic -> Seq(JobId)]
           /\ reader' \in [Topic -> Worker]
           /\ \A t \in Topic : uncommitted'[t] # << >> =>
                 reader[t] # w /\ reader'[t] = reader[t] /\ uncommitted[t] # << >>
BY DEF KafkaTypeOK, PassOn

\* A worker that moves on in its loop, outside process_job.
LEMMA MoveType ==
    ASSUME LoopTypeOK, \A v \in Worker : StageOK(v), NEW w \in Worker, NEW stage \in Loop,
           Goes(w, stage), UNCHANGED <<pc, job>>, pc[w] = "idle",
           batch' \in [Worker -> Seq(JobId)], \A v \in Worker \ {w} : batch'[v] = batch[v],
           stage \in {"processing", "processed"} => batch'[w] # << >>
    PROVE  /\ loop' \in [Worker -> Loop]
           /\ \A v \in Worker : StageOK(v)'
BY DEF LoopTypeOK, StageOK, Goes

LEMMA RestartInv ==
    ASSUME FInv, NEW w \in Worker, Restart(w), UNCHANGED DOMAIN jobs,
           failures' \in 0 .. MaxFailures, pc'[w] = "idle",
           \A v \in Worker \ {w} : pc'[v] = pc[v] /\ job'[v] = job[v]
    PROVE  FInv'
<1>1. PICK v \in Worker : PassOn(w, v)
  BY DEF Restart
<1> USE DEF FInv, FleetTypeOK
<1>2. /\ unread' \in [Topic -> Seq(JobId)] /\ uncommitted' \in [Topic -> Seq(JobId)]
      /\ reader' \in [Topic -> Worker]
      /\ \A t \in Topic : uncommitted'[t] # << >> =>
            reader[t] # w /\ reader'[t] = reader[t] /\ uncommitted[t] # << >>
  BY <1>1, PassOnType
<1>3. KafkaTypeOK'
  BY <1>2 DEF Restart, KafkaTypeOK
<1>4. LoopTypeOK'
  BY DEF Restart, LoopTypeOK, Goes, Loop
<1>5. \A u \in Worker : StageOK(u)'
  BY DEF Restart, LoopTypeOK, Goes, StageOK
<1>6. HeadOK'
  <2>1. \A u \in Worker \ {w} : batch'[u] = batch[u] /\ loop'[u] = loop[u]
    BY DEF Restart, Goes, LoopTypeOK
  <2>2. batch'[w] = << >> /\ member' = member \cup {w}
    BY DEF Restart, LoopTypeOK
  <2>3. \A t \in Topic : uncommitted'[t] # << >> => reader'[t] \in member' /\ batch'[reader'[t]] # << >>
    <3>1. SUFFICES ASSUME NEW t \in Topic, uncommitted'[t] # << >>
                   PROVE  reader'[t] \in member' /\ batch'[reader'[t]] # << >>
      OBVIOUS
    <3>2. reader'[t] = reader[t] /\ reader[t] # w /\ reader[t] \in member /\ batch[reader[t]] # << >>
      BY <1>2, <3>1 DEF HeadOK
    <3>3. reader[t] \in Worker \ {w}
      BY <3>2 DEF KafkaTypeOK
    <3>4. batch'[reader[t]] = batch[reader[t]]
      BY <2>1, <3>3
    <3>5. QED
      BY <2>2, <3>2, <3>4
  <2>4. \A u \in Worker : loop'[u] = "polling" => batch'[u] = << >>
    BY <2>1, <2>2 DEF HeadOK
  <2>5. QED
    BY <2>3, <2>4 DEF HeadOK
<1>7. QED
  BY <1>3, <1>4, <1>5, <1>6

LEMMA FleetInitInv == FleetInit => FInv
BY FleetAssumption
   DEF FleetInit, Init, FInv, FleetTypeOK, KafkaTypeOK, LoopTypeOK, StageOK, HeadOK, Loop

LEMMA QuietInv ==
    ASSUME FInv, UNCHANGED <<pc, job, fleet>>, DOMAIN jobs \subseteq DOMAIN jobs'
    PROVE  FInv'
BY DEF FInv, FleetTypeOK, KafkaTypeOK, LoopTypeOK, StageOK, HeadOK, fleet, kafka, loops

LEMMA PollInv ==
    ASSUME FInv, TypeOK, NEW w \in Worker, Poll(w)
    PROVE  FInv'
<1> USE DEF FInv, FleetTypeOK
<1> DEFINE polled(t) == Polls(w, t)
<1>1. \A t : polled(t) \in Seq(JobId)
  BY DEF Polls, KafkaTypeOK
<1>2. KafkaTypeOK'
  BY <1>1 DEF Poll, KafkaTypeOK
<1>3. batch' \in [Worker -> Seq(JobId)]
  BY <1>1 DEF Poll, LoopTypeOK
<1>4. pc[w] = "idle" /\ UNCHANGED <<pc, job, jobs>>
  BY DEF Poll, StageOK, vars, workers, tables
<1>5. Goes(w, "polled") /\ \A v \in Worker \ {w} : batch'[v] = batch[v]
  BY DEF Poll, LoopTypeOK
<1>6. loop' \in [Worker -> Loop] /\ \A v \in Worker : StageOK(v)'
  BY <1>3, <1>4, <1>5, MoveType DEF Loop
<1>7. LoopTypeOK'
  BY <1>3, <1>4, <1>6 DEF Poll, LoopTypeOK
<1>8. HeadOK'
  <2>1. \A t \in Topic : reader[t] = w => uncommitted[t] = << >>
    BY DEF HeadOK, Poll
  <2>2. \A t \in Topic : polled(t) # << >> => reader[t] = w /\ w \in member
    BY DEF Polls
  <2>3. \A t \in Topic : t \in {"high", "default", "low"}
    BY DEF Topic, topic_for_priority
  <2>4. \A t \in Topic : polled(t) # << >> => batch'[w] # << >>
    <3>1. batch'[w] = (polled("high") \o polled("default")) \o polled("low")
      BY DEF Poll, LoopTypeOK
    <3>2. \A r, s \in Seq(JobId) : r # << >> \/ s # << >> => r \o s \in Seq(JobId) /\ r \o s # << >>
      OBVIOUS
    <3>3. polled("high") \o polled("default") \in Seq(JobId)
      BY <1>1
    <3>4. QED
      BY <1>1, <2>3, <3>1, <3>2, <3>3
  <2>5. \A t \in Topic : uncommitted'[t] # << >> => uncommitted[t] # << >> \/ polled(t) # << >>
    BY <1>1 DEF Poll, KafkaTypeOK
  <2>6. QED
    BY <1>5, <2>1, <2>2, <2>4, <2>5 DEF HeadOK, Poll, Goes, LoopTypeOK, KafkaTypeOK
<1>9. QED
  BY <1>2, <1>6, <1>7, <1>8

LEMMA SweepInv ==
    ASSUME FInv, TypeOK, NEW w \in Worker, SweepLoad(w) \/ SweepPublish(w) \/ SweepDone(w)
    PROVE  FInv'
<1> USE DEF FInv, FleetTypeOK
<1>1. loop[w] \notin {"processing", "processed", "polling"} /\ pc[w] = "idle"
  BY DEF SweepLoad, SweepPublish, SweepDone, StageOK
<1>2. UNCHANGED <<pc, job, jobs, batch, uncommitted, reader, member, announcing, failures>>
  BY DEF SweepLoad, SweepPublish, SweepDone, vars, workers, tables, kafka, loops
<1>3. KafkaTypeOK'
  <2>1. CASE SweepPublish(w)
    <3>1. PICK j \in sweep[w] : Publish(j)
      BY <2>1 DEF SweepPublish
    <3>2. j \in JobId
      BY <3>1 DEF LoopTypeOK, TypeOK, TablesTypeOK
    <3>3. QED
      BY <1>2, <3>1, <3>2, PublishType
  <2>2. QED
    BY <1>2, <2>1 DEF SweepLoad, SweepDone, KafkaTypeOK, kafka
<1>4. sweep' \in [Worker -> SUBSET DOMAIN jobs']
  BY <1>2 DEF SweepLoad, SweepPublish, SweepDone, LoopTypeOK
<1>5. \/ UNCHANGED loop
      \/ Goes(w, "sweeping")
      \/ batch[w] = << >> /\ Goes(w, "polling")
      \/ batch[w] # << >> /\ Goes(w, "processing")
  BY DEF SweepLoad, SweepPublish, SweepDone, GoOn
<1>6. loop' \in [Worker -> Loop] /\ \A v \in Worker : StageOK(v)'
  BY <1>1, <1>2, <1>5 DEF LoopTypeOK, StageOK, Goes, Loop
<1>7. LoopTypeOK'
  BY <1>2, <1>4, <1>6 DEF LoopTypeOK
<1>8. HeadOK'
  BY <1>2, <1>5 DEF HeadOK, Goes, LoopTypeOK
<1>9. QED
  BY <1>3, <1>6, <1>7, <1>8

LEMMA ProcessingInv ==
    ASSUME FInv, TypeOK, NEW w \in Worker, Start(w) \/ Work(w)
    PROVE  FInv'
<1> USE DEF FInv, FleetTypeOK
<1>1. loop[w] = "processing" /\ batch[w] # << >>
  BY DEF Start, Work, StageOK
<1>2. UNCHANGED <<kafka, batch, sweep, announcing, failures>>
  BY DEF Start, Work
<1>3. /\ DOMAIN jobs \subseteq DOMAIN jobs'
      /\ \A v \in Worker \ {w} : pc'[v] = pc[v] /\ job'[v] = job[v]
      /\ \/ UNCHANGED loop /\ (pc'[w] # "idle" => job'[w] = batch[w][1])
         \/ Goes(w, "processed") /\ pc'[w] = "idle"
  <2>1. CASE Work(w)
    BY <2>1, ProcessJobStep DEF Work, StageOK
  <2>2. CASE Start(w)
    BY <2>2 DEF Start, ClaimCheckDrain, vars, workers, tables, TypeOK, WorkersTypeOK
  <2>3. QED
    BY <2>1, <2>2
<1>4. KafkaTypeOK'
  BY <1>2 DEF KafkaTypeOK, kafka
<1>5. LoopTypeOK'
  BY <1>2, <1>3 DEF LoopTypeOK, Goes, Loop
<1>6. \A v \in Worker : StageOK(v)'
  BY <1>1, <1>2, <1>3 DEF StageOK, Goes, LoopTypeOK
<1>7. HeadOK'
  BY <1>1, <1>2, <1>3 DEF HeadOK, Goes, LoopTypeOK, kafka
<1>8. QED
  BY <1>4, <1>5, <1>6, <1>7

LEMMA CommitInv ==
    ASSUME FInv, NEW w \in Worker, Commit(w)
    PROVE  FInv'
<1> USE DEF FInv, FleetTypeOK
<1> DEFINE rest == Tail(batch[w])
<1>1. loop[w] = "processed" /\ batch[w] # << >> /\ batch[w] \in Seq(JobId) /\ pc[w] = "idle"
  BY DEF Commit, StageOK, LoopTypeOK
<1>2. rest \in Seq(JobId)
  BY <1>1
<1>3. /\ batch' \in [Worker -> Seq(JobId)] /\ batch'[w] = rest
      /\ \A v \in Worker \ {w} : batch'[v] = batch[v]
  BY <1>2 DEF Commit, LoopTypeOK
<1>4. UNCHANGED <<pc, job, jobs, unread, reader, member, sweep, announcing, failures>>
  BY DEF Commit, vars, workers, tables
<1>5. KafkaTypeOK'
  BY <1>4 DEF Commit, KafkaTypeOK
<1>6. \/ rest = << >> /\ Goes(w, "polling")
      \/ rest # << >> /\ Goes(w, "processing")
  BY DEF Commit, GoOn
<1>7. loop' \in [Worker -> Loop] /\ \A v \in Worker : StageOK(v)'
  BY <1>1, <1>3, <1>4, <1>6 DEF LoopTypeOK, StageOK, Goes, Loop
<1>8. LoopTypeOK'
  BY <1>3, <1>4, <1>7 DEF LoopTypeOK
<1>9. HeadOK'
  <2>1. \A t \in Topic : uncommitted'[t] # << >> => reader[t] # w /\ uncommitted[t] # << >>
    BY DEF Commit, KafkaTypeOK
  <2>2. \A t \in Topic : uncommitted'[t] # << >> => reader'[t] \in member' /\ batch'[reader'[t]] # << >>
    BY <1>3, <1>4, <2>1 DEF HeadOK, KafkaTypeOK
  <2>3. \A v \in Worker : loop'[v] = "polling" => batch'[v] = << >>
    BY <1>3, <1>6 DEF HeadOK, Goes, LoopTypeOK
  <2>4. QED
    BY <2>2, <2>3 DEF HeadOK
<1>10. QED
  BY <1>5, <1>7, <1>8, <1>9

LEMMA ExpelInv ==
    ASSUME FInv, NEW w \in Worker, Expel(w)
    PROVE  FInv'
<1> USE DEF FInv, FleetTypeOK
<1>1. PICK v \in Worker \ {w} : PassOn(w, v)
  BY DEF Expel
<1>2. /\ unread' \in [Topic -> Seq(JobId)] /\ uncommitted' \in [Topic -> Seq(JobId)]
      /\ reader' \in [Topic -> Worker]
      /\ \A t \in Topic : uncommitted'[t] # << >> =>
            reader[t] # w /\ reader'[t] = reader[t] /\ uncommitted[t] # << >>
  BY <1>1, PassOnType
<1>3. UNCHANGED <<pc, job, jobs, loop, batch, sweep, announcing>> /\ member' = member \ {w}
  BY DEF Expel, vars, workers, tables, loops
<1>4. KafkaTypeOK'
  BY <1>2, <1>3 DEF KafkaTypeOK
<1>5. failures' \in 0 .. MaxFailures
  BY FleetAssumption DEF Expel, Fail, LoopTypeOK
<1>6. LoopTypeOK' /\ \A u \in Worker : StageOK(u)'
  BY <1>3, <1>5 DEF LoopTypeOK, StageOK
<1>7. HeadOK'
  BY <1>2, <1>3 DEF HeadOK
<1>8. QED
  BY <1>4, <1>6, <1>7

-----------------------------------------------------------------------------
LEMMA FleetNextInv == FInv /\ TypeOK /\ [FleetNext]_fleetVars => FInv'
<1> SUFFICES ASSUME FInv, TypeOK, [FleetNext]_fleetVars PROVE FInv'
  OBVIOUS
<1>1. ASSUME NEW j \in JobId, NEW retries \in RetryLimit, NEW cron \in CronKind,
             NEW delayed \in BOOLEAN, Submit(j, retries, cron, delayed)
      PROVE  FInv'
  <2>1. DOMAIN jobs' = DOMAIN jobs \cup {j} /\ UNCHANGED <<pc, job>>
    BY <1>1 DEF Submit, CreateJob, Store, workers
  <2>2. QED
    BY <1>1, <2>1
       DEF Submit, FInv, FleetTypeOK, KafkaTypeOK, LoopTypeOK, StageOK, HeadOK, kafka, loops
<1>2. ASSUME NEW j \in JobId, Announce(j) PROVE FInv'
  <2>1. UNCHANGED <<pc, job, jobs, uncommitted, reader, member, loops, failures>>
    BY <1>2 DEF Announce, vars, workers, tables
  <2>2. KafkaTypeOK'
    BY <1>2, <2>1, PublishType DEF Announce, FInv, FleetTypeOK, KafkaTypeOK
  <2>3. announcing' \subseteq announcing
    BY <1>2 DEF Announce
  <2>4. QED
    BY <2>1, <2>2, <2>3 DEF FInv, FleetTypeOK, LoopTypeOK, StageOK, HeadOK, loops
<1>3. ASSUME NEW j \in JobId, Tick(j) PROVE FInv'
  BY <1>3, QuietInv DEF Tick, BecomeDue, workers
<1>4. ASSUME NEW w \in Worker, DieOfConflict(w) PROVE FInv'
  <2>1. ProcessJob(w) /\ pc'[w] = "idle"
    BY <1>4 DEF DieOfConflict, ClaimLost, ProcessJob
  <2>2. UNCHANGED jobs
    BY <1>4 DEF DieOfConflict, ClaimLost, ClaimCommit, Goto, TypeOK, WorkersTypeOK, tables
  <2>3. QED
    BY <1>4, <2>1, <2>2, ProcessJobStep, RestartInv
       DEF DieOfConflict, FInv, FleetTypeOK, LoopTypeOK
<1>5. ASSUME NEW w \in Worker, DieOfEviction(w) PROVE FInv'
  <2>1. UNCHANGED <<pc, job, jobs, failures>> /\ pc[w] = "idle"
    BY <1>5 DEF DieOfEviction, vars, workers, tables, FInv, FleetTypeOK, StageOK
  <2>2. QED
    BY <1>5, <2>1, RestartInv DEF DieOfEviction, FInv, FleetTypeOK, LoopTypeOK
<1>6. ASSUME NEW w \in Worker, Die(w) PROVE FInv'
  <2>1. /\ pc'[w] = "idle" /\ UNCHANGED jobs
        /\ \A v \in Worker \ {w} : pc'[v] = pc[v] /\ job'[v] = job[v]
    BY <1>6 DEF Die, Crash, Leave, Goto, vars, workers, tables, TypeOK, WorkersTypeOK
  <2>2. failures' \in 0 .. MaxFailures
    BY <1>6, FleetAssumption DEF Die, Fail, FInv, FleetTypeOK, LoopTypeOK
  <2>3. QED
    BY <1>6, <2>1, <2>2, RestartInv DEF Die
<1>7. ASSUME NEW w \in Worker, Run(w) PROVE FInv'
  BY <1>4, <1>5, <1>7, PollInv, SweepInv, ProcessingInv, CommitInv DEF Run
<1>8. ASSUME NEW w \in Worker, Stop(w) \/ Evict(w) PROVE FInv'
  BY <1>8, ExpelInv DEF Stop, Evict
<1>9. CASE Api
  BY <1>9, ApiStep, QuietInv
<1>10. CASE UNCHANGED fleetVars
  BY <1>10, QuietInv DEF fleetVars, vars, workers, tables
<1>11. QED
  BY <1>1, <1>2, <1>3, <1>6, <1>7, <1>8, <1>9, <1>10 DEF FleetNext

LEMMA FleetInvariant == FleetSpec => []FInv
<1>1. TypeOK /\ [FleetNext]_fleetVars => TypeOK'
  BY FleetStep, NextTypeOK
<1>2. FleetInit => TypeOK
  BY InitTypeOK DEF FleetInit
<1>3. QED
  BY <1>1, <1>2, FleetInitInv, FleetNextInv, PTL DEF FleetSpec

\* A worker is in process_job only for the first message of its batch.
THEOREM FleetTypeCorrect == FleetSpec => []FleetTypeOK
<1>1. FInv => FleetTypeOK
  BY DEF FInv
<1>2. QED
  BY <1>1, FleetInvariant, PTL

\* A worker that stops at the head of its loop has committed all it has polled,
\* after any number of batches, deaths, evictions and stops.
THEOREM StopsClean == FleetSpec => []CommittedAtHead
<1>1. FInv => CommittedAtHead
  BY DEF FInv, HeadOK, CommittedAtHead, FleetTypeOK, KafkaTypeOK
<1>2. QED
  BY <1>1, FleetInvariant, PTL

-----------------------------------------------------------------------------
(* Drain mode.  A worker that is on its way to a claim has none to its     *)
(* name yet, and while drain mode is on, nobody sets out for one.          *)

DInv ==
    /\ late \in [Worker -> Nat]
    /\ drain = TRUE =>
          \A w \in Worker : late[w] <= 1 /\ (pc[w] \in Claiming => late[w] = 0)

\* The only way into claim_job leads past the check of drain_enabled.
LEMMA WayIntoClaiming ==
    ASSUME TypeOK, [Next]_vars, NEW w \in Worker, pc[w] \notin Claiming, pc'[w] \in Claiming
    PROVE  drain # TRUE
<1> USE DEF Claiming, TypeOK, WorkersTypeOK, workers
<1>1. ASSUME NEW j \in JobId, NEW retries \in RetryLimit, NEW cron \in CronKind,
             NEW delayed \in BOOLEAN, CreateJob(j, retries, cron, delayed)
      PROVE  FALSE
  BY <1>1 DEF CreateJob
<1>2. ASSUME NEW j \in JobId, BecomeDue(j) PROVE FALSE
  BY <1>2 DEF BecomeDue
<1>3. ASSUME NEW v \in Worker, NEW j \in JobId, ClaimCheckDrain(v, j) PROVE drain # TRUE
  BY <1>3 DEF ClaimCheckDrain
<1>4. ASSUME NEW v \in Worker, ProcessJob(v) PROVE FALSE
  <2> USE DEF Goto, Leave
  <2>1. ~ClaimLoad(v) /\ ~ClaimCommit(v)
    BY DEF ClaimLoad, ClaimCommit
  <2>2. ~MarkSucceededLoad(v) /\ ~MarkSucceededCommit(v) /\ ~CreateNextRecurring(v)
    BY DEF MarkSucceededLoad, MarkSucceededCommit, CreateNextRecurring
  <2>3. ~MarkFailedLoad(v) /\ ~MarkFailedCommit(v) /\ ~MarkFailedRefresh(v)
    BY DEF MarkFailedLoad, MarkFailedCommit, MarkFailedRefresh
  <2>4. ~PublishDeadLetter(v)
    BY DEF PublishDeadLetter
  <2>5. QED
    BY <1>4, <2>1, <2>2, <2>3, <2>4 DEF ProcessJob
<1>5. ASSUME NEW v \in Worker, Crash(v) PROVE FALSE
  BY <1>5 DEF Crash, Goto, Leave
<1>6. ASSUME NEW c \in Canceller,
             (\E j \in JobId : CancelLoad(c, j)) \/ CancelCommit(c)
      PROVE  FALSE
  BY <1>6 DEF CancelLoad, CancelCommit
<1>7. ASSUME NEW o \in Operator,
             (\E enabled \in BOOLEAN : SetDrainLoad(o, enabled)) \/ SetDrainCommit(o)
      PROVE  FALSE
  BY <1>7 DEF SetDrainLoad, SetDrainCommit
<1>8. CASE UNCHANGED vars
  BY <1>8 DEF vars
<1>9. QED
  BY <1>1, <1>2, <1>3, <1>4, <1>5, <1>6, <1>7, <1>8 DEF Next

\* A watched step is a step of the fleet.
LEMMA WatchedStep == DrainNext => FleetNext /\ Watch
BY Zenon DEF DrainNext, FleetNext

LEMMA DrainStep == TypeOK /\ DInv /\ [DrainNext]_drainVars => DInv'
<1> SUFFICES ASSUME TypeOK, DInv, [DrainNext]_drainVars PROVE DInv'
  OBVIOUS
<1>1. CASE DrainNext
  <2>1. late' \in [Worker -> Nat]
    BY <1>1, WatchedStep DEF Watch, DInv
  <2>2. ASSUME drain' = TRUE, NEW w \in Worker
        PROVE  late'[w] <= 1 /\ (pc'[w] \in Claiming => late'[w] = 0)
    <3>1. CASE drain # TRUE
      <4>1. late'[w] = 0
        BY <1>1, <2>2, <3>1, WatchedStep DEF Watch
      <4>2. QED
        BY <4>1
    <3>2. CASE drain = TRUE
      <4>1. late'[w] = IF CommitsClaim(w) THEN late[w] + 1 ELSE late[w]
        BY <1>1, <2>2, <3>2, WatchedStep DEF Watch
      <4>2. late[w] \in Nat /\ late[w] <= 1 /\ (pc[w] \in Claiming => late[w] = 0)
        BY <3>2 DEF DInv
      <4>3. pc'[w] \in Claiming => pc[w] \in Claiming
        BY <1>1, <3>2, WatchedStep, FleetStep, WayIntoClaiming
      <4>4. CommitsClaim(w) => pc[w] \in Claiming /\ pc'[w] \notin Claiming
        BY DEF CommitsClaim, Claiming
      <4>5. QED
        BY <4>1, <4>2, <4>3, <4>4
    <3>3. QED
      BY <3>1, <3>2
  <2>3. QED
    BY <2>1, <2>2 DEF DInv
<1>2. CASE UNCHANGED drainVars
  BY <1>2 DEF drainVars, fleetVars, vars, workers, api, DInv
<1>3. QED
  BY <1>1, <1>2

\* An operator who has switched drain mode on has to wait for one more claim of
\* each worker at most, with any number of workers, jobs, retries, crashes,
\* cancellations and drain requests.
THEOREM DrainsLetOneClaimThrough == DrainSpec => []OneLateClaim
<1>1. DrainInit => TypeOK /\ DInv
  BY InitTypeOK DEF DrainInit, DInv, FleetInit, Init
<1>2. TypeOK /\ [DrainNext]_drainVars => TypeOK'
  <2>1. TypeOK /\ [DrainNext]_drainVars => [Next]_vars
    BY WatchedStep, FleetStep DEF drainVars
  <2>2. QED
    BY <2>1, NextTypeOK
<1>3. DInv => OneLateClaim
  BY DEF DInv, OneLateClaim
<1>4. QED
  BY <1>1, <1>2, <1>3, DrainStep, PTL DEF DrainSpec
=============================================================================
