----------------------- MODULE SqlJobRepositoryProofs -----------------------
(***************************************************************************)
(* Theorems about SqlJobRepository, for any number of jobs, workers and    *)
(* requests and any retry budgets: the row and the attempts of a job under *)
(* any interleaving, then its life up to the refinement of JobLifecycle.   *)
(***************************************************************************)
EXTENDS SqlJobRepository, JobRowProofs

-----------------------------------------------------------------------------
(* Type correctness.                                                       *)

LEMMA InitTypeOK == Init => TypeOK
<1> SUFFICES ASSUME Init PROVE TypeOK
  OBVIOUS
<1>1. TablesTypeOK
  BY EmptyTable DEF Init, TablesTypeOK
<1>2. WorkersTypeOK
  BY DEF Init, WorkersTypeOK, PC, Claiming, Executing, Loaded
<1>3. ApiTypeOK
  BY DEF Init, ApiTypeOK
<1>4. QED
  BY <1>1, <1>2, <1>3 DEF TypeOK

\* A worker moves to another stage with the row it loaded, if it loaded one.
LEMMA GotoType ==
    ASSUME TypeOK, NEW w \in Worker, NEW stage \in PC \ {"idle"}, NEW row \in Row \cup {None},
           Goto(w, stage, row), job' = job, job[w] \in DOMAIN jobs,
           stage \in Loaded => row \in Row, DOMAIN jobs \subseteq DOMAIN jobs'
    PROVE  WorkersTypeOK'
  BY DEF TypeOK, WorkersTypeOK, Goto

\* A worker leaves process_job.
LEMMA LeaveType ==
    ASSUME TypeOK, NEW w \in Worker, Leave(w), DOMAIN jobs \subseteq DOMAIN jobs'
    PROVE  WorkersTypeOK'
  BY DEF TypeOK, WorkersTypeOK, Leave, Goto, PC, Loaded

\* A commit that updates one row of jobs keeps the table well-formed.
LEMMA UpdateJobType ==
    ASSUME TypeOK, NEW j \in DOMAIN jobs, NEW row \in Row, jobs' = [jobs EXCEPT ![j] = row]
    PROVE  /\ jobs' \in [DOMAIN jobs' -> Row]
           /\ DOMAIN jobs' = DOMAIN jobs
  BY DEF TypeOK, TablesTypeOK

\* _finish_attempt keeps job_attempts well-formed and adds no attempt.
LEMMA FinishAttemptType ==
    ASSUME TypeOK, NEW j, NEW row, NEW status \in AttemptStatus,
           attempts' = FinishAttempt(j, row, status)
    PROVE  /\ DOMAIN attempts' = DOMAIN attempts
           /\ attempts' \in [DOMAIN attempts' -> AttemptStatus]
  BY DEF TypeOK, TablesTypeOK, FinishAttempt

\* Steps that leave the requests alone keep them well-formed.
LEMMA ApiUnchangedType ==
    ASSUME TypeOK, UNCHANGED api, DOMAIN jobs \subseteq DOMAIN jobs'
    PROVE  ApiTypeOK'
  BY DEF TypeOK, ApiTypeOK, api

LEMMA WorkersUnchangedType ==
    ASSUME TypeOK, UNCHANGED workers, DOMAIN jobs \subseteq DOMAIN jobs'
    PROVE  WorkersTypeOK'
  BY DEF TypeOK, WorkersTypeOK, workers

LEMMA TablesUnchangedType ==
    ASSUME TypeOK, UNCHANGED <<tables, dead_letters>>
    PROVE  TablesTypeOK' /\ DOMAIN jobs' = DOMAIN jobs
  BY DEF TypeOK, TablesTypeOK, tables

\* Every operation, committed or interrupted, keeps TypeOK.
LEMMA NextTypeOK == TypeOK /\ [Next]_vars => TypeOK'
<1> SUFFICES ASSUME TypeOK, [Next]_vars PROVE TypeOK'
  OBVIOUS
<1> USE ConstantsAssumption
<1>1. ASSUME NEW j \in JobId, NEW retries \in RetryLimit, NEW cron \in CronKind,
             NEW delayed \in BOOLEAN, CreateJob(j, retries, cron, delayed)
      PROVE  TypeOK'
  <2>1. NewRow(retries, cron) \in Row
    BY NewRowColumns
  <2>2. /\ DOMAIN jobs' = DOMAIN jobs \cup {j}
        /\ jobs' \in [DOMAIN jobs' -> Row]
        /\ chain' \in [DOMAIN jobs' -> JobId]
    <3>1. jobs \in [DOMAIN jobs -> Row] /\ chain \in [DOMAIN chain -> JobId]
          /\ DOMAIN chain = DOMAIN jobs
      BY DEF TypeOK, TablesTypeOK
    <3>2. /\ DOMAIN jobs' = DOMAIN jobs \cup {j}
          /\ jobs' \in [DOMAIN jobs' -> Row]
      BY <1>1, <2>1, <3>1 DEF CreateJob, Store
    <3>3. chain' \in [DOMAIN jobs' -> JobId]
      BY <1>1, <3>1, <3>2 DEF CreateJob, Store
    <3>4. QED
      BY <3>2, <3>3
  <2>3. TablesTypeOK'
    BY <1>1, <2>2 DEF CreateJob, TypeOK, TablesTypeOK
  <2>4. QED
    BY <1>1, <2>2, <2>3, WorkersUnchangedType, ApiUnchangedType DEF CreateJob, TypeOK
<1>2. ASSUME NEW j \in JobId, BecomeDue(j) PROVE TypeOK'
  <2>1. TablesTypeOK'
    BY <1>2 DEF BecomeDue, TypeOK, TablesTypeOK
  <2>2. QED
    BY <1>2, <2>1, WorkersUnchangedType, ApiUnchangedType DEF BecomeDue, TypeOK
<1>3. ASSUME NEW w \in Worker, NEW j \in JobId, ClaimCheckDrain(w, j) PROVE TypeOK'
  <2>1. WorkersTypeOK'
    BY <1>3 DEF ClaimCheckDrain, TypeOK, WorkersTypeOK, tables, PC, Claiming, Loaded
  <2>2. QED
    BY <1>3, <2>1, TablesUnchangedType, ApiUnchangedType DEF ClaimCheckDrain, TypeOK
<1>4. ASSUME NEW w \in Worker, ClaimLoad(w) PROVE TypeOK'
  <2>1. job[w] \in DOMAIN jobs /\ jobs[job[w]] \in Row
    BY <1>4 DEF ClaimLoad, TypeOK, TablesTypeOK, WorkersTypeOK
  <2>2. WorkersTypeOK'
    BY <1>4, <2>1, GotoType, LeaveType DEF ClaimLoad, tables, PC, Claiming
  <2>3. QED
    BY <1>4, <2>2, TablesUnchangedType, ApiUnchangedType DEF ClaimLoad, TypeOK
<1>5. ASSUME NEW w \in Worker, ClaimCommit(w) PROVE TypeOK'
  <2> DEFINE j == job[w]
             new == Claimed(seen[w])
             key == <<j, new.attempt_count>>
             row == Flush(jobs[j], seen[w], new)
  <2>1. j \in DOMAIN jobs /\ j \in JobId /\ jobs[j] \in Row /\ seen[w] \in Row
    BY <1>5 DEF ClaimCommit, TypeOK, TablesTypeOK, WorkersTypeOK, Loaded
  <2>2. new \in Row /\ new.attempt_count \in Nat
    BY <2>1, ClaimedColumns, RowColumns
  <2>3. row \in Row
    BY <2>1, <2>2, FlushColumns
  <2>4. CASE AttemptKeyFree(key)
    <3>1. /\ jobs' = [jobs EXCEPT ![j] = row]
          /\ attempts' = Store(attempts, key, "running")
          /\ Goto(w, "running", None)
          /\ UNCHANGED <<due, chain, job, api, dead_letters>>
      BY <1>5, <2>4 DEF ClaimCommit
    <3> HIDE DEF row, key
    <3>2. jobs' \in [DOMAIN jobs' -> Row] /\ DOMAIN jobs' = DOMAIN jobs
      BY <2>1, <2>3, <3>1, UpdateJobType
    <3>3. key \in JobId \X Nat
      BY <2>1, <2>2 DEF key
    <3>4. attempts' \in [DOMAIN attempts' -> AttemptStatus] /\ DOMAIN attempts' \subseteq JobId \X Nat
      <4>1. attempts \in [DOMAIN attempts -> AttemptStatus] /\ DOMAIN attempts \subseteq JobId \X Nat
        BY DEF TypeOK, TablesTypeOK
      <4>2. "running" \in AttemptStatus
        BY DEF AttemptStatus
      <4>3. /\ DOMAIN attempts' = DOMAIN attempts \cup {key}
            /\ attempts' \in [DOMAIN attempts' -> AttemptStatus]
        BY <3>1, <4>1, <4>2 DEF Store
      <4>4. QED
        BY <3>3, <4>1, <4>3
    <3>5. TablesTypeOK'
      BY <3>1, <3>2, <3>4 DEF TypeOK, TablesTypeOK
    <3>6. WorkersTypeOK'
      BY <2>1, <3>1, <3>2, GotoType DEF PC, Executing, Loaded
    <3>7. ApiTypeOK'
      BY <3>1, <3>2, ApiUnchangedType
    <3>8. QED
      BY <3>5, <3>6, <3>7 DEF TypeOK
  <2>5. CASE ~AttemptKeyFree(key)
    BY <1>5, <2>5, LeaveType, TablesUnchangedType, ApiUnchangedType DEF ClaimCommit, TypeOK
  <2>6. QED
    BY <2>4, <2>5
<1>6. ASSUME NEW w \in Worker, MarkSucceededLoad(w) PROVE TypeOK'
  <2>1. job[w] \in DOMAIN jobs /\ jobs[job[w]] \in Row
    BY <1>6 DEF MarkSucceededLoad, TypeOK, TablesTypeOK, WorkersTypeOK
  <2>2. WorkersTypeOK'
    BY <1>6, <2>1, GotoType DEF MarkSucceededLoad, tables, PC, Executing
  <2>3. QED
    BY <1>6, <2>2, TablesUnchangedType, ApiUnchangedType DEF MarkSucceededLoad, TypeOK
<1>7. ASSUME NEW w \in Worker, MarkSucceededCommit(w) PROVE TypeOK'
  <2> DEFINE j == job[w]
             row == Flush(jobs[j], seen[w], Succeeded(seen[w]))
  <2>1. j \in DOMAIN jobs /\ jobs[j] \in Row /\ seen[w] \in Row
    BY <1>7 DEF MarkSucceededCommit, TypeOK, TablesTypeOK, WorkersTypeOK, Loaded
  <2>2. row \in Row
    BY <2>1, SucceededColumns, FlushColumns
  <2>3. jobs' = [jobs EXCEPT ![j] = row]
    BY <1>7 DEF MarkSucceededCommit
  <2> HIDE DEF row
  <2>4. jobs' \in [DOMAIN jobs' -> Row] /\ DOMAIN jobs' = DOMAIN jobs
    BY <2>1, <2>2, <2>3, UpdateJobType
  <2>5. attempts' \in [DOMAIN attempts' -> AttemptStatus] /\ DOMAIN attempts' = DOMAIN attempts
    BY <1>7, FinishAttemptType DEF MarkSucceededCommit, AttemptStatus
  <2>6. TablesTypeOK'
    BY <1>7, <2>4, <2>5 DEF MarkSucceededCommit, TypeOK, TablesTypeOK
  <2>7. WorkersTypeOK'
    BY <1>7, <2>1, <2>4, GotoType DEF MarkSucceededCommit, PC, Executing, Loaded
  <2>8. QED
    BY <1>7, <2>4, <2>6, <2>7, ApiUnchangedType DEF MarkSucceededCommit, TypeOK
<1>8. ASSUME NEW w \in Worker, CreateNextRecurring(w) PROVE TypeOK'
  <2> DEFINE j == job[w]
  <2>1. j \in DOMAIN jobs /\ jobs[j] \in Row /\ chain[j] \in JobId
    BY <1>8 DEF CreateNextRecurring, TypeOK, TablesTypeOK, WorkersTypeOK
  <2>2. \A cron \in CronKind : NewRow(jobs[j].max_retries, cron) \in Row
    BY <2>1, RowColumns, NewRowColumns
  <2>3. /\ jobs' \in [DOMAIN jobs' -> Row]
        /\ chain' \in [DOMAIN jobs' -> JobId]
        /\ DOMAIN jobs \subseteq DOMAIN jobs'
        /\ DOMAIN jobs' \subseteq JobId
    <3>1. CASE UNCHANGED <<jobs, chain>>
      BY <3>1 DEF TypeOK, TablesTypeOK
    <3>2. ASSUME NEW k \in JobId \ DOMAIN jobs, NEW cron \in CronKind,
                 jobs' = Store(jobs, k, NewRow(jobs[j].max_retries, cron)),
                 chain' = Store(chain, k, chain[j])
          PROVE  /\ jobs' \in [DOMAIN jobs' -> Row]
                 /\ chain' \in [DOMAIN jobs' -> JobId]
                 /\ DOMAIN jobs \subseteq DOMAIN jobs'
                 /\ DOMAIN jobs' \subseteq JobId
      <4>1. jobs \in [DOMAIN jobs -> Row] /\ chain \in [DOMAIN chain -> JobId]
            /\ DOMAIN chain = DOMAIN jobs /\ DOMAIN jobs \subseteq JobId
        BY DEF TypeOK, TablesTypeOK
      <4>2. /\ DOMAIN jobs' = DOMAIN jobs \cup {k}
            /\ jobs' \in [DOMAIN jobs' -> Row]
        BY <2>2, <3>2, <4>1 DEF Store
      <4>3. chain' \in [DOMAIN jobs' -> JobId]
        BY <2>1, <3>2, <4>1, <4>2 DEF Store
      <4>4. QED
        BY <3>2, <4>1, <4>2, <4>3
    <3>3. QED
      BY <1>8, <3>1, <3>2 DEF CreateNextRecurring
  <2>4. TablesTypeOK'
    BY <1>8, <2>3 DEF CreateNextRecurring, TypeOK, TablesTypeOK
  <2>5. QED
    BY <1>8, <2>3, <2>4, LeaveType, ApiUnchangedType DEF CreateNextRecurring, TypeOK
<1>9. ASSUME NEW w \in Worker, MarkFailedLoad(w) PROVE TypeOK'
  <2>1. job[w] \in DOMAIN jobs /\ jobs[job[w]] \in Row
    BY <1>9 DEF MarkFailedLoad, TypeOK, TablesTypeOK, WorkersTypeOK
  <2>2. WorkersTypeOK'
    BY <1>9, <2>1, GotoType DEF MarkFailedLoad, tables, PC, Executing
  <2>3. QED
    BY <1>9, <2>2, TablesUnchangedType, ApiUnchangedType DEF MarkFailedLoad, TypeOK
<1>10. ASSUME NEW w \in Worker, MarkFailedCommit(w) PROVE TypeOK'
  <2> DEFINE j == job[w]
             row == Flush(jobs[j], seen[w], FailedAttempt(seen[w]))
  <2>1. j \in DOMAIN jobs /\ jobs[j] \in Row /\ seen[w] \in Row
    BY <1>10 DEF MarkFailedCommit, TypeOK, TablesTypeOK, WorkersTypeOK, Loaded
  <2>2. row \in Row
    BY <2>1, FailedAttemptColumns, FlushColumns
  <2>3. jobs' = [jobs EXCEPT ![j] = row]
    BY <1>10 DEF MarkFailedCommit
  <2> HIDE DEF row
  <2>4. jobs' \in [DOMAIN jobs' -> Row] /\ DOMAIN jobs' = DOMAIN jobs
    BY <2>1, <2>2, <2>3, UpdateJobType
  <2>5. attempts' \in [DOMAIN attempts' -> AttemptStatus] /\ DOMAIN attempts' = DOMAIN attempts
    BY <1>10, FinishAttemptType DEF MarkFailedCommit, AttemptStatus
  <2>6. TablesTypeOK'
    BY <1>10, <2>4, <2>5 DEF MarkFailedCommit, TypeOK, TablesTypeOK
  <2>7. WorkersTypeOK'
    BY <1>10, <2>1, <2>4, GotoType DEF MarkFailedCommit, PC, Loaded
  <2>8. QED
    BY <1>10, <2>4, <2>6, <2>7, ApiUnchangedType DEF MarkFailedCommit, TypeOK
<1>11. ASSUME NEW w \in Worker, MarkFailedRefresh(w) PROVE TypeOK'
  <2>1. job[w] \in DOMAIN jobs
    BY <1>11 DEF MarkFailedRefresh, TypeOK, WorkersTypeOK
  <2>2. WorkersTypeOK'
    BY <1>11, <2>1, GotoType, LeaveType DEF MarkFailedRefresh, tables, PC, Loaded
  <2>3. QED
    BY <1>11, <2>2, TablesUnchangedType, ApiUnchangedType DEF MarkFailedRefresh, TypeOK
<1>12. ASSUME NEW w \in Worker, PublishDeadLetter(w) PROVE TypeOK'
  <2>1. job[w] \in JobId
    BY <1>12 DEF PublishDeadLetter, TypeOK, TablesTypeOK, WorkersTypeOK
  <2>2. TablesTypeOK' /\ UNCHANGED jobs
    BY <1>12, <2>1 DEF PublishDeadLetter, TypeOK, TablesTypeOK, tables
  <2>3. QED
    BY <1>12, <2>2, LeaveType, ApiUnchangedType DEF PublishDeadLetter, TypeOK
<1>13. ASSUME NEW w \in Worker, Crash(w) PROVE TypeOK'
  BY <1>13, LeaveType, TablesUnchangedType, ApiUnchangedType DEF Crash, TypeOK
<1>14. ASSUME NEW c \in Canceller, NEW j \in JobId, CancelLoad(c, j) PROVE TypeOK'
  <2>1. [job |-> j, row |-> jobs[j]] \in CancelRequest
    BY <1>14 DEF CancelLoad, CancelRequest, TypeOK, TablesTypeOK
  <2>2. ApiTypeOK'
    BY <1>14, <2>1 DEF CancelLoad, TypeOK, ApiTypeOK, tables
  <2>3. QED
    BY <1>14, <2>2, TablesUnchangedType, WorkersUnchangedType DEF CancelLoad, TypeOK
<1>15. ASSUME NEW c \in Canceller, CancelCommit(c) PROVE TypeOK'
  <2> DEFINE j == cancelling[c].job
             loaded == cancelling[c].row
             row == Flush(jobs[j], loaded, Cancelled(loaded))
  <2>1. cancelling[c] \in CancelRequest /\ j \in DOMAIN jobs
    BY <1>15 DEF CancelCommit, TypeOK, ApiTypeOK
  <2>2. loaded \in Row /\ jobs[j] \in Row
    BY <2>1 DEF CancelRequest, TypeOK, TablesTypeOK
  <2>3. row \in Row
    BY <2>2, CancelledColumns, FlushColumns
  <2>4. jobs' = [jobs EXCEPT ![j] = row]
    BY <1>15 DEF CancelCommit
  <2> HIDE DEF row
  <2>5. jobs' \in [DOMAIN jobs' -> Row] /\ DOMAIN jobs' = DOMAIN jobs
    BY <2>1, <2>3, <2>4, UpdateJobType
  <2>6. TablesTypeOK'
    BY <1>15, <2>5 DEF CancelCommit, TypeOK, TablesTypeOK
  <2>7. ApiTypeOK'
    BY <1>15, <2>5 DEF CancelCommit, TypeOK, ApiTypeOK
  <2>8. QED
    BY <1>15, <2>5, <2>6, <2>7, WorkersUnchangedType DEF CancelCommit, TypeOK
<1>16. ASSUME NEW o \in Operator, NEW enabled \in BOOLEAN, SetDrainLoad(o, enabled)
       PROVE  TypeOK'
  <2>1. [enabled |-> enabled, was |-> drain] \in DrainRequest
    BY DEF DrainRequest, TypeOK, ApiTypeOK
  <2>2. ApiTypeOK'
    BY <1>16, <2>1 DEF SetDrainLoad, TypeOK, ApiTypeOK, tables
  <2>3. QED
    BY <1>16, <2>2, TablesUnchangedType, WorkersUnchangedType DEF SetDrainLoad, TypeOK
<1>17. ASSUME NEW o \in Operator, SetDrainCommit(o) PROVE TypeOK'
  <2>1. draining[o].enabled \in BOOLEAN
    BY <1>17 DEF SetDrainCommit, DrainRequest, TypeOK, ApiTypeOK
  <2>2. ApiTypeOK'
    BY <1>17, <2>1 DEF SetDrainCommit, TypeOK, ApiTypeOK, tables
  <2>3. QED
    BY <1>17, <2>2, TablesUnchangedType, WorkersUnchangedType DEF SetDrainCommit, TypeOK
<1>18. CASE UNCHANGED vars
  BY <1>18, TablesUnchangedType, WorkersUnchangedType, ApiUnchangedType DEF vars, TypeOK
<1>19. QED
  BY <1>1, <1>2, <1>3, <1>4, <1>5, <1>6, <1>7, <1>8, <1>9, <1>10, <1>11, <1>12, <1>13,
     <1>14, <1>15, <1>16, <1>17, <1>18 DEF Next, ProcessJob

\* The tables and the processes always hold what TypeOK says.
THEOREM TypeCorrect == Spec => []TypeOK
<1>1. QED
  BY InitTypeOK, NextTypeOK, PTL DEF Spec

-----------------------------------------------------------------------------
(* The inductive invariant.  OneExecutor, AttemptLedger and RetryBound are *)
(* not inductive: they rely on what a claim that has loaded its row knows. *)

\* Nobody executes j, its attempts so far have failed, its budget is not used
\* up: a claim that loaded the current attempt_count may go ahead.
Free(j) ==
    /\ jobs[j].status \in Pending \cup {"cancelled"}
    /\ jobs[j].attempt_count <= jobs[j].max_retries
    /\ jobs[j].attempt_count > 0 => LastAttempt(j) = "failed"
    /\ \A w \in Worker : job[w] = j => pc[w] \notin Executing

PendingFree == \A j \in DOMAIN jobs : jobs[j].status \in Pending => Free(j)

\* A claim whose row is out of date has an attempt_count below the current one,
\* so that its attempt number is taken.
ClaimFree(w, j) ==
    /\ seen[w].status \in Pending
    /\ seen[w].max_retries = jobs[j].max_retries
    /\ seen[w].attempt_count <= jobs[j].attempt_count
    /\ seen[w].attempt_count = jobs[j].attempt_count => Free(j)

ClaimsFree == \A w \in Worker, j \in DOMAIN jobs : pc[w] = "claiming" /\ job[w] = j => ClaimFree(w, j)

\* While an attempt's outcome is recorded nobody changes the columns it is
\* recorded under.
OutcomesFresh ==
    \A w \in Worker : pc[w] \in {"succeeding", "failing"} =>
        /\ seen[w].attempt_count = jobs[job[w]].attempt_count
        /\ seen[w].max_retries = jobs[job[w]].max_retries

CancelsPending ==
    \A c \in Canceller : cancelling[c] # None => cancelling[c].row.status \in Pending

IInv == /\ OneExecutor
        /\ AttemptLedger
        /\ RetryBound
        /\ PendingFree
        /\ ClaimsFree
        /\ OutcomesFresh
        /\ CancelsPending

LEMMA InitIInv == Init => IInv
<1> SUFFICES ASSUME Init PROVE IInv
  OBVIOUS
<1>1. DOMAIN jobs = {} /\ DOMAIN attempts = {}
  BY EmptyTable DEF Init
<1>2. QED
  BY <1>1 DEF Init, IInv, OneExecutor, AttemptLedger, RetryBound, PendingFree, ClaimsFree,
              OutcomesFresh, CancelsPending

\* What the session of worker v may do while the tables do not change.
MovesOn(v) ==
    \/ UNCHANGED <<pc[v], job[v], seen[v]>>
    \/ pc'[v] \notin Executing \cup {"claiming"}
    \/ /\ pc[v] \in Executing /\ pc'[v] \in Executing /\ job'[v] = job[v]
       /\ seen'[v] = jobs[job[v]]
    \/ /\ pc'[v] = "claiming" /\ job'[v] \in DOMAIN jobs /\ seen'[v] = jobs[job'[v]]
       /\ jobs[job'[v]].status \in Pending

\* Steps that write neither jobs nor job_attempts.
LEMMA SessionStep ==
    ASSUME TypeOK, IInv, UNCHANGED <<jobs, attempts>>,
           \A v \in Worker : MovesOn(v),
           \A c \in Canceller : \/ cancelling'[c] = cancelling[c]
                                \/ cancelling'[c] # None => cancelling'[c].row.status \in Pending
    PROVE  IInv'
<1>1. \A v \in Worker : pc'[v] \in Executing => pc[v] \in Executing /\ job'[v] = job[v]
  BY DEF MovesOn, Executing
<1>2. OneExecutor'
  BY <1>1 DEF IInv, OneExecutor, ExecutorsOf
<1>3. AttemptLedger' /\ RetryBound'
  BY DEF IInv, AttemptLedger, RetryBound
<1>4. \A j : Free(j) => Free(j)'
  BY <1>1 DEF Free, LastAttempt
<1>5. PendingFree'
  BY <1>4 DEF IInv, PendingFree
<1>6. ClaimsFree'
  <2> SUFFICES ASSUME NEW v \in Worker, NEW j \in DOMAIN jobs, pc'[v] = "claiming", job'[v] = j
               PROVE  ClaimFree(v, j)'
    BY DEF ClaimsFree
  <2>1. CASE UNCHANGED <<pc[v], job[v], seen[v]>>
    BY <1>4, <2>1 DEF IInv, ClaimsFree, ClaimFree
  <2>2. CASE seen'[v] = jobs[j] /\ jobs[j].status \in Pending
    <3>1. jobs[j].attempt_count \in Nat
      BY RowColumns DEF TypeOK, TablesTypeOK
    <3>2. Free(j)
      BY <2>2 DEF IInv, PendingFree
    <3>3. QED
      BY <1>4, <2>2, <3>1, <3>2 DEF ClaimFree
  <2>3. QED
    BY <2>1, <2>2 DEF MovesOn, Executing
<1>7. OutcomesFresh'
  BY DEF IInv, OutcomesFresh, MovesOn, Executing
<1>8. CancelsPending'
  BY DEF IInv, CancelsPending
<1>9. QED
  BY <1>2, <1>3, <1>5, <1>6, <1>7, <1>8 DEF IInv

\* The INSERT of a new job, by a client or by a worker that leaves process_job.
LEMMA InsertStep ==
    ASSUME TypeOK, IInv, NEW k \in JobId \ DOMAIN jobs, NEW row \in Row,
           row.status = "queued", row.attempt_count = 0,
           jobs' = Store(jobs, k, row), UNCHANGED <<attempts, cancelling>>,
           \A v \in Worker : \/ UNCHANGED <<pc[v], job[v], seen[v]>>
                             \/ pc'[v] \notin Executing \cup {"claiming"}
    PROVE  IInv'
<1>1. /\ DOMAIN jobs' = DOMAIN jobs \cup {k}
      /\ jobs'[k] = row
      /\ \A j \in DOMAIN jobs : j # k /\ jobs'[j] = jobs[j]
  BY DEF Store
<1>2. row.max_retries \in Nat
  BY RowColumns
<1>3. \A v \in Worker : pc'[v] \in Executing \cup {"claiming"} =>
         UNCHANGED <<pc[v], job[v], seen[v]>> /\ job[v] \in DOMAIN jobs
  BY DEF TypeOK, WorkersTypeOK, Executing
<1>4. OneExecutor'
  BY <1>3 DEF IInv, OneExecutor, ExecutorsOf
<1>5. AttemptLedger'
  BY <1>1 DEF IInv, AttemptLedger
<1>6. RetryBound'
  BY <1>1, <1>2 DEF IInv, RetryBound
<1>7. \A j \in DOMAIN jobs : Free(j) => Free(j)'
  BY <1>1, <1>3 DEF Free, LastAttempt
<1>8. Free(k)'
  BY <1>1, <1>2, <1>3 DEF Free, Pending
<1>9. PendingFree'
  BY <1>1, <1>7, <1>8 DEF IInv, PendingFree
<1>10. ClaimsFree'
  <2> SUFFICES ASSUME NEW v \in Worker, NEW j \in DOMAIN jobs', pc'[v] = "claiming", job'[v] = j
               PROVE  ClaimFree(v, j)'
    BY DEF ClaimsFree
  <2>1. j \in DOMAIN jobs /\ UNCHANGED <<pc[v], job[v], seen[v]>>
    BY <1>3
  <2>2. QED
    BY <1>1, <1>7, <2>1 DEF IInv, ClaimsFree, ClaimFree
<1>11. OutcomesFresh'
  BY <1>1, <1>3 DEF IInv, OutcomesFresh, Executing
<1>12. CancelsPending'
  BY DEF IInv, CancelsPending
<1>13. QED
  BY <1>4, <1>5, <1>6, <1>9, <1>10, <1>11, <1>12 DEF IInv

\* The commit of an attempt's outcome by the worker w that executes job j.
LEMMA OutcomeStep ==
    ASSUME TypeOK, IInv, NEW w \in Worker, NEW j \in DOMAIN jobs, NEW row \in Row,
           NEW status \in AttemptStatus, NEW stage \in PC \ {"claiming", "succeeding", "failing"},
           pc[w] \in Executing, job[w] = j,
           row.attempt_count = jobs[j].attempt_count,
           row.max_retries = jobs[j].max_retries,
           seen[w].attempt_count = jobs[j].attempt_count,
           row.status \in Pending =>
               /\ row.attempt_count <= row.max_retries
               /\ status = "failed"
               /\ stage \notin Executing,
           jobs' = [jobs EXCEPT ![j] = row],
           attempts' = FinishAttempt(j, seen[w], status),
           Goto(w, stage, None), UNCHANGED <<job, cancelling>>
    PROVE  IInv'
<1> DEFINE count == jobs[j].attempt_count
<1>1. /\ DOMAIN jobs' = DOMAIN jobs
      /\ jobs'[j] = row
      /\ \A i \in DOMAIN jobs : i # j => jobs'[i] = jobs[i]
      /\ \A i \in DOMAIN jobs : /\ jobs'[i].attempt_count = jobs[i].attempt_count
                                /\ jobs'[i].max_retries = jobs[i].max_retries
  BY DEF TypeOK, TablesTypeOK
<1>2. /\ DOMAIN attempts' = DOMAIN attempts
      /\ \A key \in DOMAIN attempts : key # <<j, count>> => attempts'[key] = attempts[key]
      /\ <<j, count>> \in DOMAIN attempts => attempts'[<<j, count>>] = status
  BY DEF FinishAttempt, TypeOK, TablesTypeOK
<1>3. /\ pc'[w] = stage
      /\ \A v \in Worker : v # w => pc'[v] = pc[v] /\ seen'[v] = seen[v]
  BY DEF Goto, TypeOK, WorkersTypeOK
<1>4. \A v \in Worker : v # w /\ job[v] = j => pc[v] \notin Executing
  BY DEF IInv, OneExecutor, ExecutorsOf
<1>5. count \in Nat
  BY RowColumns DEF TypeOK, TablesTypeOK
<1>6. OneExecutor'
  BY <1>1, <1>3 DEF IInv, OneExecutor, ExecutorsOf
<1>7. AttemptLedger'
  <2>1. \A key \in DOMAIN attempts : key[2] < jobs'[key[1]].attempt_count => attempts'[key] = "failed"
    BY <1>1, <1>2, <1>5 DEF IInv, AttemptLedger
  <2>2. QED
    BY <1>1, <1>2, <2>1 DEF IInv, AttemptLedger
<1>8. RetryBound'
  BY <1>1 DEF IInv, RetryBound
<1>9. \A i \in DOMAIN jobs : Free(i) => i # j /\ Free(i)'
  <2> SUFFICES ASSUME NEW i \in DOMAIN jobs, Free(i) PROVE i # j /\ Free(i)'
    OBVIOUS
  <2>1. i # j
    BY DEF Free
  <2>2. jobs[i].attempt_count > 0 => <<i, jobs[i].attempt_count>> \in DOMAIN attempts
    BY RowColumns DEF IInv, AttemptLedger, TypeOK, TablesTypeOK
  <2>3. jobs[i].attempt_count > 0 => LastAttempt(i)' = LastAttempt(i)
    BY <1>1, <1>2, <2>1, <2>2 DEF LastAttempt
  <2>4. QED
    BY <1>1, <1>3, <2>1, <2>3 DEF Free
<1>10. PendingFree'
  <2> SUFFICES ASSUME row.status \in Pending PROVE Free(j)'
    BY <1>1, <1>9 DEF IInv, PendingFree
  <2>1. count > 0 => <<j, count>> \in DOMAIN attempts
    BY <1>5 DEF IInv, AttemptLedger
  <2>2. LastAttempt(j)' = attempts'[<<j, count>>]
    BY <1>1 DEF LastAttempt
  <2>3. QED
    BY <1>1, <1>2, <1>3, <1>4, <2>1, <2>2 DEF Free
<1>11. ClaimsFree'
  BY <1>1, <1>3, <1>9 DEF IInv, ClaimsFree, ClaimFree
<1>12. OutcomesFresh'
  BY <1>1, <1>3 DEF IInv, OutcomesFresh, TypeOK, WorkersTypeOK
<1>13. CancelsPending'
  BY DEF IInv, CancelsPending
<1>14. QED
  BY <1>6, <1>7, <1>8, <1>10, <1>11, <1>12, <1>13 DEF IInv

\* The commit of a claim whose attempt number is not taken.
LEMMA ClaimStep ==
    ASSUME TypeOK, IInv, NEW w \in Worker, ClaimCommit(w), NEW j, j = job[w],
           AttemptKeyFree(<<j, Claimed(seen[w]).attempt_count>>)
    PROVE  IInv'
<1> DEFINE count == jobs[j].attempt_count
           key == <<j, count + 1>>
           row == Flush(jobs[j], seen[w], Claimed(seen[w]))
<1>1. /\ j \in DOMAIN jobs /\ jobs[j] \in Row /\ seen[w] \in Row
      /\ count \in Nat /\ seen[w].attempt_count \in Nat
  BY RowColumns DEF ClaimCommit, TypeOK, TablesTypeOK, WorkersTypeOK, Loaded
<1>2. pc[w] = "claiming" /\ ClaimFree(w, j)
  BY <1>1 DEF ClaimCommit, IInv, ClaimsFree
\* The number of a stale claim is taken, so this claim is not stale.
<1>3. seen[w].attempt_count = count
  <2>1. <<j, seen[w].attempt_count + 1>> \notin DOMAIN attempts
    BY <1>1, ClaimedColumns DEF AttemptKeyFree
  <2>2. seen[w].attempt_count + 1 \notin 1 .. count
    BY <1>1, <2>1 DEF IInv, AttemptLedger
  <2>3. QED
    BY <1>1, <1>2, <2>2 DEF ClaimFree
<1>4. Free(j)
  BY <1>2, <1>3 DEF ClaimFree
<1>5. /\ row \in Row
      /\ row.status = "running"
      /\ row.attempt_count = count + 1
      /\ row.max_retries = jobs[j].max_retries
  <2>1. seen[w].status # "running" /\ count + 1 # count
    BY <1>1, <1>2 DEF ClaimFree, Pending
  <2>2. QED
    BY <1>1, <1>3, <2>1, ClaimedColumns, FlushColumns
<1> HIDE DEF row
<1>6. /\ jobs' = [jobs EXCEPT ![j] = row]
      /\ attempts' = Store(attempts, key, "running")
      /\ Goto(w, "running", None)
      /\ UNCHANGED <<job, cancelling>>
  BY <1>1, <1>3, ClaimedColumns DEF ClaimCommit, AttemptKeyFree, api, row
<1>7. /\ DOMAIN jobs' = DOMAIN jobs
      /\ jobs'[j] = row
      /\ \A i \in DOMAIN jobs : i # j => jobs'[i] = jobs[i]
  BY <1>1, <1>6 DEF TypeOK, TablesTypeOK
<1>8. /\ DOMAIN attempts' = DOMAIN attempts \cup {key}
      /\ \A k \in DOMAIN attempts : k # key => attempts'[k] = attempts[k]
  BY <1>6 DEF Store
<1>9. /\ pc'[w] = "running"
      /\ \A v \in Worker : v # w => pc'[v] = pc[v] /\ seen'[v] = seen[v]
  BY <1>6 DEF Goto, TypeOK, WorkersTypeOK
<1>10. OneExecutor'
  BY <1>1, <1>4, <1>6, <1>7, <1>9 DEF Free, IInv, OneExecutor, ExecutorsOf
<1>11. AttemptLedger'
  <2>1. ASSUME NEW i \in DOMAIN jobs, NEW n \in 1 .. jobs'[i].attempt_count
        PROVE  <<i, n>> \in DOMAIN attempts'
    BY <1>1, <1>5, <1>7, <1>8, <2>1 DEF IInv, AttemptLedger
  <2>2. ASSUME NEW k \in DOMAIN attempts'
        PROVE  k[1] \in DOMAIN jobs /\ k[2] \in 1 .. jobs'[k[1]].attempt_count
    BY <1>1, <1>5, <1>7, <1>8, <2>2 DEF IInv, AttemptLedger
  <2>3. ASSUME NEW k \in DOMAIN attempts', k[2] < jobs'[k[1]].attempt_count
        PROVE  attempts'[k] = "failed"
    <3>1. k # key /\ k \in DOMAIN attempts
      BY <1>5, <1>7, <1>8, <1>1, <2>3
    <3>2. CASE k[1] = j /\ k[2] = count
      <4>1. k = <<j, count>>
        BY <3>1, <3>2 DEF TypeOK, TablesTypeOK
      <4>2. count > 0
        BY <3>1, <3>2 DEF IInv, AttemptLedger
      <4>3. QED
        BY <1>4, <1>8, <3>1, <4>1, <4>2 DEF Free, LastAttempt
    <3>3. CASE ~(k[1] = j /\ k[2] = count)
      <4>1. k[1] \in DOMAIN jobs /\ k[2] \in Nat
        BY <3>1 DEF TypeOK, TablesTypeOK, IInv, AttemptLedger
      <4>2. k[2] < jobs[k[1]].attempt_count
        BY <1>1, <1>5, <1>7, <2>3, <3>3, <4>1
      <4>3. QED
        BY <1>8, <3>1, <4>2 DEF IInv, AttemptLedger
    <3>4. QED
      BY <3>2, <3>3
  <2>4. QED
    BY <1>7, <2>1, <2>2, <2>3 DEF AttemptLedger
<1>12. RetryBound'
  <2>1. row.attempt_count <= row.max_retries + 1
    BY <1>1, <1>4, <1>5, RowColumns DEF Free
  <2>2. QED
    BY <1>7, <2>1 DEF IInv, RetryBound
<1>13. \A i \in DOMAIN jobs : i # j /\ Free(i) => Free(i)'
  <2> SUFFICES ASSUME NEW i \in DOMAIN jobs, i # j, Free(i) PROVE Free(i)'
    OBVIOUS
  <2>1. jobs[i].attempt_count > 0 => <<i, jobs[i].attempt_count>> \in DOMAIN attempts
    BY RowColumns DEF IInv, AttemptLedger, TypeOK, TablesTypeOK
  <2>2. jobs[i].attempt_count > 0 => LastAttempt(i)' = LastAttempt(i)
    BY <1>7, <1>8, <2>1 DEF LastAttempt
  <2>3. QED
    BY <1>6, <1>7, <1>9, <2>2 DEF Free
<1>14. PendingFree'
  BY <1>5, <1>7, <1>13 DEF IInv, PendingFree, Pending
<1>15. ClaimsFree'
  <2> SUFFICES ASSUME NEW v \in Worker, NEW i \in DOMAIN jobs, pc[v] = "claiming", v # w, job[v] = i
               PROVE  ClaimFree(v, i)'
    BY <1>6, <1>7, <1>9 DEF ClaimsFree
  <2>1. ClaimFree(v, i) /\ seen[v].attempt_count \in Nat /\ seen'[v] = seen[v]
    BY <1>9, RowColumns DEF IInv, ClaimsFree, TypeOK, WorkersTypeOK, Loaded
  <2>2. CASE i = j
    BY <1>1, <1>5, <1>7, <2>1, <2>2 DEF ClaimFree
  <2>3. CASE i # j
    BY <1>7, <1>13, <2>1, <2>3 DEF ClaimFree
  <2>4. QED
    BY <2>2, <2>3
<1>16. OutcomesFresh'
  \* Nobody records an outcome of j, which nobody executes.
  BY <1>4, <1>6, <1>7, <1>9 DEF Free, Executing, IInv, OutcomesFresh, TypeOK, WorkersTypeOK
<1>17. CancelsPending'
  BY <1>6 DEF IInv, CancelsPending
<1>18. QED
  BY <1>10, <1>11, <1>12, <1>14, <1>15, <1>16, <1>17 DEF IInv

\* The commit of a cancellation, however old the row it was decided on.
LEMMA CancelStep ==
    ASSUME TypeOK, IInv, NEW c \in Canceller, CancelCommit(c)
    PROVE  IInv'
<1> DEFINE j == cancelling[c].job
           loaded == cancelling[c].row
           row == Flush(jobs[j], loaded, Cancelled(loaded))
<1>1. /\ j \in DOMAIN jobs /\ loaded \in Row /\ jobs[j] \in Row
      /\ loaded.status \in Pending
  BY DEF CancelCommit, TypeOK, TablesTypeOK, ApiTypeOK, CancelRequest, IInv, CancelsPending
<1>2. /\ row \in Row
      /\ row.status = "cancelled"
      /\ row.attempt_count = jobs[j].attempt_count
      /\ row.max_retries = jobs[j].max_retries
  <2>1. loaded.status # "cancelled"
    BY <1>1 DEF Pending
  <2>2. QED
    BY <1>1, <2>1, CancelledColumns, FlushColumns
<1>3. /\ jobs' = [jobs EXCEPT ![j] = row]
      /\ cancelling' = [cancelling EXCEPT ![c] = None]
      /\ UNCHANGED <<attempts, pc, job, seen>>
  BY DEF CancelCommit, workers
<1> HIDE DEF row, j
<1>4. /\ DOMAIN jobs' = DOMAIN jobs
      /\ jobs'[j] = row
      /\ \A i \in DOMAIN jobs : i # j => jobs'[i] = jobs[i]
  BY <1>1, <1>3 DEF TypeOK, TablesTypeOK
<1>5. \A i \in DOMAIN jobs : Free(i) => Free(i)'
  BY <1>2, <1>3, <1>4 DEF Free, LastAttempt
<1>6. OneExecutor'
  BY <1>3, <1>4 DEF IInv, OneExecutor, ExecutorsOf
<1>7. AttemptLedger' /\ RetryBound'
  BY <1>2, <1>3, <1>4 DEF IInv, AttemptLedger, RetryBound
<1>8. PendingFree'
  BY <1>2, <1>4, <1>5 DEF IInv, PendingFree, Pending
<1>9. ClaimsFree'
  BY <1>2, <1>3, <1>4, <1>5 DEF IInv, ClaimsFree, ClaimFree
<1>10. OutcomesFresh'
  BY <1>2, <1>3, <1>4 DEF IInv, OutcomesFresh
<1>11. CancelsPending'
  BY <1>3 DEF IInv, CancelsPending, TypeOK, ApiTypeOK
<1>12. QED
  BY <1>6, <1>7, <1>8, <1>9, <1>10, <1>11 DEF IInv

\* Every operation, committed or interrupted, keeps IInv.
LEMMA NextIInv == TypeOK /\ IInv /\ [Next]_vars => IInv'
<1> SUFFICES ASSUME TypeOK, IInv, [Next]_vars PROVE IInv'
  OBVIOUS
<1> USE ConstantsAssumption
<1>1. ASSUME NEW j \in JobId, NEW retries \in RetryLimit, NEW cron \in CronKind,
             NEW delayed \in BOOLEAN, CreateJob(j, retries, cron, delayed)
      PROVE  IInv'
  BY <1>1, NewRowColumns, InsertStep DEF CreateJob, workers, api
<1>2. ASSUME NEW j \in JobId, BecomeDue(j) PROVE IInv'
  BY <1>2, SessionStep DEF BecomeDue, workers, api, MovesOn
<1>3. ASSUME NEW w \in Worker, NEW j \in JobId, ClaimCheckDrain(w, j) PROVE IInv'
  BY <1>3, SessionStep
     DEF ClaimCheckDrain, tables, api, MovesOn, TypeOK, WorkersTypeOK, Executing
<1>4. ASSUME NEW w \in Worker, ClaimLoad(w) PROVE IInv'
  <2>1. job[w] \in DOMAIN jobs
    BY <1>4 DEF ClaimLoad, TypeOK, WorkersTypeOK
  <2>2. \A v \in Worker : MovesOn(v)
    BY <1>4, <2>1
       DEF ClaimLoad, Claimable, Leave, Goto, MovesOn, TypeOK, WorkersTypeOK, Executing
  <2>3. QED
    BY <1>4, <2>2, SessionStep DEF ClaimLoad, tables, api
<1>5. ASSUME NEW w \in Worker, ClaimCommit(w) PROVE IInv'
  <2>1. CASE AttemptKeyFree(<<job[w], Claimed(seen[w]).attempt_count>>)
    BY <1>5, <2>1, ClaimStep
  <2>2. CASE ~AttemptKeyFree(<<job[w], Claimed(seen[w]).attempt_count>>)
    <3>1. Leave(w) /\ UNCHANGED <<jobs, attempts, cancelling>>
      BY <1>5, <2>2 DEF ClaimCommit, tables, api
    <3>2. QED
      BY <3>1, SessionStep DEF Leave, Goto, MovesOn, TypeOK, WorkersTypeOK, Executing
  <2>3. QED
    BY <2>1, <2>2
<1>6. ASSUME NEW w \in Worker, MarkSucceededLoad(w) PROVE IInv'
  <2>1. \A v \in Worker : MovesOn(v)
    BY <1>6 DEF MarkSucceededLoad, Goto, MovesOn, TypeOK, WorkersTypeOK, Executing
  <2>2. QED
    BY <1>6, <2>1, SessionStep DEF MarkSucceededLoad, tables, api
<1>7. ASSUME NEW w \in Worker, MarkSucceededCommit(w) PROVE IInv'
  <2> DEFINE j == job[w]
             row == Flush(jobs[j], seen[w], Succeeded(seen[w]))
  <2>1. /\ j \in DOMAIN jobs /\ jobs[j] \in Row /\ seen[w] \in Row
        /\ pc[w] \in Executing
        /\ seen[w].attempt_count = jobs[j].attempt_count
    BY <1>7 DEF MarkSucceededCommit, TypeOK, TablesTypeOK, WorkersTypeOK, Loaded, Executing,
                IInv, OutcomesFresh
  <2>2. jobs[j].status \notin Pending
    BY <2>1 DEF IInv, PendingFree, Free
  <2>3. /\ row \in Row
        /\ row.status \notin Pending
        /\ row.attempt_count = jobs[j].attempt_count
        /\ row.max_retries = jobs[j].max_retries
    BY <2>1, <2>2, SucceededColumns, FlushColumns DEF Pending
  <2> HIDE DEF row
  <2>4. /\ jobs' = [jobs EXCEPT ![j] = row]
        /\ attempts' = FinishAttempt(j, seen[w], "succeeded")
        /\ Goto(w, "recurring", None)
        /\ UNCHANGED <<job, cancelling>>
    BY <1>7 DEF MarkSucceededCommit, api, row
  <2>5. "succeeded" \in AttemptStatus /\ "recurring" \in PC \ {"claiming", "succeeding", "failing"}
    BY DEF AttemptStatus, PC, Executing
  <2> HIDE DEF j
  <2>6. QED
    BY <2>1, <2>3, <2>4, <2>5, OutcomeStep DEF j
<1>8. ASSUME NEW w \in Worker, CreateNextRecurring(w) PROVE IInv'
  <2> DEFINE j == job[w]
  <2>1. j \in DOMAIN jobs /\ jobs[j] \in Row
    BY <1>8 DEF CreateNextRecurring, TypeOK, TablesTypeOK, WorkersTypeOK
  <2>2. /\ UNCHANGED <<attempts, cancelling>>
        /\ pc'[w] = "idle"
        /\ \A v \in Worker : v # w => UNCHANGED <<pc[v], job[v], seen[v]>>
    BY <1>8 DEF CreateNextRecurring, Leave, Goto, api, TypeOK, WorkersTypeOK
  <2>3. CASE UNCHANGED jobs
    BY <2>2, <2>3, SessionStep DEF MovesOn, Executing
  <2>4. ASSUME NEW k \in JobId \ DOMAIN jobs, NEW cron \in CronKind,
               jobs' = Store(jobs, k, NewRow(jobs[j].max_retries, cron))
        PROVE  IInv'
    BY <2>1, <2>2, <2>4, RowColumns, NewRowColumns, InsertStep DEF Executing
  <2>5. QED
    BY <1>8, <2>3, <2>4 DEF CreateNextRecurring
<1>9. ASSUME NEW w \in Worker, MarkFailedLoad(w) PROVE IInv'
  <2>1. \A v \in Worker : MovesOn(v)
    BY <1>9 DEF MarkFailedLoad, Goto, MovesOn, TypeOK, WorkersTypeOK, Executing
  <2>2. QED
    BY <1>9, <2>1, SessionStep DEF MarkFailedLoad, tables, api
<1>10. ASSUME NEW w \in Worker, MarkFailedCommit(w) PROVE IInv'
  <2> DEFINE j == job[w]
             row == Flush(jobs[j], seen[w], FailedAttempt(seen[w]))
  <2>1. /\ j \in DOMAIN jobs /\ jobs[j] \in Row /\ seen[w] \in Row
        /\ pc[w] \in Executing
        /\ seen[w].attempt_count = jobs[j].attempt_count
        /\ seen[w].max_retries = jobs[j].max_retries
    BY <1>10 DEF MarkFailedCommit, TypeOK, TablesTypeOK, WorkersTypeOK, Loaded, Executing,
                 IInv, OutcomesFresh
  <2>2. jobs[j].status \notin Pending
    BY <2>1 DEF IInv, PendingFree, Free
  <2>3. /\ row \in Row
        /\ row.attempt_count = jobs[j].attempt_count
        /\ row.max_retries = jobs[j].max_retries
    BY <2>1, FailedAttemptColumns, FlushColumns
  <2>4. row.status \in Pending => row.attempt_count <= row.max_retries
    <3>1. row.status \in Pending => ~Exhausted(seen[w])
      BY <2>1, <2>2, FailedAttemptColumns, FlushColumns DEF Pending
    <3>2. QED
      BY <2>1, <2>3, <3>1, RowColumns DEF Exhausted
  <2> HIDE DEF row
  <2>5. /\ jobs' = [jobs EXCEPT ![j] = row]
        /\ attempts' = FinishAttempt(j, seen[w], "failed")
        /\ Goto(w, "failed", None)
        /\ UNCHANGED <<job, cancelling>>
    BY <1>10 DEF MarkFailedCommit, api, row
  <2>6. /\ "failed" \in AttemptStatus
        /\ "failed" \in PC \ {"claiming", "succeeding", "failing"}
        /\ "failed" \notin Executing
    BY DEF AttemptStatus, PC, Executing
  <2> HIDE DEF j
  <2>7. QED
    BY <2>1, <2>3, <2>4, <2>5, <2>6, OutcomeStep DEF j
<1>11. ASSUME NEW w \in Worker, MarkFailedRefresh(w) PROVE IInv'
  <2>1. \A v \in Worker : MovesOn(v)
    BY <1>11 DEF MarkFailedRefresh, Leave, Goto, MovesOn, TypeOK, WorkersTypeOK, Executing
  <2>2. QED
    BY <1>11, <2>1, SessionStep DEF MarkFailedRefresh, tables, api
<1>12. ASSUME NEW w \in Worker, PublishDeadLetter(w) \/ Crash(w) PROVE IInv'
  <2>1. \A v \in Worker : MovesOn(v)
    BY <1>12
       DEF PublishDeadLetter, Crash, Leave, Goto, MovesOn, TypeOK, WorkersTypeOK, Executing
  <2>2. QED
    BY <1>12, <2>1, SessionStep DEF PublishDeadLetter, Crash, tables, api
<1>13. ASSUME NEW c \in Canceller, NEW j \in JobId, CancelLoad(c, j) PROVE IInv'
  <2>1. \A d \in Canceller : \/ cancelling'[d] = cancelling[d]
                             \/ cancelling'[d] # None => cancelling'[d].row.status \in Pending
    BY <1>13 DEF CancelLoad, TypeOK, ApiTypeOK
  <2>2. QED
    BY <1>13, <2>1, SessionStep DEF CancelLoad, tables, workers, MovesOn
<1>14. ASSUME NEW c \in Canceller, CancelCommit(c) PROVE IInv'
  BY <1>14, CancelStep
<1>15. ASSUME NEW o \in Operator,
              SetDrainCommit(o) \/ \E enabled \in BOOLEAN : SetDrainLoad(o, enabled)
       PROVE  IInv'
  BY <1>15, SessionStep DEF SetDrainLoad, SetDrainCommit, tables, workers, MovesOn
<1>16. CASE UNCHANGED vars
  BY <1>16, SessionStep DEF vars, tables, workers, api, MovesOn
<1>17. QED
  BY <1>1, <1>2, <1>3, <1>4, <1>5, <1>6, <1>7, <1>8, <1>9, <1>10, <1>11, <1>12, <1>13,
     <1>14, <1>15, <1>16 DEF Next, ProcessJob

LEMMA InductiveInvariant == Spec => []IInv
<1>1. QED
  BY TypeCorrect, InitIInv, NextIInv, PTL DEF Spec

-----------------------------------------------------------------------------
(* What the unique key of job_attempts guarantees.                         *)

\* Two workers never execute attempts of one job at the same time, although
\* claim_job takes no lock and its UPDATE has no condition.
THEOREM MutualExclusion == Spec => []OneExecutor
<1>1. IInv => OneExecutor
  BY DEF IInv
<1>2. QED
  BY <1>1, InductiveInvariant, PTL

\* job_attempts is the exact history of attempt_count.
THEOREM LedgerIsExact == Spec => []AttemptLedger
<1>1. IInv => AttemptLedger
  BY DEF IInv
<1>2. QED
  BY <1>1, InductiveInvariant, PTL

\* No job is attempted more than max_retries + 1 times.
THEOREM RetriesAreBounded == Spec => []RetryBound
<1>1. IInv => RetryBound
  BY DEF IInv
<1>2. QED
  BY <1>1, InductiveInvariant, PTL

-----------------------------------------------------------------------------
(* The life of a job: its inductive invariant.                             *)

\* While an attempt is executed its row changes by cancellations only.
Attempted == {"running", "cancelled"}

\* A job is as a client asked for it; only requests cancel; a recurrence
\* descends from a job that exists.
JobOK(j) ==
    /\ jobs[j].max_retries \in RetryLimit /\ jobs[j].cron \in CronKind
    /\ chain[j] \in DOMAIN jobs
    /\ jobs[j].status = "succeeded" => jobs[j].attempt_count > 0
    /\ jobs[j].status = "cancelled" => jobs[j].processed /\ Canceller # {}

JobsOK == \A j \in DOMAIN jobs : JobOK(j)

\* A session that records an outcome has loaded the row as it is, except that
\* it may have been cancelled since.
Current(row, loaded) ==
    /\ loaded.attempt_count = row.attempt_count /\ loaded.max_retries = row.max_retries
    /\ loaded.cron = row.cron /\ loaded.locked = row.locked /\ loaded.result = row.result
    /\ loaded.processed => row.processed

\* What the stage of a worker says of the job it executes.
ExecutionOK(w) ==
    LET j == job[w]
    IN  /\ pc[w] \in Executing => jobs[j].attempt_count > 0
        /\ pc[w] \in {"running", "succeeding"} => jobs[j].status \in Attempted
        /\ pc[w] = "recurring" =>
              jobs[j].status \in {"succeeded", "cancelled"} /\ LastAttempt(j) = "succeeded"
        /\ pc[w] = "failing" =>
              jobs[j].status \in Attempted \/ (jobs[j].status = "succeeded" /\ jobs[j].cron = "impossible")
        /\ pc[w] = "succeeding" => Current(jobs[j], seen[w]) /\ seen[w].status \in Attempted
        /\ pc[w] = "failing" => Current(jobs[j], seen[w]) /\ seen[w].status \in Attempted \cup {"succeeded"}

ExecutionsOK == \A w \in Worker : ExecutionOK(w)

\* processed_at is never cleared.
CancelsOK ==
    \A c \in Canceller :
        cancelling[c] # None /\ cancelling[c].row.processed => jobs[cancelling[c].job].processed

LifeInv == JobsOK /\ OutcomeRecorded /\ ExecutionsOK /\ CancelsOK

\* A job that has used its budget and is not executed stays what it is.
Buried(j) ==
    /\ jobs[j].attempt_count = jobs[j].max_retries + 1
    /\ LastAttempt(j) = "failed"
    /\ jobs[j].status \in {"dead_lettered", "cancelled"}
    /\ ExecutorsOf(j) = {}

DeadInv ==
    /\ \A j \in JobId : dead_letters[j] > 0 => j \in DOMAIN jobs /\ Buried(j)
    /\ \A w \in Worker : pc[w] = "dead_letter" => Buried(job[w])

\* Of the jobs of a chain at most one can still be executed, a cancelled one
\* that a stale claim may yet start included.
Open(j) == Live(j) \/ Free(j)
OneOpen == \A j, k \in DOMAIN jobs : chain[j] = chain[k] /\ Open(j) /\ Open(k) => j = k

-----------------------------------------------------------------------------
(* What the commits make of a row.                                         *)

\* Nothing is written but the row of j and attempts of j.
Rewrites(j) ==
    /\ DOMAIN jobs' = DOMAIN jobs
    /\ \A i \in DOMAIN jobs : i # j => jobs'[i] = jobs[i]
    /\ \A key \in DOMAIN attempts :
          key[1] # j => key \in DOMAIN attempts' /\ attempts'[key] = attempts[key]
    /\ chain' = chain /\ dead_letters' = dead_letters

\* The other workers stay where they are.
Moves(w) == \A v \in Worker \ {w} : UNCHANGED <<pc[v], job[v], seen[v]>>

\* The last attempt of a job that was attempted is in the table.
LEMMA LastExists ==
    ASSUME TypeOK, IInv, NEW j \in DOMAIN jobs, jobs[j].attempt_count > 0
    PROVE  <<j, jobs[j].attempt_count>> \in DOMAIN attempts
<1>1. jobs[j].attempt_count \in 1 .. jobs[j].attempt_count
  BY RowColumns DEF TypeOK, TablesTypeOK
<1>2. QED
  BY <1>1 DEF IInv, AttemptLedger

LEMMA LastKept ==
    ASSUME TypeOK, IInv, NEW j, Rewrites(j), NEW i \in DOMAIN jobs, i # j,
           jobs[i].attempt_count > 0
    PROVE  jobs'[i] = jobs[i] /\ LastAttempt(i)' = LastAttempt(i)
  BY LastExists DEF Rewrites, LastAttempt

LEMMA FinishedAttempt ==
    ASSUME NEW j, NEW row, NEW status, attempts' = FinishAttempt(j, row, status),
           <<j, row.attempt_count>> \in DOMAIN attempts
    PROVE  /\ DOMAIN attempts' = DOMAIN attempts
           /\ attempts'[<<j, row.attempt_count>>] = status
           /\ \A key \in DOMAIN attempts : key[1] # j => attempts'[key] = attempts[key]
  BY DEF FinishAttempt

LEMMA SuccessRow ==
    ASSUME TypeOK, IInv, LifeInv, NEW w \in Worker, NEW j, j = job[w], MarkSucceededCommit(w)
    PROVE  /\ j \in DOMAIN jobs /\ pc[w] = "succeeding" /\ jobs[j].attempt_count > 0
           /\ Rewrites(j) /\ Moves(w) /\ pc'[w] = "recurring" /\ UNCHANGED <<job, cancelling>>
           /\ jobs'[j] \in Row
           /\ jobs'[j].status = "succeeded"
           /\ jobs'[j].attempt_count = jobs[j].attempt_count
           /\ jobs'[j].max_retries = jobs[j].max_retries
           /\ jobs'[j].cron = jobs[j].cron
           /\ jobs'[j].result = TRUE /\ jobs'[j].locked = FALSE /\ jobs'[j].processed = TRUE
           /\ LastAttempt(j)' = "succeeded"
<1> DEFINE loaded == seen[w]
           row == Flush(jobs[j], loaded, Succeeded(loaded))
<1>1. /\ pc[w] = "succeeding" /\ pc[w] \in Executing
      /\ j \in DOMAIN jobs /\ jobs[j] \in Row /\ loaded \in Row
  BY DEF MarkSucceededCommit, TypeOK, TablesTypeOK, WorkersTypeOK, Loaded, Executing
<1>2. jobs[j].attempt_count > 0 /\ Current(jobs[j], loaded) /\ loaded.status \in Attempted
  BY <1>1 DEF LifeInv, ExecutionsOK, ExecutionOK
<1>3. /\ row \in Row
      /\ row.status = "succeeded"
      /\ row.attempt_count = jobs[j].attempt_count
      /\ row.max_retries = jobs[j].max_retries
  BY <1>1, <1>2, SucceededColumns, FlushColumns DEF Attempted
<1>4. /\ row.cron = jobs[j].cron
      /\ row.result = TRUE /\ row.locked = FALSE /\ row.processed = TRUE
  <2> DEFINE new == Succeeded(loaded)
  <2>1. /\ new \in Row /\ new.cron = loaded.cron
        /\ new.result = TRUE /\ new.locked = FALSE /\ new.processed = TRUE
    BY <1>1, SucceededColumns, SucceededFlags
  <2>2. /\ loaded.cron = jobs[j].cron /\ loaded.locked = jobs[j].locked
        /\ loaded.result = jobs[j].result
        /\ loaded.processed => jobs[j].processed
    BY <1>2 DEF Current
  <2>3. /\ loaded.locked \in BOOLEAN /\ loaded.result \in BOOLEAN /\ loaded.processed \in BOOLEAN
        /\ jobs[j].processed \in BOOLEAN
    BY <1>1, Flags
  <2> HIDE DEF new
  <2>4. row.cron = jobs[j].cron
    BY <1>1, <2>1, <2>2, FlushFlags DEF new
  <2>5. row.result = TRUE
    BY <1>1, <2>1, <2>2, <2>3, FlushFlags DEF new
  <2>6. row.locked = FALSE
    BY <1>1, <2>1, <2>2, <2>3, FlushFlags DEF new
  <2>7. row.processed = TRUE
    BY <1>1, <2>1, <2>2, <2>3, FlushFlags DEF new
  <2>8. QED
    BY <2>4, <2>5, <2>6, <2>7
<1>5. /\ jobs' = [jobs EXCEPT ![j] = row]
      /\ attempts' = FinishAttempt(j, loaded, "succeeded")
      /\ Goto(w, "recurring", None)
      /\ UNCHANGED <<chain, job, cancelling, dead_letters>>
  BY DEF MarkSucceededCommit, api
<1> HIDE DEF row
<1>6. /\ DOMAIN jobs' = DOMAIN jobs /\ jobs'[j] = row
      /\ \A i \in DOMAIN jobs : i # j => jobs'[i] = jobs[i]
  BY <1>1, <1>5 DEF TypeOK, TablesTypeOK
<1>7. /\ DOMAIN attempts' = DOMAIN attempts
      /\ attempts'[<<j, jobs[j].attempt_count>>] = "succeeded"
      /\ \A key \in DOMAIN attempts : key[1] # j => attempts'[key] = attempts[key]
  BY <1>1, <1>2, <1>5, LastExists, FinishedAttempt DEF Current
<1>8. Moves(w) /\ pc'[w] = "recurring"
  BY <1>5 DEF Moves, Goto, TypeOK, WorkersTypeOK
<1>9. LastAttempt(j)' = "succeeded"
  BY <1>3, <1>6, <1>7 DEF LastAttempt
<1>10. QED
  BY <1>1, <1>2, <1>3, <1>4, <1>5, <1>6, <1>7, <1>8, <1>9 DEF Rewrites

LEMMA FailureRow ==
    ASSUME TypeOK, IInv, LifeInv, NEW w \in Worker, NEW j, j = job[w], MarkFailedCommit(w)
    PROVE  /\ j \in DOMAIN jobs /\ pc[w] = "failing" /\ jobs[j].attempt_count > 0
           /\ Rewrites(j) /\ Moves(w) /\ pc'[w] = "failed" /\ UNCHANGED <<job, cancelling>>
           /\ jobs'[j] \in Row
           /\ jobs'[j].status = IF Exhausted(jobs[j]) THEN "dead_lettered" ELSE "failed"
           /\ jobs'[j].attempt_count = jobs[j].attempt_count
           /\ jobs'[j].max_retries = jobs[j].max_retries
           /\ jobs'[j].cron = jobs[j].cron
           /\ jobs'[j].locked = FALSE
           /\ jobs'[j].processed = (jobs[j].processed \/ Exhausted(jobs[j]))
           /\ LastAttempt(j)' = "failed"
<1> DEFINE loaded == seen[w]
           row == Flush(jobs[j], loaded, FailedAttempt(loaded))
<1>1. /\ pc[w] = "failing" /\ pc[w] \in Executing
      /\ j \in DOMAIN jobs /\ jobs[j] \in Row /\ loaded \in Row
  BY DEF MarkFailedCommit, TypeOK, TablesTypeOK, WorkersTypeOK, Loaded, Executing
<1>2. /\ jobs[j].attempt_count > 0 /\ Current(jobs[j], loaded)
      /\ loaded.status \in Attempted \cup {"succeeded"}
  BY <1>1 DEF LifeInv, ExecutionsOK, ExecutionOK
<1>3. Exhausted(loaded) <=> Exhausted(jobs[j])
  BY <1>2 DEF Exhausted, Current
<1>4. /\ row \in Row
      /\ row.status = IF Exhausted(jobs[j]) THEN "dead_lettered" ELSE "failed"
      /\ row.attempt_count = jobs[j].attempt_count
      /\ row.max_retries = jobs[j].max_retries
  BY <1>1, <1>2, <1>3, FailedAttemptColumns, FlushColumns DEF Attempted
<1>5. /\ row.cron = jobs[j].cron
      /\ row.locked = FALSE
      /\ row.processed = (jobs[j].processed \/ Exhausted(jobs[j]))
  <2> DEFINE new == FailedAttempt(loaded)
  <2>1. /\ new \in Row /\ new.cron = loaded.cron
        /\ new.locked = FALSE
        /\ new.processed = (loaded.processed \/ Exhausted(loaded))
    BY <1>1, FailedAttemptColumns, FailedFlags
  <2>2. /\ loaded.cron = jobs[j].cron /\ loaded.locked = jobs[j].locked
        /\ loaded.processed => jobs[j].processed
    BY <1>2 DEF Current
  <2>3. /\ loaded.locked \in BOOLEAN /\ loaded.processed \in BOOLEAN
        /\ new.processed \in BOOLEAN /\ jobs[j].processed \in BOOLEAN
    BY <1>1, <2>1, Flags
  <2> HIDE DEF new
  <2>4. row.cron = jobs[j].cron
    BY <1>1, <2>1, <2>2, FlushFlags DEF new
  <2>5. row.locked = FALSE
    BY <1>1, <2>1, <2>2, <2>3, FlushFlags DEF new
  <2>6. row.processed = (jobs[j].processed \/ Exhausted(jobs[j]))
    <3>1. row.processed = IF new.processed # loaded.processed THEN new.processed
                          ELSE jobs[j].processed
      BY <1>1, <2>1, FlushFlags DEF new
    <3>2. Exhausted(loaded) \in BOOLEAN /\ Exhausted(jobs[j]) \in BOOLEAN
      BY DEF Exhausted
    <3> HIDE DEF row
    <3>3. QED
      BY <1>3, <2>1, <2>2, <2>3, <3>1, <3>2
  <2>7. QED
    BY <2>4, <2>5, <2>6
<1>6. /\ jobs' = [jobs EXCEPT ![j] = row]
      /\ attempts' = FinishAttempt(j, loaded, "failed")
      /\ Goto(w, "failed", None)
      /\ UNCHANGED <<chain, job, cancelling, dead_letters>>
  BY DEF MarkFailedCommit, api
<1> HIDE DEF row
<1>7. /\ DOMAIN jobs' = DOMAIN jobs /\ jobs'[j] = row
      /\ \A i \in DOMAIN jobs : i # j => jobs'[i] = jobs[i]
  BY <1>1, <1>6 DEF TypeOK, TablesTypeOK
<1>8. /\ DOMAIN attempts' = DOMAIN attempts
      /\ attempts'[<<j, jobs[j].attempt_count>>] = "failed"
      /\ \A key \in DOMAIN attempts : key[1] # j => attempts'[key] = attempts[key]
  BY <1>1, <1>2, <1>6, LastExists, FinishedAttempt DEF Current
<1>9. Moves(w) /\ pc'[w] = "failed"
  BY <1>6 DEF Moves, Goto, TypeOK, WorkersTypeOK
<1>10. LastAttempt(j)' = "failed"
  BY <1>4, <1>7, <1>8 DEF LastAttempt
<1>11. QED
  BY <1>1, <1>2, <1>4, <1>5, <1>6, <1>7, <1>8, <1>9, <1>10 DEF Rewrites

\* A claim that goes through has loaded the current attempt_count of a job that
\* nobody executes: the number of a stale claim is taken.
LEMMA ClaimRow ==
    ASSUME TypeOK, IInv, NEW w \in Worker, NEW j, j = job[w], ClaimCommit(w),
           AttemptKeyFree(<<j, Claimed(seen[w]).attempt_count>>)
    PROVE  /\ j \in DOMAIN jobs /\ pc[w] = "claiming" /\ Free(j)
           /\ Rewrites(j) /\ Moves(w) /\ pc'[w] = "running" /\ UNCHANGED <<job, cancelling>>
           /\ jobs'[j] \in Row
           /\ jobs'[j].status = "running"
           /\ jobs'[j].attempt_count = jobs[j].attempt_count + 1
           /\ jobs'[j].max_retries = jobs[j].max_retries
           /\ jobs'[j].cron = jobs[j].cron
           /\ jobs'[j].processed = jobs[j].processed
<1> DEFINE loaded == seen[w]
           count == jobs[j].attempt_count
           row == Flush(jobs[j], loaded, Claimed(loaded))
<1>1. /\ pc[w] = "claiming" /\ j \in DOMAIN jobs /\ jobs[j] \in Row /\ loaded \in Row
      /\ count \in Nat /\ loaded.attempt_count \in Nat
  BY RowColumns DEF ClaimCommit, TypeOK, TablesTypeOK, WorkersTypeOK, Loaded
<1>2. ClaimFree(w, j)
  BY <1>1 DEF IInv, ClaimsFree
<1>3. loaded.attempt_count = count
  <2>1. <<j, loaded.attempt_count + 1>> \notin DOMAIN attempts
    BY <1>1, ClaimedColumns DEF AttemptKeyFree
  <2>2. loaded.attempt_count + 1 \notin 1 .. count
    BY <1>1, <2>1 DEF IInv, AttemptLedger
  <2>3. QED
    BY <1>1, <1>2, <2>2 DEF ClaimFree
<1>4. Free(j) /\ loaded.status # "running"
  BY <1>2, <1>3 DEF ClaimFree, Pending
<1>5. /\ row \in Row
      /\ row.status = "running"
      /\ row.attempt_count = count + 1
      /\ row.max_retries = jobs[j].max_retries
  <2>1. count + 1 # count
    BY <1>1
  <2>2. QED
    BY <1>1, <1>3, <1>4, <2>1, ClaimedColumns, FlushColumns
<1>6. row.cron = jobs[j].cron /\ row.processed = jobs[j].processed
  <2>1. Claimed(loaded) \in Row /\ Claimed(loaded).cron = loaded.cron
        /\ Claimed(loaded).processed = loaded.processed
    BY <1>1, ClaimedColumns, ClaimedFlags
  <2>2. row.cron = jobs[j].cron
    BY <1>1, <2>1, FlushFlags
  <2>3. row.processed = jobs[j].processed
    BY <1>1, <2>1, FlushFlags
  <2>4. QED
    BY <2>2, <2>3
<1>7. /\ jobs' = [jobs EXCEPT ![j] = row]
      /\ attempts' = Store(attempts, <<j, Claimed(loaded).attempt_count>>, "running")
      /\ Goto(w, "running", None)
      /\ UNCHANGED <<chain, job, cancelling, dead_letters>>
  BY DEF ClaimCommit, api
<1> HIDE DEF row
<1>8. /\ DOMAIN jobs' = DOMAIN jobs /\ jobs'[j] = row
      /\ \A i \in DOMAIN jobs : i # j => jobs'[i] = jobs[i]
  BY <1>1, <1>7 DEF TypeOK, TablesTypeOK
<1>9. \A key \in DOMAIN attempts :
          key[1] # j => key \in DOMAIN attempts' /\ attempts'[key] = attempts[key]
  BY <1>7 DEF Store
<1>10. Moves(w) /\ pc'[w] = "running"
  BY <1>7 DEF Moves, Goto, TypeOK, WorkersTypeOK
<1>11. QED
  BY <1>1, <1>4, <1>5, <1>6, <1>7, <1>8, <1>9, <1>10 DEF Rewrites

\* A cancellation changes status and processed_at only, however old the row it
\* was decided on.
LEMMA CancelRow ==
    ASSUME TypeOK, IInv, CancelsOK, NEW c \in Canceller, NEW j, j = cancelling[c].job,
           CancelCommit(c)
    PROVE  /\ j \in DOMAIN jobs
           /\ Rewrites(j) /\ UNCHANGED <<attempts, workers>>
           /\ cancelling' = [cancelling EXCEPT ![c] = None]
           /\ jobs'[j] = [jobs[j] EXCEPT !.status = "cancelled", !.processed = TRUE]
<1> DEFINE loaded == cancelling[c].row
           new == Cancelled(loaded)
           row == Flush(jobs[j], loaded, new)
<1>1. /\ j \in DOMAIN jobs /\ loaded \in Row /\ jobs[j] \in Row
      /\ loaded.status \in Pending
  BY DEF CancelCommit, TypeOK, TablesTypeOK, ApiTypeOK, CancelRequest, IInv, CancelsPending
<1>2. loaded.processed => jobs[j].processed
  BY DEF CancelsOK, CancelCommit
<1>3. new = [loaded EXCEPT !.status = "cancelled", !.processed = TRUE]
  BY DEF Cancelled
<1>4. row = [jobs[j] EXCEPT !.status = "cancelled", !.processed = TRUE]
  <2>1. loaded.status # "cancelled"
    BY <1>1 DEF Pending
  <2> HIDE DEF new, loaded
  <2>2. QED
    BY <1>1, <1>2, <1>3, <2>1 DEF Flush, Row
<1>5. /\ jobs' = [jobs EXCEPT ![j] = row]
      /\ cancelling' = [cancelling EXCEPT ![c] = None]
      /\ UNCHANGED <<attempts, chain, workers, dead_letters>>
  BY DEF CancelCommit
<1> HIDE DEF row
<1>6. /\ DOMAIN jobs' = DOMAIN jobs /\ jobs'[j] = row
      /\ \A i \in DOMAIN jobs : i # j => jobs'[i] = jobs[i]
  BY <1>1, <1>5 DEF TypeOK, TablesTypeOK
<1>7. QED
  BY <1>1, <1>4, <1>5, <1>6 DEF Rewrites

-----------------------------------------------------------------------------
(* LifeInv is inductive.                                                   *)

LEMMA InitLife == Init => LifeInv
<1> SUFFICES ASSUME Init PROVE LifeInv
  OBVIOUS
<1>1. DOMAIN jobs = {} /\ (\A w \in Worker : pc[w] = "idle") /\ (\A c \in Canceller : cancelling[c] = None)
  BY EmptyTable DEF Init
<1>2. QED
  BY <1>1 DEF LifeInv, JobsOK, OutcomeRecorded, ExecutionsOK, ExecutionOK, Executing, CancelsOK

\* What OutcomeRecorded says of one job.
Recorded(j) ==
    /\ jobs[j].status = "succeeded" =>
          jobs[j].result /\ ~jobs[j].locked /\ LastAttempt(j) = "succeeded"
    /\ jobs[j].status = "dead_lettered" =>
          Exhausted(jobs[j]) /\ ~jobs[j].locked /\ LastAttempt(j) = "failed"

LEMMA RewriteKeepsJobs ==
    ASSUME TypeOK, IInv, LifeInv, NEW j \in DOMAIN jobs, Rewrites(j), JobOK(j)', Recorded(j)'
    PROVE  JobsOK' /\ OutcomeRecorded'
<1>1. JobsOK'
  BY DEF Rewrites, LifeInv, JobsOK, JobOK
<1>2. ASSUME NEW i \in DOMAIN jobs, i # j PROVE Recorded(i)'
  <2>1. jobs'[i] = jobs[i] /\ Recorded(i) /\ JobOK(i)
    BY <1>2 DEF Rewrites, LifeInv, OutcomeRecorded, Recorded, JobsOK
  <2>2. jobs[i].status \in {"succeeded", "dead_lettered"} => jobs[i].attempt_count > 0
    BY <2>1, RowColumns DEF JobOK, Recorded, Exhausted, TypeOK, TablesTypeOK
  <2>3. QED
    BY <1>2, <2>1, <2>2, LastKept DEF Recorded
<1>3. OutcomeRecorded'
  BY <1>2 DEF OutcomeRecorded, Recorded, Rewrites
<1>4. QED
  BY <1>1, <1>3

\* A commit about j concerns no worker that executes another job.
LEMMA OthersKeepStage ==
    ASSUME TypeOK, IInv, LifeInv, NEW w \in Worker, NEW j, Rewrites(j), Moves(w),
           NEW v \in Worker, v # w, pc[v] \in Executing => job[v] # j
    PROVE  ExecutionOK(v)'
<1>1. pc'[v] = pc[v] /\ job'[v] = job[v] /\ seen'[v] = seen[v] /\ ExecutionOK(v)
  BY DEF Moves, LifeInv, ExecutionsOK
<1>2. CASE pc[v] \notin Executing
  BY <1>1, <1>2 DEF ExecutionOK, Executing
<1>3. CASE pc[v] \in Executing
  <2>1. job[v] \in DOMAIN jobs /\ job[v] # j /\ jobs[job[v]].attempt_count > 0
    BY <1>1, <1>3 DEF ExecutionOK, TypeOK, WorkersTypeOK, Executing
  <2>2. PICK i \in DOMAIN jobs : i = job[v]
    BY <2>1
  <2>3. jobs'[i] = jobs[i] /\ LastAttempt(i)' = LastAttempt(i) /\ i = job'[v]
    BY <1>1, <2>1, <2>2, LastKept
  <2>4. LastAttempt(job[v])' = LastAttempt(job[v])
    BY <1>1, <2>2, <2>3 DEF LastAttempt
  <2>5. QED
    BY <1>1, <2>2, <2>3, <2>4 DEF ExecutionOK
<1>4. QED
  BY <1>2, <1>3

LEMMA CancelsKept ==
    ASSUME TypeOK, CancelsOK, UNCHANGED cancelling, DOMAIN jobs' = DOMAIN jobs,
           \A i \in DOMAIN jobs : jobs[i].processed => jobs'[i].processed
    PROVE  CancelsOK'
  BY DEF CancelsOK, TypeOK, ApiTypeOK

\* Steps that write neither jobs nor job_attempts.
LEMMA SessionLife ==
    ASSUME TypeOK, LifeInv, UNCHANGED <<jobs, attempts, chain>>,
           \A v \in Worker : ExecutionOK(v)' \/ UNCHANGED <<pc[v], job[v], seen[v]>>,
           \A c \in Canceller :
              \/ cancelling'[c] = cancelling[c] \/ cancelling'[c] = None
              \/ cancelling'[c].row = jobs[cancelling'[c].job]
    PROVE  LifeInv'
<1>1. JobsOK' /\ OutcomeRecorded'
  BY DEF LifeInv, JobsOK, JobOK, OutcomeRecorded, LastAttempt
<1>2. ExecutionsOK'
  <2> SUFFICES ASSUME NEW v \in Worker, UNCHANGED <<pc[v], job[v], seen[v]>> PROVE ExecutionOK(v)'
    BY DEF ExecutionsOK
  <2>1. ExecutionOK(v) /\ LastAttempt(job[v])' = LastAttempt(job[v])
    BY DEF LifeInv, ExecutionsOK, LastAttempt
  <2>2. QED
    BY <2>1 DEF ExecutionOK
<1>3. CancelsOK'
  BY DEF LifeInv, CancelsOK
<1>4. QED
  BY <1>1, <1>2, <1>3 DEF LifeInv

\* A new job, by a client or by a worker that leaves process_job.
LEMMA InsertLife ==
    ASSUME TypeOK, IInv, LifeInv, NEW k \in JobId \ DOMAIN jobs, NEW retries \in RetryLimit,
           NEW cron \in CronKind, NEW root \in DOMAIN jobs \cup {k},
           jobs' = Store(jobs, k, NewRow(retries, cron)), chain' = Store(chain, k, root),
           UNCHANGED <<attempts, cancelling>>,
           \A v \in Worker : UNCHANGED <<pc[v], job[v], seen[v]>> \/ pc'[v] \notin Executing
    PROVE  LifeInv'
<1> USE ConstantsAssumption
<1>1. /\ DOMAIN jobs' = DOMAIN jobs \cup {k}
      /\ jobs'[k] = NewRow(retries, cron) /\ chain'[k] = root
      /\ \A j \in DOMAIN jobs : j # k /\ jobs'[j] = jobs[j] /\ chain'[j] = chain[j]
  BY DEF Store, TypeOK, TablesTypeOK
<1>2. /\ jobs'[k].status = "queued"
      /\ jobs'[k].max_retries = retries /\ jobs'[k].cron = cron
  <2>1. jobs'[k].status = "queued" /\ jobs'[k].max_retries = retries
    BY <1>1, NewRowColumns
  <2>2. jobs'[k].cron = cron
    BY <1>1 DEF NewRow
  <2>3. QED
    BY <2>1, <2>2
<1>3. JobsOK'
  <2>1. JobOK(k)'
    BY <1>1, <1>2 DEF JobOK
  <2>2. \A j \in DOMAIN jobs : JobOK(j)'
    BY <1>1 DEF LifeInv, JobsOK, JobOK
  <2>3. QED
    BY <1>1, <2>1, <2>2 DEF JobsOK
<1>4. OutcomeRecorded'
  <2>1. \A j \in DOMAIN jobs : Recorded(j)'
    BY <1>1 DEF LifeInv, OutcomeRecorded, Recorded, LastAttempt
  <2>2. QED
    BY <1>1, <1>2, <2>1 DEF OutcomeRecorded, Recorded
<1>5. ExecutionsOK'
  <2> SUFFICES ASSUME NEW v \in Worker PROVE ExecutionOK(v)'
    BY DEF ExecutionsOK
  <2>1. CASE pc'[v] \notin Executing
    BY <2>1 DEF ExecutionOK, Executing
  <2>2. CASE pc'[v] \in Executing /\ UNCHANGED <<pc[v], job[v], seen[v]>>
    <3>1. ExecutionOK(v) /\ job[v] \in DOMAIN jobs
      BY <2>2 DEF LifeInv, ExecutionsOK, TypeOK, WorkersTypeOK, Executing
    <3>2. jobs'[job'[v]] = jobs[job[v]] /\ LastAttempt(job[v])' = LastAttempt(job[v])
      BY <1>1, <2>2, <3>1 DEF LastAttempt
    <3>3. QED
      BY <2>2, <3>1, <3>2 DEF ExecutionOK
  <2>3. QED
    BY <2>1, <2>2
<1>6. CancelsOK'
  BY <1>1 DEF LifeInv, CancelsOK, TypeOK, ApiTypeOK
<1>7. QED
  BY <1>3, <1>4, <1>5, <1>6 DEF LifeInv

LEMMA ClaimLife ==
    ASSUME TypeOK, IInv, LifeInv, NEW w \in Worker, NEW j, j = job[w], ClaimCommit(w),
           AttemptKeyFree(<<j, Claimed(seen[w]).attempt_count>>)
    PROVE  LifeInv'
<1>1. /\ j \in DOMAIN jobs /\ Free(j)
      /\ Rewrites(j) /\ Moves(w) /\ pc'[w] = "running" /\ UNCHANGED <<job, cancelling>>
      /\ jobs'[j].status = "running"
      /\ jobs'[j].attempt_count = jobs[j].attempt_count + 1
      /\ jobs'[j].max_retries = jobs[j].max_retries
      /\ jobs'[j].cron = jobs[j].cron /\ jobs'[j].processed = jobs[j].processed
  BY ClaimRow
<1>2. jobs[j].attempt_count \in Nat
  BY <1>1, RowColumns DEF TypeOK, TablesTypeOK
<1>3. JobOK(j)' /\ Recorded(j)'
  BY <1>1 DEF LifeInv, JobsOK, JobOK, Recorded, Rewrites
<1>4. JobsOK' /\ OutcomeRecorded'
  BY <1>1, <1>3, RewriteKeepsJobs
<1>5. \A v \in Worker : v # w => ExecutionOK(v)'
  BY <1>1, OthersKeepStage DEF Free
<1>6. ExecutionOK(w)'
  BY <1>1, <1>2 DEF ExecutionOK, Attempted
<1>7. CancelsOK'
  BY <1>1, CancelsKept DEF LifeInv, Rewrites
<1>8. QED
  BY <1>4, <1>5, <1>6, <1>7 DEF LifeInv, ExecutionsOK

\* While w executes a job nobody else does.
LEMMA ExecutesAlone ==
    ASSUME IInv, NEW w \in Worker, pc[w] \in Executing, job[w] \in DOMAIN jobs,
           NEW v \in Worker, v # w, pc[v] \in Executing
    PROVE  job[v] # job[w]
  BY DEF IInv, OneExecutor, ExecutorsOf

LEMMA SuccessLife ==
    ASSUME TypeOK, IInv, LifeInv, NEW w \in Worker, NEW j, j = job[w], MarkSucceededCommit(w)
    PROVE  LifeInv'
<1>1. /\ j \in DOMAIN jobs /\ pc[w] = "succeeding" /\ jobs[j].attempt_count > 0
      /\ Rewrites(j) /\ Moves(w) /\ pc'[w] = "recurring" /\ UNCHANGED <<job, cancelling>>
      /\ jobs'[j].status = "succeeded"
      /\ jobs'[j].attempt_count = jobs[j].attempt_count
      /\ jobs'[j].max_retries = jobs[j].max_retries /\ jobs'[j].cron = jobs[j].cron
      /\ jobs'[j].result = TRUE /\ jobs'[j].locked = FALSE /\ jobs'[j].processed = TRUE
      /\ LastAttempt(j)' = "succeeded"
  BY SuccessRow
<1>2. JobOK(j)' /\ Recorded(j)'
  BY <1>1 DEF LifeInv, JobsOK, JobOK, Recorded, Rewrites
<1>3. JobsOK' /\ OutcomeRecorded'
  BY <1>1, <1>2, RewriteKeepsJobs
<1>4. \A v \in Worker : v # w => ExecutionOK(v)'
  BY <1>1, OthersKeepStage, ExecutesAlone DEF Executing
<1>5. ExecutionOK(w)'
  <2>1. job'[w] = j /\ LastAttempt(job[w])' = "succeeded"
    BY <1>1 DEF LastAttempt
  <2>2. QED
    BY <1>1, <2>1 DEF ExecutionOK
<1>6. CancelsOK'
  BY <1>1, CancelsKept DEF LifeInv, Rewrites
<1>7. QED
  BY <1>3, <1>4, <1>5, <1>6 DEF LifeInv, ExecutionsOK

LEMMA FailureLife ==
    ASSUME TypeOK, IInv, LifeInv, NEW w \in Worker, NEW j, j = job[w], MarkFailedCommit(w)
    PROVE  LifeInv'
<1>1. /\ j \in DOMAIN jobs /\ pc[w] = "failing" /\ jobs[j].attempt_count > 0
      /\ Rewrites(j) /\ Moves(w) /\ pc'[w] = "failed" /\ UNCHANGED <<job, cancelling>>
      /\ jobs'[j].status = IF Exhausted(jobs[j]) THEN "dead_lettered" ELSE "failed"
      /\ jobs'[j].attempt_count = jobs[j].attempt_count
      /\ jobs'[j].max_retries = jobs[j].max_retries /\ jobs'[j].cron = jobs[j].cron
      /\ jobs'[j].locked = FALSE
      /\ jobs[j].processed => jobs'[j].processed
      /\ LastAttempt(j)' = "failed"
  BY FailureRow
<1>2. JobOK(j)' /\ Recorded(j)'
  <2>1. Exhausted(jobs'[j]) <=> Exhausted(jobs[j])
    BY <1>1 DEF Exhausted
  <2>2. QED
    BY <1>1, <2>1 DEF LifeInv, JobsOK, JobOK, Recorded, Rewrites
<1>3. JobsOK' /\ OutcomeRecorded'
  BY <1>1, <1>2, RewriteKeepsJobs
<1>4. \A v \in Worker : v # w => ExecutionOK(v)'
  BY <1>1, OthersKeepStage, ExecutesAlone DEF Executing
<1>5. ExecutionOK(w)'
  BY <1>1 DEF ExecutionOK, Executing
<1>6. CancelsOK'
  BY <1>1, CancelsKept DEF LifeInv, Rewrites
<1>7. QED
  BY <1>3, <1>4, <1>5, <1>6 DEF LifeInv, ExecutionsOK

LEMMA CancelLife ==
    ASSUME TypeOK, IInv, LifeInv, NEW c \in Canceller, NEW j, j = cancelling[c].job,
           CancelCommit(c)
    PROVE  LifeInv'
<1>1. /\ j \in DOMAIN jobs
      /\ Rewrites(j) /\ UNCHANGED <<attempts, workers>>
      /\ cancelling' = [cancelling EXCEPT ![c] = None]
      /\ jobs'[j] = [jobs[j] EXCEPT !.status = "cancelled", !.processed = TRUE]
  BY CancelRow DEF LifeInv
<1>2. jobs[j] \in Row
  BY <1>1 DEF TypeOK, TablesTypeOK
<1>3. /\ jobs'[j].status = "cancelled" /\ jobs'[j].processed = TRUE
      /\ jobs'[j].attempt_count = jobs[j].attempt_count
      /\ jobs'[j].max_retries = jobs[j].max_retries /\ jobs'[j].cron = jobs[j].cron
      /\ jobs'[j].locked = jobs[j].locked /\ jobs'[j].result = jobs[j].result
  BY <1>1, <1>2 DEF Row
<1>4. JobOK(j)' /\ Recorded(j)'
  BY <1>1, <1>3 DEF LifeInv, JobsOK, JobOK, Recorded, Rewrites
<1>5. JobsOK' /\ OutcomeRecorded'
  BY <1>1, <1>4, RewriteKeepsJobs
<1>6. ExecutionsOK'
  <2> SUFFICES ASSUME NEW v \in Worker PROVE ExecutionOK(v)'
    BY DEF ExecutionsOK
  <2>1. /\ pc'[v] = pc[v] /\ job'[v] = job[v] /\ seen'[v] = seen[v] /\ ExecutionOK(v)
    BY <1>1 DEF workers, LifeInv, ExecutionsOK
  <2>2. CASE pc[v] \notin Executing
    BY <2>1, <2>2 DEF ExecutionOK, Executing
  <2>3. CASE pc[v] \in Executing
    <3>1. job[v] \in DOMAIN jobs
      BY <2>3 DEF TypeOK, WorkersTypeOK, Executing
    <3>2. /\ jobs'[job[v]].status \in {jobs[job[v]].status, "cancelled"}
          /\ jobs'[job[v]].attempt_count = jobs[job[v]].attempt_count
          /\ jobs'[job[v]].max_retries = jobs[job[v]].max_retries
          /\ jobs'[job[v]].cron = jobs[job[v]].cron
          /\ jobs'[job[v]].locked = jobs[job[v]].locked
          /\ jobs'[job[v]].result = jobs[job[v]].result
          /\ jobs[job[v]].processed => jobs'[job[v]].processed
      BY <1>1, <1>3, <3>1 DEF Rewrites
    <3>3. LastAttempt(job[v])' = LastAttempt(job[v])
      BY <1>1, <2>1, <3>2 DEF LastAttempt
    <3>4. QED
      BY <2>1, <3>2, <3>3 DEF ExecutionOK, Current, Attempted
  <2>4. QED
    BY <2>2, <2>3
<1>7. CancelsOK'
  BY <1>1, <1>3 DEF LifeInv, CancelsOK, Rewrites, TypeOK, ApiTypeOK
<1>8. QED
  BY <1>5, <1>6, <1>7 DEF LifeInv

\* The other sessions of a step that is about w only.
LEMMA OneSession ==
    ASSUME TypeOK, NEW w \in Worker, NEW stage, NEW row,
           \/ Goto(w, stage, row) /\ UNCHANGED job
           \/ Leave(w)
    PROVE  Moves(w)
  BY DEF Moves, Leave, Goto, TypeOK, WorkersTypeOK

\* The rows that mark_succeeded and mark_failed_attempt load are current.
LEMMA LoadLife ==
    ASSUME TypeOK, LifeInv, NEW w \in Worker, MarkSucceededLoad(w) \/ MarkFailedLoad(w)
    PROVE  ExecutionOK(w)'
<1>1. /\ pc[w] \in {"running", "recurring"} /\ job[w] \in DOMAIN jobs /\ ExecutionOK(w)
      /\ UNCHANGED <<tables, job>> /\ seen'[w] = jobs[job[w]]
      /\ pc'[w] \in {"succeeding", "failing"}
      /\ pc'[w] = "succeeding" => pc[w] = "running"
      /\ pc[w] = "recurring" => jobs[job[w]].cron = "impossible"
  BY DEF MarkSucceededLoad, MarkFailedLoad, Goto, LifeInv, ExecutionsOK, TypeOK, WorkersTypeOK
<1>2. /\ jobs'[job'[w]] = jobs[job[w]] /\ LastAttempt(job[w])' = LastAttempt(job[w])
  BY <1>1 DEF tables, LastAttempt
<1>3. Current(jobs[job[w]], seen'[w])
  BY <1>1 DEF Current
<1>4. QED
  BY <1>1, <1>2, <1>3 DEF ExecutionOK, Executing, Attempted

\* Every operation, committed or interrupted, keeps LifeInv.
LEMMA NextLife == TypeOK /\ IInv /\ LifeInv /\ [Next]_vars => LifeInv'
<1> SUFFICES ASSUME TypeOK, IInv, LifeInv, [Next]_vars PROVE LifeInv'
  OBVIOUS
<1>1. ASSUME NEW j \in JobId, NEW retries \in RetryLimit, NEW cron \in CronKind,
             NEW delayed \in BOOLEAN, CreateJob(j, retries, cron, delayed)
      PROVE  LifeInv'
  BY <1>1, InsertLife DEF CreateJob, workers, api
<1>2. ASSUME NEW j \in JobId, BecomeDue(j) PROVE LifeInv'
  BY <1>2, SessionLife DEF BecomeDue, workers, api
<1>3. ASSUME UNCHANGED <<jobs, attempts, chain, cancelling>>, NEW w \in Worker, Moves(w), ExecutionOK(w)'
      PROVE  LifeInv'
  <2>1. \A v \in Worker : ExecutionOK(v)' \/ UNCHANGED <<pc[v], job[v], seen[v]>>
    BY <1>3 DEF Moves
  <2>2. QED
    BY <1>3, <2>1, SessionLife
<1>4. ASSUME NEW w \in Worker, NEW j \in JobId, ClaimCheckDrain(w, j) PROVE LifeInv'
  <2>1. Moves(w) /\ pc'[w] = "undrained"
    BY <1>4 DEF ClaimCheckDrain, Moves, TypeOK, WorkersTypeOK
  <2>2. QED
    BY <1>3, <1>4, <2>1 DEF ClaimCheckDrain, tables, api, ExecutionOK, Executing
<1>5. ASSUME NEW w \in Worker, Leave(w) PROVE Moves(w) /\ ExecutionOK(w)' /\ pc'[w] \notin Executing
  BY <1>5, OneSession DEF Leave, Goto, ExecutionOK, Executing, TypeOK, WorkersTypeOK
<1>6. ASSUME NEW w \in Worker, ClaimLoad(w) PROVE LifeInv'
  <2>1. Moves(w)
    BY <1>6, OneSession DEF ClaimLoad
  <2>2. pc'[w] \notin Executing
    BY <1>5, <1>6 DEF ClaimLoad, Goto, Executing, TypeOK, WorkersTypeOK
  <2>3. QED
    BY <1>3, <1>6, <2>1, <2>2 DEF ClaimLoad, tables, api, ExecutionOK, Executing
<1>7. ASSUME NEW w \in Worker, ClaimCommit(w) PROVE LifeInv'
  <2>1. CASE AttemptKeyFree(<<job[w], Claimed(seen[w]).attempt_count>>)
    BY <1>7, <2>1, ClaimLife
  <2>2. CASE ~AttemptKeyFree(<<job[w], Claimed(seen[w]).attempt_count>>)
    BY <1>3, <1>5, <1>7, <2>2 DEF ClaimCommit, tables, api
  <2>3. QED
    BY <2>1, <2>2
<1>8. ASSUME NEW w \in Worker, MarkSucceededLoad(w) \/ MarkFailedLoad(w) PROVE LifeInv'
  <2>1. Moves(w)
    BY <1>8, OneSession DEF MarkSucceededLoad, MarkFailedLoad
  <2>2. QED
    BY <1>3, <1>8, <2>1, LoadLife DEF MarkSucceededLoad, MarkFailedLoad, tables, api
<1>9. ASSUME NEW w \in Worker, MarkSucceededCommit(w) \/ MarkFailedCommit(w) PROVE LifeInv'
  BY <1>9, SuccessLife, FailureLife
<1>10. ASSUME NEW w \in Worker, CreateNextRecurring(w) PROVE LifeInv'
  <2>1. /\ job[w] \in DOMAIN jobs /\ Leave(w) /\ Moves(w) /\ ExecutionOK(w)' /\ pc'[w] \notin Executing
        /\ UNCHANGED <<attempts, cancelling>>
    BY <1>5, <1>10 DEF CreateNextRecurring, api, TypeOK, WorkersTypeOK
  <2>2. CASE UNCHANGED <<jobs, chain>>
    BY <1>3, <2>1, <2>2
  <2>3. ASSUME NEW k \in JobId \ DOMAIN jobs, NEW cron \in CronKind,
               jobs' = Store(jobs, k, NewRow(jobs[job[w]].max_retries, cron)),
               chain' = Store(chain, k, chain[job[w]])
        PROVE  LifeInv'
    <3>1. jobs[job[w]].max_retries \in RetryLimit /\ chain[job[w]] \in DOMAIN jobs
      BY <2>1 DEF LifeInv, JobsOK, JobOK
    <3>2. \A v \in Worker : UNCHANGED <<pc[v], job[v], seen[v]>> \/ pc'[v] \notin Executing
      BY <2>1 DEF Moves
    <3>3. QED
      BY <2>1, <2>3, <3>1, <3>2, InsertLife
  <2>4. QED
    BY <1>10, <2>2, <2>3 DEF CreateNextRecurring
<1>11. ASSUME NEW w \in Worker, MarkFailedRefresh(w) \/ PublishDeadLetter(w) \/ Crash(w)
       PROVE  LifeInv'
  <2>1. Moves(w)
    BY <1>11, OneSession DEF MarkFailedRefresh, PublishDeadLetter, Crash
  <2>2. pc'[w] \notin Executing
    BY <1>5, <1>11
       DEF MarkFailedRefresh, PublishDeadLetter, Crash, Goto, Executing, TypeOK, WorkersTypeOK
  <2>3. QED
    BY <1>3, <1>11, <2>1, <2>2
       DEF MarkFailedRefresh, PublishDeadLetter, Crash, tables, api, ExecutionOK, Executing
<1>12. ASSUME NEW c \in Canceller, NEW j \in JobId, CancelLoad(c, j) PROVE LifeInv'
  <2>1. \A d \in Canceller : \/ cancelling'[d] = cancelling[d]
                             \/ cancelling'[d].row = jobs[cancelling'[d].job]
    BY <1>12 DEF CancelLoad, TypeOK, ApiTypeOK
  <2>2. QED
    BY <1>12, <2>1, SessionLife DEF CancelLoad, tables, workers
<1>13. ASSUME NEW c \in Canceller, CancelCommit(c) PROVE LifeInv'
  BY <1>13, CancelLife
<1>14. ASSUME NEW o \in Operator,
              SetDrainCommit(o) \/ \E enabled \in BOOLEAN : SetDrainLoad(o, enabled)
       PROVE  LifeInv'
  BY <1>14, SessionLife DEF SetDrainLoad, SetDrainCommit, tables, workers
<1>15. CASE UNCHANGED vars
  BY <1>15, SessionLife DEF vars, tables, workers, api
<1>16. QED
  BY <1>1, <1>2, <1>4, <1>6, <1>7, <1>8, <1>9, <1>10, <1>11, <1>12, <1>13, <1>14, <1>15
     DEF Next, ProcessJob

LEMMA LifeInvariant == Spec => []LifeInv
<1>1. QED
  BY TypeCorrect, InductiveInvariant, InitLife, NextLife, PTL DEF Spec

\* A final status is backed by the result, the lock columns and the attempt
\* table, whatever cancellations and stale claims intervene.
THEOREM OutcomesAreRecorded == Spec => []OutcomeRecorded
<1>1. LifeInv => OutcomeRecorded
  BY DEF LifeInv
<1>2. QED
  BY <1>1, LifeInvariant, PTL

-----------------------------------------------------------------------------
(* The kinds of steps.                                                     *)

NoNewExecutor == \A v \in Worker : pc'[v] \in Executing => pc[v] \in Executing /\ job'[v] = job[v]

Quiet == UNCHANGED <<jobs, attempts, chain>> /\ NoNewExecutor

Inserts(k, root) ==
    /\ UNCHANGED <<attempts, dead_letters>> /\ NoNewExecutor
    /\ chain' = Store(chain, k, root)
    /\ \E retries \in Nat, cron \in Cron : jobs' = Store(jobs, k, NewRow(retries, cron))

Claims(w) == ClaimCommit(w) /\ AttemptKeyFree(<<job[w], Claimed(seen[w]).attempt_count>>)

\* A step writes no job, adds one, or is one of the four commits that update one.
LEMMA StepKinds ==
    ASSUME TypeOK, [Next]_vars
    PROVE  \/ Quiet
           \/ \E k \in JobId \ DOMAIN jobs : Inserts(k, k)
           \/ \E w \in Worker, k \in JobId \ DOMAIN jobs :
                 CreateNextRecurring(w) /\ Inserts(k, chain[job[w]])
           \/ \E w \in Worker : Claims(w) \/ MarkSucceededCommit(w) \/ MarkFailedCommit(w)
           \/ \E c \in Canceller : CancelCommit(c)
<1> USE ConstantsAssumption
<1>1. ASSUME NEW j \in JobId, NEW retries \in RetryLimit, NEW cron \in CronKind,
             NEW delayed \in BOOLEAN, CreateJob(j, retries, cron, delayed)
      PROVE  j \in JobId \ DOMAIN jobs /\ Inserts(j, j)
  BY <1>1 DEF CreateJob, Inserts, NoNewExecutor, workers
<1>2. ASSUME NEW w \in Worker, Leave(w) PROVE NoNewExecutor
  BY <1>2 DEF NoNewExecutor, Leave, Goto, Executing, TypeOK, WorkersTypeOK
<1>3. ASSUME NEW w \in Worker, NEW stage, NEW row, Goto(w, stage, row), UNCHANGED job,
             stage \in Executing => pc[w] \in Executing
      PROVE  NoNewExecutor
  BY <1>3 DEF NoNewExecutor, Goto, TypeOK, WorkersTypeOK
<1>4. ASSUME NEW w \in Worker, NEW j \in JobId, ClaimCheckDrain(w, j) PROVE Quiet
  BY <1>4 DEF ClaimCheckDrain, Quiet, NoNewExecutor, tables, Executing, TypeOK, WorkersTypeOK
<1>5. ASSUME NEW w \in Worker,
             \/ ClaimLoad(w) \/ MarkSucceededLoad(w) \/ MarkFailedLoad(w) \/ MarkFailedRefresh(w)
             \/ PublishDeadLetter(w) \/ Crash(w) \/ (ClaimCommit(w) /\ ~Claims(w))
      PROVE  Quiet
  <2>1. NoNewExecutor
    BY <1>2, <1>3, <1>5 DEF ClaimLoad, MarkSucceededLoad, MarkFailedLoad, MarkFailedRefresh,
                            PublishDeadLetter, Crash, ClaimCommit, Claims, Executing
  <2>2. UNCHANGED <<jobs, attempts, chain>>
    BY <1>5 DEF ClaimLoad, MarkSucceededLoad, MarkFailedLoad, MarkFailedRefresh,
                PublishDeadLetter, Crash, ClaimCommit, Claims, tables
  <2>3. QED
    BY <2>1, <2>2 DEF Quiet
<1>6. ASSUME NEW w \in Worker, CreateNextRecurring(w)
      PROVE  Quiet \/ \E k \in JobId \ DOMAIN jobs : Inserts(k, chain[job[w]])
  <2>1. NoNewExecutor /\ UNCHANGED <<attempts, dead_letters>>
    BY <1>2, <1>6 DEF CreateNextRecurring
  <2>2. CASE UNCHANGED <<jobs, chain>>
    BY <2>1, <2>2 DEF Quiet
  <2>3. ASSUME NEW k \in JobId \ DOMAIN jobs, NEW cron \in CronKind,
               jobs' = Store(jobs, k, NewRow(jobs[job[w]].max_retries, cron)),
               chain' = Store(chain, k, chain[job[w]])
        PROVE  Inserts(k, chain[job[w]])
    <3>1. jobs[job[w]].max_retries \in Nat
      BY <1>6, RowColumns DEF CreateNextRecurring, TypeOK, TablesTypeOK, WorkersTypeOK
    <3>2. QED
      BY <2>1, <2>3, <3>1 DEF Inserts
  <2>4. QED
    BY <1>6, <2>2, <2>3 DEF CreateNextRecurring
<1>7. ASSUME \/ \E j \in JobId : BecomeDue(j)
             \/ \E c \in Canceller, j \in JobId : CancelLoad(c, j)
             \/ \E o \in Operator :
                   SetDrainCommit(o) \/ \E enabled \in BOOLEAN : SetDrainLoad(o, enabled)
             \/ UNCHANGED vars
      PROVE  Quiet
  BY <1>7 DEF BecomeDue, CancelLoad, SetDrainCommit, SetDrainLoad, Quiet, NoNewExecutor, vars,
              tables, workers
<1>8. ASSUME NEW w \in Worker, ClaimCommit(w) PROVE Quiet \/ Claims(w)
  BY <1>5, <1>8
<1>9. QED
  BY <1>1, <1>4, <1>5, <1>6, <1>7, <1>8 DEF Next, ProcessJob

-----------------------------------------------------------------------------
(* Dead-letter events.                                                     *)

\* A job that has used its budget and is not executed stays as it is: a stale
\* claim of it finds its attempt number taken.
LEMMA BuriedKept ==
    ASSUME TypeOK, IInv, LifeInv, [Next]_vars, NEW j \in DOMAIN jobs, Buried(j)
    PROVE  j \in DOMAIN jobs' /\ Buried(j)'
<1>1. /\ jobs[j].max_retries \in Nat /\ jobs[j].attempt_count = jobs[j].max_retries + 1
      /\ jobs[j].attempt_count > 0
  BY RowColumns DEF Buried, TypeOK, TablesTypeOK
<1>2. CASE Quiet
  BY <1>2 DEF Quiet, NoNewExecutor, Buried, LastAttempt, ExecutorsOf
<1>3. ASSUME NEW k \in JobId \ DOMAIN jobs, NEW root, Inserts(k, root) PROVE j \in DOMAIN jobs' /\ Buried(j)'
  <2>1. j \in DOMAIN jobs' /\ jobs'[j] = jobs[j]
    BY <1>3 DEF Inserts, Store
  <2>2. QED
    BY <1>3, <2>1 DEF Inserts, NoNewExecutor, Buried, LastAttempt, ExecutorsOf
<1>4. ASSUME NEW w \in Worker, Claims(w) \/ MarkSucceededCommit(w) \/ MarkFailedCommit(w)
      PROVE  j \in DOMAIN jobs' /\ Buried(j)'
  <2>1. PICK i : i = job[w]
    OBVIOUS
  <2>2. i # j /\ Rewrites(i) /\ Moves(w) /\ UNCHANGED job
    <3>1. CASE Claims(w)
      BY <1>1, <2>1, <3>1, ClaimRow DEF Claims, Free
    <3>2. CASE MarkSucceededCommit(w)
      BY <2>1, <3>2, SuccessRow DEF Buried, ExecutorsOf, Executing
    <3>3. CASE MarkFailedCommit(w)
      BY <2>1, <3>3, FailureRow DEF Buried, ExecutorsOf, Executing
    <3>4. QED
      BY <1>4, <3>1, <3>2, <3>3
  <2>3. jobs'[j] = jobs[j] /\ LastAttempt(j)' = LastAttempt(j) /\ j \in DOMAIN jobs'
    BY <1>1, <2>2, LastKept DEF Rewrites
  <2>4. ExecutorsOf(j)' = {}
    BY <2>1, <2>2 DEF Buried, ExecutorsOf, Moves
  <2>5. QED
    BY <2>3, <2>4 DEF Buried
<1>5. ASSUME NEW c \in Canceller, CancelCommit(c) PROVE j \in DOMAIN jobs' /\ Buried(j)'
  <2>1. PICK i : i = cancelling[c].job
    OBVIOUS
  <2>2. /\ i \in DOMAIN jobs /\ Rewrites(i) /\ UNCHANGED <<attempts, workers>>
        /\ jobs'[i] = [jobs[i] EXCEPT !.status = "cancelled", !.processed = TRUE]
    BY <1>5, <2>1, CancelRow DEF LifeInv
  <2>3. /\ jobs'[j].attempt_count = jobs[j].attempt_count
        /\ jobs'[j].max_retries = jobs[j].max_retries
        /\ jobs'[j].status \in {jobs[j].status, "cancelled"}
    <3>1. CASE i = j
      <4>1. jobs[j] \in Row
        BY DEF TypeOK, TablesTypeOK
      <4>2. QED
        BY <2>2, <3>1, <4>1 DEF Row
    <3>2. CASE i # j
      BY <2>2, <3>2 DEF Rewrites
    <3>3. QED
      BY <3>1, <3>2
  <2>4. QED
    BY <2>2, <2>3 DEF Rewrites, Buried, LastAttempt, ExecutorsOf, workers
<1>6. QED
  BY <1>2, <1>3, <1>4, <1>5, StepKinds

\* The row that is read after the commit says dead_lettered only for such a job.
LEMMA DeadIsBuried ==
    ASSUME TypeOK, IInv, LifeInv, NEW j \in DOMAIN jobs, jobs[j].status = "dead_lettered"
    PROVE  Buried(j)
<1>1. Exhausted(jobs[j]) /\ LastAttempt(j) = "failed"
  BY DEF LifeInv, OutcomeRecorded
<1>2. jobs[j].attempt_count = jobs[j].max_retries + 1
  <2>1. jobs[j].attempt_count \in Nat /\ jobs[j].max_retries \in Nat
    BY RowColumns DEF TypeOK, TablesTypeOK
  <2>2. jobs[j].attempt_count <= jobs[j].max_retries + 1
    BY DEF IInv, RetryBound
  <2>3. QED
    BY <1>1, <2>1, <2>2 DEF Exhausted
<1>3. ExecutorsOf(j) = {}
  BY DEF ExecutorsOf, LifeInv, ExecutionsOK, ExecutionOK, Executing, Attempted
<1>4. QED
  BY <1>1, <1>2, <1>3 DEF Buried

LEMMA NextDead == TypeOK /\ IInv /\ LifeInv /\ DeadInv /\ [Next]_vars => DeadInv'
<1> SUFFICES ASSUME TypeOK, IInv, LifeInv, DeadInv, [Next]_vars PROVE DeadInv'
  OBVIOUS
<1>1. ASSUME NEW w \in Worker, pc'[w] = "dead_letter"
      PROVE  /\ job'[w] = job[w] /\ job[w] \in DOMAIN jobs
             /\ pc[w] = "dead_letter" \/ jobs[job[w]].status = "dead_lettered"
  <2>1. CASE UNCHANGED <<pc[w], job[w]>>
    BY <1>1, <2>1 DEF TypeOK, WorkersTypeOK
  <2>2. CASE MarkFailedRefresh(w)
    BY <1>1, <2>2 DEF MarkFailedRefresh, Goto, Leave, TypeOK, WorkersTypeOK
  <2>3. ASSUME NEW v \in Worker, v # w,
               (\E j \in JobId : ClaimCheckDrain(v, j)) \/ ProcessJob(v) \/ Crash(v)
        PROVE  UNCHANGED <<pc[w], job[w]>>
    BY <2>3 DEF ProcessJob, ClaimCheckDrain, ClaimLoad, ClaimCommit, MarkSucceededLoad,
                MarkSucceededCommit, CreateNextRecurring, MarkFailedLoad, MarkFailedCommit,
                MarkFailedRefresh, PublishDeadLetter, Crash, Leave, Goto, TypeOK, WorkersTypeOK
  <2>4. ASSUME (\E j \in JobId : ClaimCheckDrain(w, j)) \/ ProcessJob(w) \/ Crash(w)
        PROVE  MarkFailedRefresh(w)
    BY <1>1, <2>4 DEF ProcessJob, ClaimCheckDrain, ClaimLoad, ClaimCommit, MarkSucceededLoad,
                MarkSucceededCommit, CreateNextRecurring, MarkFailedLoad, MarkFailedCommit,
                PublishDeadLetter, Crash, Leave, Goto, TypeOK, WorkersTypeOK
  <2>5. CASE UNCHANGED workers
    BY <2>1, <2>5 DEF workers
  <2>6. QED
    BY <2>1, <2>2, <2>3, <2>4, <2>5
       DEF Next, CreateJob, BecomeDue, CancelLoad, CancelCommit, SetDrainLoad, SetDrainCommit, vars
<1>2. ASSUME NEW w \in Worker, pc'[w] = "dead_letter" PROVE Buried(job[w])'
  <2>1. PICK j \in DOMAIN jobs : j = job[w] /\ j = job'[w]
    BY <1>1, <1>2
  <2>2. Buried(j)
    BY <1>1, <1>2, <2>1, DeadIsBuried DEF DeadInv
  <2>3. Buried(j)'
    BY <2>2, BuriedKept
  <2>4. QED
    BY <2>1, <2>3 DEF Buried, LastAttempt, ExecutorsOf
<1>3. ASSUME NEW j \in JobId, dead_letters'[j] > 0 PROVE j \in DOMAIN jobs /\ Buried(j)
  <2>1. CASE dead_letters'[j] = dead_letters[j]
    BY <1>3, <2>1 DEF DeadInv
  <2>2. CASE dead_letters'[j] # dead_letters[j]
    <3>1. PICK w \in Worker : PublishDeadLetter(w)
      BY <2>2 DEF Next, ProcessJob, CreateJob, BecomeDue, ClaimCheckDrain, ClaimLoad, ClaimCommit,
                  MarkSucceededLoad, MarkSucceededCommit, CreateNextRecurring, MarkFailedLoad,
                  MarkFailedCommit, MarkFailedRefresh, Crash, CancelLoad, CancelCommit,
                  SetDrainLoad, SetDrainCommit, vars
    <3>2. pc[w] = "dead_letter" /\ job[w] = j
      BY <2>2, <3>1 DEF PublishDeadLetter, TypeOK, TablesTypeOK
    <3>3. QED
      BY <3>2 DEF DeadInv, TypeOK, WorkersTypeOK
  <2>3. QED
    BY <2>1, <2>2
<1>4. QED
  BY <1>2, <1>3, BuriedKept DEF DeadInv

LEMMA InitDead == Init => DeadInv
  BY DEF Init, DeadInv

LEMMA DeadInvariant == Spec => []DeadInv
<1>1. QED
  BY TypeCorrect, InductiveInvariant, LifeInvariant, InitDead, NextDead, PTL DEF Spec

\* A dead-letter event is about a job that no worker will run again.
THEOREM DeadLettersAreFinal == Spec => []DeadLetterIsFinal
<1>1. TypeOK /\ DeadInv => DeadLetterIsFinal
  BY DEF DeadInv, Buried, DeadLetterIsFinal, TypeOK, TablesTypeOK
<1>2. QED
  BY <1>1, TypeCorrect, DeadInvariant, PTL

-----------------------------------------------------------------------------
(* Recurrences.                                                            *)

\* A step about other jobs opens no job again.
LEMMA OpenKept ==
    ASSUME TypeOK, IInv, NEW j \in DOMAIN jobs, jobs'[j] = jobs[j],
           jobs[j].attempt_count > 0 => LastAttempt(j)' = LastAttempt(j),
           \A v \in Worker : job'[v] = j /\ pc'[v] \in Executing => job[v] = j /\ pc[v] \in Executing,
           Open(j)'
    PROVE  Open(j)
<1>1. Live(j)' => Live(j)
  BY DEF Live, ExecutorsOf
<1>2. Free(j)' => Free(j) \/ Live(j)
  BY DEF Free, Live, ExecutorsOf
<1>3. QED
  BY <1>1, <1>2 DEF Open

LEMMA OneOpenKept ==
    ASSUME OneOpen, DOMAIN jobs' = DOMAIN jobs, UNCHANGED chain,
           \A j \in DOMAIN jobs : Open(j)' => Open(j)
    PROVE  OneOpen'
  BY DEF OneOpen

\* A job that joins the chain of root is the only open one if no other is.
LEMMA OneOpenInsert ==
    ASSUME TypeOK, IInv, LifeInv, OneOpen, NEW k \in JobId \ DOMAIN jobs, NEW root,
           Inserts(k, root),
           \A j \in DOMAIN jobs : chain[j] = root => ~Open(j)'
    PROVE  OneOpen'
<1>1. /\ DOMAIN jobs' = DOMAIN jobs \cup {k} /\ chain'[k] = root
      /\ \A j \in DOMAIN jobs : chain'[j] = chain[j] /\ jobs'[j] = jobs[j] /\ j # k
  BY DEF Inserts, Store, TypeOK, TablesTypeOK
<1>2. ASSUME NEW j \in DOMAIN jobs, Open(j)' PROVE Open(j)
  <2>1. LastAttempt(j)' = LastAttempt(j)
    BY <1>1 DEF LastAttempt, Inserts
  <2>2. QED
    BY <1>1, <1>2, <2>1, OpenKept DEF Inserts, NoNewExecutor
<1>3. QED
  BY <1>1, <1>2 DEF OneOpen

LEMMA NextOpen == TypeOK /\ IInv /\ LifeInv /\ OneOpen /\ [Next]_vars => OneOpen'
<1> SUFFICES ASSUME TypeOK, IInv, LifeInv, OneOpen, [Next]_vars PROVE OneOpen'
  OBVIOUS
<1>1. CASE Quiet
  <2>1. ASSUME NEW j \in DOMAIN jobs, Open(j)' PROVE Open(j)
    BY <1>1, <2>1, OpenKept DEF Quiet, NoNewExecutor, LastAttempt
  <2>2. QED
    BY <1>1, <2>1, OneOpenKept DEF Quiet
<1>2. ASSUME NEW k \in JobId \ DOMAIN jobs, Inserts(k, k) PROVE OneOpen'
  BY <1>2, OneOpenInsert DEF LifeInv, JobsOK, JobOK
<1>3. ASSUME NEW w \in Worker, NEW k \in JobId \ DOMAIN jobs, CreateNextRecurring(w),
             Inserts(k, chain[job[w]])
      PROVE  OneOpen'
  <2>1. PICK i : i = job[w]
    OBVIOUS
  <2>2. /\ i \in DOMAIN jobs /\ pc[w] = "recurring" /\ jobs[i].attempt_count > 0
        /\ jobs[i].status \in {"succeeded", "cancelled"} /\ LastAttempt(i) = "succeeded"
    BY <1>3, <2>1
       DEF CreateNextRecurring, LifeInv, ExecutionsOK, ExecutionOK, TypeOK, WorkersTypeOK, Executing
  <2>3. Live(i)
    BY <2>1, <2>2 DEF Live, ExecutorsOf, Executing
  <2>4. \A j \in DOMAIN jobs : jobs'[j] = jobs[j] /\ LastAttempt(j)' = LastAttempt(j)
    BY <1>3 DEF Inserts, Store, LastAttempt
  <2>5. ~Open(i)'
    <3>1. ExecutorsOf(i)' = {}
      <4>1. pc'[w] \notin Executing
        BY <1>3 DEF CreateNextRecurring, Leave, Goto, TypeOK, WorkersTypeOK, Executing
      <4>2. \A v \in Worker : v # w => ~(job[v] = i /\ pc[v] \in Executing)
        BY <2>1, <2>2, ExecutesAlone DEF Executing
      <4>3. QED
        BY <1>3, <4>1, <4>2 DEF Inserts, NoNewExecutor, ExecutorsOf
    <3>2. ~Live(i)'
      BY <2>2, <2>4, <3>1 DEF Live, Pending
    <3>3. ~Free(i)'
      BY <2>2, <2>4 DEF Free
    <3>4. QED
      BY <3>2, <3>3 DEF Open
  <2>6. ASSUME NEW j \in DOMAIN jobs, chain[j] = chain[i], Open(j)' PROVE FALSE
    <3>1. Open(j)
      BY <1>3, <2>4, <2>6, OpenKept DEF Inserts, NoNewExecutor
    <3>2. j = i
      BY <2>2, <2>3, <2>6, <3>1 DEF OneOpen, Open
    <3>3. QED
      BY <2>5, <2>6, <3>2
  <2>7. QED
    BY <1>3, <2>1, <2>6, OneOpenInsert
<1>4. ASSUME NEW w \in Worker, Claims(w) \/ MarkSucceededCommit(w) \/ MarkFailedCommit(w)
      PROVE  OneOpen'
  <2>1. PICK i : i = job[w]
    OBVIOUS
  <2>2. /\ i \in DOMAIN jobs /\ Open(i) /\ Rewrites(i) /\ Moves(w) /\ UNCHANGED job
    <3>1. CASE Claims(w)
      BY <2>1, <3>1, ClaimRow DEF Claims, Open
    <3>2. CASE MarkSucceededCommit(w)
      BY <2>1, <3>2, SuccessRow DEF Open, Live, ExecutorsOf, Executing
    <3>3. CASE MarkFailedCommit(w)
      BY <2>1, <3>3, FailureRow DEF Open, Live, ExecutorsOf, Executing
    <3>4. QED
      BY <1>4, <3>1, <3>2, <3>3
  <2>3. ASSUME NEW j \in DOMAIN jobs, j # i, Open(j)' PROVE Open(j)
    <3>1. jobs'[j] = jobs[j] /\ (jobs[j].attempt_count > 0 => LastAttempt(j)' = LastAttempt(j))
      BY <2>2, <2>3, LastKept DEF Rewrites
    <3>2. \A v \in Worker :
             job'[v] = j /\ pc'[v] \in Executing => job[v] = j /\ pc[v] \in Executing
      BY <2>1, <2>2, <2>3 DEF Moves
    <3>3. QED
      BY <2>3, <3>1, <3>2, OpenKept
  <2>4. QED
    BY <2>2, <2>3, OneOpenKept DEF Rewrites
<1>5. ASSUME NEW c \in Canceller, CancelCommit(c) PROVE OneOpen'
  <2>1. PICK i : i = cancelling[c].job
    OBVIOUS
  <2>2. /\ i \in DOMAIN jobs /\ Rewrites(i) /\ UNCHANGED <<attempts, workers>>
        /\ jobs'[i] = [jobs[i] EXCEPT !.status = "cancelled", !.processed = TRUE]
    BY <1>5, <2>1, CancelRow DEF LifeInv
  <2>3. jobs[i] \in Row
    BY <2>2 DEF TypeOK, TablesTypeOK
  <2>4. /\ jobs'[i].status = "cancelled" /\ jobs'[i].attempt_count = jobs[i].attempt_count
        /\ jobs'[i].max_retries = jobs[i].max_retries
    BY <2>2, <2>3 DEF Row
  <2>5. LastAttempt(i)' = LastAttempt(i) /\ ExecutorsOf(i)' = ExecutorsOf(i)
    BY <2>2, <2>4 DEF LastAttempt, ExecutorsOf, workers
  <2>6. ASSUME Open(i)' PROVE Open(i)
    <3>1. CASE Live(i)'
      BY <2>4, <2>5, <3>1 DEF Open, Live, Pending
    <3>2. CASE Free(i)'
      <4>1. /\ jobs[i].attempt_count <= jobs[i].max_retries
            /\ jobs[i].attempt_count > 0 => LastAttempt(i) = "failed"
            /\ ExecutorsOf(i) = {}
        BY <2>2, <2>4, <2>5, <3>2 DEF Free, ExecutorsOf, workers
      <4>2. jobs[i].status # "succeeded"
        BY <2>2, <4>1 DEF LifeInv, OutcomeRecorded, JobsOK, JobOK
      <4>3. jobs[i].status # "dead_lettered"
        BY <2>2, <2>3, <4>1, RowColumns DEF LifeInv, OutcomeRecorded, Exhausted
      <4>4. CASE jobs[i].status = "cancelled"
        BY <4>1, <4>4 DEF Open, Free, ExecutorsOf
      <4>5. CASE jobs[i].status # "cancelled"
        BY <2>3, <4>2, <4>3, <4>5, RowColumns DEF Open, Live, JobStatus, Terminal
      <4>6. QED
        BY <4>4, <4>5
    <3>3. QED
      BY <2>6, <3>1, <3>2 DEF Open
  <2>7. ASSUME NEW j \in DOMAIN jobs, j # i, Open(j)' PROVE Open(j)
    BY <2>2, <2>7, OpenKept DEF Rewrites, LastAttempt, workers
  <2>8. QED
    BY <2>2, <2>6, <2>7, OneOpenKept DEF Rewrites
<1>6. QED
  BY <1>1, <1>2, <1>3, <1>4, <1>5, StepKinds

LEMMA InitOpen == Init => OneOpen
  BY EmptyTable DEF Init, OneOpen

LEMMA OpenInvariant == Spec => []OneOpen
<1>1. QED
  BY TypeCorrect, InductiveInvariant, LifeInvariant, InitOpen, NextOpen, PTL DEF Spec

\* A recurrence never forks, although a cancelled job may be started again.
THEOREM RecurrencesDoNotFork == Spec => []OneLiveOccurrence
<1>1. OneOpen => OneLiveOccurrence
  BY DEF OneOpen, OneLiveOccurrence, Open
<1>2. QED
  BY <1>1, OpenInvariant, PTL

-----------------------------------------------------------------------------
(* Cancellations.                                                          *)

\* Only a pending row is taken up by a claim.
LEMMA NewClaim ==
    ASSUME TypeOK, [Next]_vars, NEW w \in Worker, pc'[w] = "claiming"
    PROVE  \/ UNCHANGED <<pc[w], job[w]>>
           \/ job'[w] = job[w] /\ jobs[job[w]].status \in Pending
<1>1. CASE ClaimLoad(w)
  BY <1>1 DEF ClaimLoad, Claimable, Leave, Goto, TypeOK, WorkersTypeOK
<1>2. ASSUME NEW v \in Worker, v # w,
             (\E j \in JobId : ClaimCheckDrain(v, j)) \/ ProcessJob(v) \/ Crash(v)
      PROVE  UNCHANGED <<pc[w], job[w]>>
  BY <1>2 DEF ProcessJob, ClaimCheckDrain, ClaimLoad, ClaimCommit, MarkSucceededLoad,
              MarkSucceededCommit, CreateNextRecurring, MarkFailedLoad, MarkFailedCommit,
              MarkFailedRefresh, PublishDeadLetter, Crash, Leave, Goto, TypeOK, WorkersTypeOK
<1>3. ASSUME (\E j \in JobId : ClaimCheckDrain(w, j)) \/ ProcessJob(w) \/ Crash(w)
      PROVE  ClaimLoad(w)
  BY <1>3 DEF ProcessJob, ClaimCheckDrain, ClaimCommit, MarkSucceededLoad,
              MarkSucceededCommit, CreateNextRecurring, MarkFailedLoad, MarkFailedCommit,
              MarkFailedRefresh, PublishDeadLetter, Crash, Leave, Goto, TypeOK, WorkersTypeOK
<1>4. CASE UNCHANGED workers
  BY <1>4 DEF workers
<1>5. QED
  BY <1>1, <1>2, <1>3, <1>4
     DEF Next, CreateJob, BecomeDue, CancelLoad, CancelCommit, SetDrainLoad, SetDrainCommit, vars

\* A cancellation changes nothing of a job that is cancelled already.
LEMMA CancelledAgain ==
    ASSUME NEW row \in Row, row.status = "cancelled", row.processed = TRUE
    PROVE  [row EXCEPT !.status = "cancelled", !.processed = TRUE] = row
  BY DEF Row

LEMMA AtRestKept ==
    ASSUME TypeOK, IInv, LifeInv, [Next]_vars, NEW j \in JobId, AtRest(j)
    PROVE  AtRest(j)' /\ UNCHANGED <<jobs[j], History(j)>>
<1>1. j \in DOMAIN jobs /\ jobs[j].status = "cancelled" /\ jobs[j].processed /\ HoldersOf(j) = {}
  BY DEF AtRest, LifeInv, JobsOK, JobOK
<1>2. ASSUME j \in DOMAIN jobs', jobs'[j] = jobs[j],
             \A n \in 1 .. jobs[j].attempt_count : attempts'[<<j, n>>] = attempts[<<j, n>>],
             \A v \in Worker : job'[v] = j /\ pc'[v] \in Executing => job[v] = j /\ pc[v] \in Executing
      PROVE  AtRest(j)' /\ UNCHANGED <<jobs[j], History(j)>>
  <2>1. HoldersOf(j)' = {}
    <3>1. ASSUME NEW v \in Worker, job'[v] = j, pc'[v] = "claiming" PROVE FALSE
      <4>1. ~(job[v] = j /\ pc[v] = "claiming")
        BY <1>1 DEF HoldersOf
      <4>2. QED
        BY <1>1, <3>1, <4>1, NewClaim DEF Pending
    <3>2. QED
      BY <1>1, <1>2, <3>1 DEF HoldersOf
  <2>2. UNCHANGED History(j)
    BY <1>2 DEF History
  <2>3. QED
    BY <1>1, <1>2, <2>1, <2>2 DEF AtRest
<1>3. CASE Quiet
  BY <1>1, <1>2, <1>3 DEF Quiet, NoNewExecutor
<1>4. ASSUME NEW k \in JobId \ DOMAIN jobs, NEW root, Inserts(k, root)
      PROVE  AtRest(j)' /\ UNCHANGED <<jobs[j], History(j)>>
  <2>1. j \in DOMAIN jobs' /\ jobs'[j] = jobs[j]
    BY <1>1, <1>4 DEF Inserts, Store
  <2>2. QED
    BY <1>2, <1>4, <2>1 DEF Inserts, NoNewExecutor
<1>5. \A n \in 1 .. jobs[j].attempt_count : <<j, n>> \in DOMAIN attempts
  BY <1>1 DEF IInv, AttemptLedger
<1>6. ASSUME NEW w \in Worker, Claims(w) \/ MarkSucceededCommit(w) \/ MarkFailedCommit(w)
      PROVE  AtRest(j)' /\ UNCHANGED <<jobs[j], History(j)>>
  <2>1. PICK i : i = job[w]
    OBVIOUS
  <2>2. /\ pc[w] \in Executing \cup {"claiming"}
        /\ Rewrites(i) /\ Moves(w) /\ UNCHANGED job
    <3>1. CASE Claims(w)
      BY <2>1, <3>1, ClaimRow DEF Claims
    <3>2. CASE MarkSucceededCommit(w)
      BY <2>1, <3>2, SuccessRow DEF Executing
    <3>3. CASE MarkFailedCommit(w)
      BY <2>1, <3>3, FailureRow DEF Executing
    <3>4. QED
      BY <1>6, <3>1, <3>2, <3>3
  <2>3. i # j
    BY <1>1, <2>1, <2>2 DEF HoldersOf
  <2>4. /\ j \in DOMAIN jobs' /\ jobs'[j] = jobs[j]
        /\ \A n \in 1 .. jobs[j].attempt_count : attempts'[<<j, n>>] = attempts[<<j, n>>]
    BY <1>1, <1>5, <2>2, <2>3 DEF Rewrites
  <2>5. \A v \in Worker :
           job'[v] = j /\ pc'[v] \in Executing => job[v] = j /\ pc[v] \in Executing
    BY <2>1, <2>2, <2>3 DEF Moves
  <2>6. QED
    BY <1>2, <2>4, <2>5
<1>7. ASSUME NEW c \in Canceller, CancelCommit(c)
      PROVE  AtRest(j)' /\ UNCHANGED <<jobs[j], History(j)>>
  <2>1. PICK i : i = cancelling[c].job
    OBVIOUS
  <2>2. /\ i \in DOMAIN jobs /\ Rewrites(i) /\ UNCHANGED <<attempts, workers>>
        /\ jobs'[i] = [jobs[i] EXCEPT !.status = "cancelled", !.processed = TRUE]
    BY <1>7, <2>1, CancelRow DEF LifeInv
  <2>3. jobs'[j] = jobs[j]
    <3>1. CASE i = j
      <4>1. jobs[j] \in Row /\ jobs[j].processed \in BOOLEAN
        BY <1>1, Flags DEF TypeOK, TablesTypeOK
      <4>2. jobs[j].processed = TRUE
        BY <1>1, <4>1
      <4>3. QED
        BY <1>1, <2>2, <3>1, <4>1, <4>2, CancelledAgain
    <3>2. CASE i # j
      BY <1>1, <2>2, <3>2 DEF Rewrites
    <3>3. QED
      BY <3>1, <3>2
  <2>4. QED
    BY <1>1, <1>2, <2>2, <2>3 DEF Rewrites, workers
<1>8. QED
  BY <1>3, <1>4, <1>6, <1>7, StepKinds

\* Once no claim from before is under way, a cancellation is final: neither the
\* row nor the attempts of the job change again.
THEOREM CancellationsAreFinal == Spec => CancellationFinal
<1>1. TypeOK /\ IInv /\ LifeInv /\ [Next]_vars
        => [\A j \in JobId : AtRest(j) => AtRest(j)' /\ UNCHANGED <<jobs[j], History(j)>>]_vars
  BY AtRestKept
<1>2. QED
  BY <1>1, TypeCorrect, InductiveInvariant, LifeInvariant, PTL DEF Spec, CancellationFinal

-----------------------------------------------------------------------------
(* The refinement.                                                         *)

\* What JobLifecycle sees of the table.
Views == [j \in DOMAIN jobs |-> View(jobs[j])]

LEMMA ViewsType == TypeOK => Views \in [DOMAIN jobs -> ViewType]
<1> SUFFICES ASSUME TypeOK, NEW j \in DOMAIN jobs PROVE View(jobs[j]) \in ViewType
  BY DEF Views
<1>1. jobs[j] \in Row
  BY DEF TypeOK, TablesTypeOK
<1>2. QED
  BY <1>1, RowColumns DEF View, ViewType

\* A commit that updates one row is one change of one job to JobLifecycle.
LEMMA RewriteView ==
    ASSUME TypeOK, NEW j \in DOMAIN jobs, Rewrites(j), jobs'[j] \in Row,
           jobs'[j].max_retries = jobs[j].max_retries
    PROVE  /\ Views[j].status = jobs[j].status
           /\ Views[j].attempt_count = jobs[j].attempt_count
           /\ Views[j].max_retries = jobs[j].max_retries
           /\ Views' = WithCount(Views, j, jobs'[j].status, jobs'[j].attempt_count)
           /\ jobs'[j].attempt_count = jobs[j].attempt_count =>
                 Views' = WithStatus(Views, j, jobs'[j].status)
<1> DEFINE view == View(jobs'[j])
<1>1. /\ Views[j].status = jobs[j].status
      /\ Views[j].attempt_count = jobs[j].attempt_count
      /\ Views[j].max_retries = jobs[j].max_retries
      /\ view.status = jobs'[j].status /\ view.attempt_count = jobs'[j].attempt_count
      /\ view.max_retries = jobs'[j].max_retries
  BY DEF Views, View
<1>2. view \in ViewType /\ Views \in [DOMAIN jobs -> ViewType]
  BY RowColumns, ViewsType DEF View, ViewType
<1>3. Views' = With(Views, j, view)
  BY DEF Views, With, Rewrites
<1>4. view.max_retries = Views[j].max_retries
  BY <1>1
<1> HIDE DEF view
<1>5. /\ Views' = WithCount(Views, j, view.status, view.attempt_count)
      /\ view.attempt_count = Views[j].attempt_count => Views' = WithStatus(Views, j, view.status)
  BY <1>2, <1>3, <1>4, ExceptColumns
<1>6. QED
  BY <1>1, <1>5

\* A row is added, and JobLifecycle sees a submission.
LEMMA InsertView ==
    ASSUME TypeOK, JobsOK', NEW k \in JobId \ DOMAIN jobs, NEW root, Inserts(k, root)
    PROVE  Lifecycle!Next
<1>1. PICK retries \in Nat, cron \in Cron : jobs' = Store(jobs, k, NewRow(retries, cron))
  BY DEF Inserts
<1>2. /\ DOMAIN jobs' = DOMAIN jobs \cup {k} /\ jobs'[k] = NewRow(retries, cron)
      /\ \A j \in DOMAIN jobs : jobs'[j] = jobs[j]
  BY <1>1 DEF Store
<1>3. retries \in RetryLimit
  BY <1>2, NewRowColumns DEF JobsOK, JobOK
<1>4. View(NewRow(retries, cron))
        = [status |-> "queued", attempt_count |-> 0, max_retries |-> retries]
  BY DEF View, NewRow
<1>5. Views' = [j \in DOMAIN Views \cup {k} |-> IF j \in DOMAIN Views THEN Views[j]
                  ELSE [status |-> "queued", attempt_count |-> 0, max_retries |-> retries]]
  BY <1>2, <1>4 DEF Views
<1>6. k \notin DOMAIN Views
  BY DEF Views
<1>7. Lifecycle!Submit(k)
  BY <1>3, <1>5, <1>6 DEF Lifecycle!Submit, Views, View
<1>8. QED
  BY <1>7 DEF Lifecycle!Next

LEMMA LifecycleStep ==
    ASSUME TypeOK, IInv, LifeInv, [Next]_vars
    PROVE  [Lifecycle!Next]_Views
<1>1. CASE Quiet
  BY <1>1 DEF Quiet, Views
<1>2. ASSUME NEW k \in JobId \ DOMAIN jobs, NEW root, Inserts(k, root) PROVE Lifecycle!Next
  BY <1>2, NextLife, InsertView DEF LifeInv
<1>3. ASSUME NEW j \in DOMAIN jobs,
             \/ Lifecycle!Start(j) \/ Lifecycle!Succeed(j) \/ Lifecycle!Retry(j)
             \/ Lifecycle!Bury(j) \/ Lifecycle!Cancel(j)
      PROVE  Lifecycle!Next
  BY <1>3 DEF Lifecycle!Next
\* A status that a cancellation wrote exists only if there are requests.
<1>4. ASSUME NEW j \in DOMAIN jobs, jobs[j].status = "cancelled"
      PROVE  "cancelled" \in Lifecycle!Overwritten
  BY <1>4 DEF Lifecycle!Overwritten, LifeInv, JobsOK, JobOK
<1>5. ASSUME NEW w \in Worker, NEW j, j = job[w], Claims(w) PROVE Lifecycle!Next
  <2>1. /\ j \in DOMAIN jobs /\ Free(j) /\ Rewrites(j) /\ jobs'[j] \in Row
        /\ jobs'[j].status = "running"
        /\ jobs'[j].attempt_count = jobs[j].attempt_count + 1
        /\ jobs'[j].max_retries = jobs[j].max_retries
    BY <1>5, ClaimRow DEF Claims
  <2>2. /\ Views[j].status = jobs[j].status
        /\ Views' = WithCount(Views, j, "running", Views[j].attempt_count + 1)
    BY <2>1, RewriteView
  <2>3. jobs[j].status \in Pending \cup Lifecycle!Overwritten
    BY <1>4, <2>1 DEF Free
  <2>4. Lifecycle!Start(j)
    BY <2>2, <2>3 DEF Lifecycle!Start, Lifecycle!Waiting, Pending, Views, View, WithCount
  <2>5. QED
    BY <1>3, <2>1, <2>4
<1>6. ASSUME NEW w \in Worker, NEW j, j = job[w], MarkSucceededCommit(w) PROVE Lifecycle!Next
  <2>1. /\ j \in DOMAIN jobs /\ pc[w] = "succeeding" /\ Rewrites(j) /\ jobs'[j] \in Row
        /\ jobs'[j].status = "succeeded"
        /\ jobs'[j].attempt_count = jobs[j].attempt_count
        /\ jobs'[j].max_retries = jobs[j].max_retries
    BY <1>6, SuccessRow
  <2>2. Views[j].status = jobs[j].status /\ Views' = WithStatus(Views, j, "succeeded")
    BY <2>1, RewriteView
  <2>3. jobs[j].status \in {"running"} \cup Lifecycle!Overwritten
    BY <1>4, <1>6, <2>1 DEF LifeInv, ExecutionsOK, ExecutionOK, Attempted
  <2>4. Lifecycle!Succeed(j)
    BY <2>2, <2>3 DEF Lifecycle!Succeed, Lifecycle!Finish, Views, View, WithStatus
  <2>5. QED
    BY <1>3, <2>1, <2>4
<1>7. ASSUME NEW w \in Worker, NEW j, j = job[w], MarkFailedCommit(w) PROVE Lifecycle!Next
  <2>1. /\ j \in DOMAIN jobs /\ pc[w] = "failing" /\ Rewrites(j) /\ jobs'[j] \in Row
        /\ jobs'[j].status = IF Exhausted(jobs[j]) THEN "dead_lettered" ELSE "failed"
        /\ jobs'[j].attempt_count = jobs[j].attempt_count
        /\ jobs'[j].max_retries = jobs[j].max_retries
    BY <1>7, FailureRow
  <2>2. /\ Views[j].status = jobs[j].status
        /\ Views[j].attempt_count = jobs[j].attempt_count
        /\ Views[j].max_retries = jobs[j].max_retries
        /\ Views' = WithStatus(Views, j, jobs'[j].status)
    BY <2>1, RewriteView
  <2>3. \/ jobs[j].status \in {"running"} \cup Lifecycle!Overwritten
        \/ jobs[j].status = "succeeded" /\ "impossible" \in CronKind
    BY <1>4, <1>7, <2>1 DEF LifeInv, ExecutionsOK, ExecutionOK, Attempted, JobsOK, JobOK
  <2>4. /\ jobs[j].attempt_count \in Nat /\ jobs[j].max_retries \in Nat
        /\ jobs[j].attempt_count <= jobs[j].max_retries + 1
    BY <2>1, RowColumns DEF TypeOK, TablesTypeOK, IInv, RetryBound
  <2>5. CASE Exhausted(jobs[j])
    <3>1. Views' = WithStatus(Views, j, "dead_lettered")
      BY <2>1, <2>2, <2>5
    <3>2. Views[j].attempt_count = Views[j].max_retries + 1
      BY <2>2, <2>4, <2>5 DEF Exhausted
    <3>3. Lifecycle!Bury(j)
      BY <2>2, <2>3, <3>1, <3>2
         DEF Lifecycle!Bury, Lifecycle!Fail, Lifecycle!Finish, Views, View, WithStatus
    <3>4. QED
      BY <1>3, <2>1, <3>3
  <2>6. CASE ~Exhausted(jobs[j])
    <3>1. Views' = WithStatus(Views, j, "failed")
      BY <2>1, <2>2, <2>6
    <3>2. Views[j].attempt_count <= Views[j].max_retries
      BY <2>2, <2>4, <2>6 DEF Exhausted
    <3>3. Lifecycle!Retry(j)
      BY <2>2, <2>3, <3>1, <3>2
         DEF Lifecycle!Retry, Lifecycle!Fail, Lifecycle!Finish, Views, View, WithStatus
    <3>4. QED
      BY <1>3, <2>1, <3>3
  <2>7. QED
    BY <2>5, <2>6
<1>8. ASSUME NEW c \in Canceller, NEW j, j = cancelling[c].job, CancelCommit(c)
      PROVE  Lifecycle!Next
  <2>1. /\ j \in DOMAIN jobs /\ Rewrites(j)
        /\ jobs'[j] = [jobs[j] EXCEPT !.status = "cancelled", !.processed = TRUE]
    BY <1>8, CancelRow DEF LifeInv
  <2>2. jobs[j] \in Row
    BY <2>1 DEF TypeOK, TablesTypeOK
  <2>3. /\ jobs'[j] \in Row /\ jobs'[j].status = "cancelled"
        /\ jobs'[j].attempt_count = jobs[j].attempt_count
        /\ jobs'[j].max_retries = jobs[j].max_retries
    BY <2>1, <2>2 DEF Row, JobStatus, Terminal
  <2>4. Views' = WithStatus(Views, j, "cancelled")
    BY <2>1, <2>3, RewriteView
  <2>5. Lifecycle!Cancel(j)
    BY <2>4 DEF Lifecycle!Cancel, Lifecycle!Finish, Views, View, WithStatus
  <2>6. QED
    BY <1>3, <2>1, <2>5
<1>9. QED
  BY <1>1, <1>2, <1>5, <1>6, <1>7, <1>8, StepKinds

\* For any sessions, messages and crashes, a job lives the life that is
\* documented: no attempt is skipped, repeated or beyond the retries.  Requests
\* to cancel weaken only what becomes of a cancelled status, and schedules
\* without a next run only what becomes of a success.
THEOREM SqlImplementsLifecycle == Spec => ImplementsLifecycle
<1>1. Init => Lifecycle!Init
  BY EmptyTable DEF Init, Lifecycle!Init
<1>2. TypeOK /\ IInv /\ LifeInv /\ [Next]_vars => [Lifecycle!Next]_Views
  BY LifecycleStep
<1>3. QED
  BY <1>1, <1>2, TypeCorrect, InductiveInvariant, LifeInvariant, PTL
     DEF Spec, ImplementsLifecycle, Lifecycle!Spec, Views, View
-----------------------------------------------------------------------------
(* What nothing but a stale cancellation or a schedule without a next run  *)
(* disturbs.                                                               *)

\* A job whose last attempt has succeeded, executed at most by a worker that is
\* about to create the next occurrence.
Settled(j) ==
    /\ jobs[j].status \in {"succeeded", "cancelled"} /\ jobs[j].attempt_count > 0
    /\ LastAttempt(j) = "succeeded"
    /\ \A w \in Worker : job[w] = j /\ pc[w] \in Executing => pc[w] = "recurring"

LEMMA SucceededIsSettled ==
    ASSUME "impossible" \notin CronKind, IInv, LifeInv, NEW j \in DOMAIN jobs,
           jobs[j].status = "succeeded"
    PROVE  Settled(j)
<1>1. /\ jobs[j].attempt_count > 0 /\ jobs[j].cron # "impossible"
      /\ LastAttempt(j) = "succeeded"
  BY DEF LifeInv, JobsOK, JobOK, OutcomeRecorded
<1>2. ASSUME NEW w \in Worker, job[w] = j, pc[w] \in Executing PROVE pc[w] = "recurring"
  BY <1>1, <1>2 DEF LifeInv, ExecutionsOK, ExecutionOK, Executing, Attempted
<1>3. QED
  BY <1>1, <1>2 DEF Settled

\* A worker that is about to create the next occurrence executes nothing after it.
LEMMA RecurringIsLast ==
    ASSUME "impossible" \notin CronKind, TypeOK, LifeInv, [Next]_vars,
           NEW w \in Worker, pc[w] = "recurring", pc'[w] \in Executing
    PROVE  pc'[w] = "recurring"
<1>1. job[w] \in DOMAIN jobs /\ jobs[job[w]].cron # "impossible"
  BY DEF TypeOK, WorkersTypeOK, LifeInv, JobsOK, JobOK
<1>2. CASE UNCHANGED pc[w]
  BY <1>2
<1>3. CASE CreateNextRecurring(w) \/ Crash(w)
  BY <1>3 DEF CreateNextRecurring, Crash, Leave, Goto, Executing, TypeOK, WorkersTypeOK
<1>4. ASSUME NEW v \in Worker, v # w,
             (\E j \in JobId : ClaimCheckDrain(v, j)) \/ ProcessJob(v) \/ Crash(v)
      PROVE  UNCHANGED pc[w]
  BY <1>4 DEF ProcessJob, ClaimCheckDrain, ClaimLoad, ClaimCommit, MarkSucceededLoad,
              MarkSucceededCommit, CreateNextRecurring, MarkFailedLoad, MarkFailedCommit,
              MarkFailedRefresh, PublishDeadLetter, Crash, Leave, Goto, TypeOK, WorkersTypeOK
<1>5. ASSUME (\E j \in JobId : ClaimCheckDrain(w, j)) \/ ProcessJob(w) \/ Crash(w)
      PROVE  CreateNextRecurring(w) \/ Crash(w)
  BY <1>1, <1>5 DEF ProcessJob, ClaimCheckDrain, ClaimLoad, ClaimCommit, MarkSucceededLoad,
              MarkSucceededCommit, MarkFailedLoad, MarkFailedCommit, MarkFailedRefresh,
              PublishDeadLetter
<1>6. CASE UNCHANGED workers
  BY <1>2, <1>6 DEF workers
<1>7. QED
  BY <1>2, <1>3, <1>4, <1>5, <1>6
     DEF Next, CreateJob, BecomeDue, CancelLoad, CancelCommit, SetDrainLoad, SetDrainCommit, vars

\* Only a cancellation changes such a job, and only to cancelled.
LEMMA SettledKept ==
    ASSUME "impossible" \notin CronKind, TypeOK, IInv, LifeInv, [Next]_vars,
           NEW j \in DOMAIN jobs, Settled(j)
    PROVE  /\ j \in DOMAIN jobs' /\ Settled(j)'
           /\ jobs'[j].status # jobs[j].status => Canceller # {}
<1>1. ASSUME j \in DOMAIN jobs', jobs'[j].status \in {"succeeded", "cancelled"},
             jobs'[j].attempt_count = jobs[j].attempt_count,
             LastAttempt(j)' = LastAttempt(j),
             \A v \in Worker : job'[v] = j /\ pc'[v] \in Executing => job[v] = j /\ pc[v] \in Executing
      PROVE  j \in DOMAIN jobs' /\ Settled(j)'
  <2>1. ASSUME NEW v \in Worker, job'[v] = j, pc'[v] \in Executing PROVE pc'[v] = "recurring"
    BY <1>1, <2>1, RecurringIsLast DEF Settled
  <2>2. QED
    BY <1>1, <2>1 DEF Settled
<1>2. CASE Quiet
  BY <1>1, <1>2 DEF Quiet, NoNewExecutor, LastAttempt, Settled
<1>3. ASSUME NEW k \in JobId \ DOMAIN jobs, NEW root, Inserts(k, root)
      PROVE  j \in DOMAIN jobs' /\ Settled(j)' /\ jobs'[j] = jobs[j]
  <2>1. j \in DOMAIN jobs' /\ jobs'[j] = jobs[j]
    BY <1>3 DEF Inserts, Store
  <2>2. QED
    BY <1>1, <1>3, <2>1 DEF Inserts, NoNewExecutor, LastAttempt, Settled
<1>4. ASSUME NEW w \in Worker, Claims(w) \/ MarkSucceededCommit(w) \/ MarkFailedCommit(w)
      PROVE  j \in DOMAIN jobs' /\ Settled(j)' /\ jobs'[j] = jobs[j]
  <2>1. PICK i : i = job[w]
    OBVIOUS
  <2>2. i # j /\ Rewrites(i) /\ Moves(w) /\ UNCHANGED job
    <3>1. CASE Claims(w)
      BY <2>1, <3>1, ClaimRow DEF Claims, Free, Settled
    <3>2. CASE MarkSucceededCommit(w)
      BY <2>1, <3>2, SuccessRow DEF Settled, Executing
    <3>3. CASE MarkFailedCommit(w)
      BY <2>1, <3>3, FailureRow DEF Settled, Executing
    <3>4. QED
      BY <1>4, <3>1, <3>2, <3>3
  <2>3. jobs'[j] = jobs[j] /\ LastAttempt(j)' = LastAttempt(j) /\ j \in DOMAIN jobs'
    BY <2>2, LastKept DEF Rewrites, Settled
  <2>4. \A v \in Worker :
           job'[v] = j /\ pc'[v] \in Executing => job[v] = j /\ pc[v] \in Executing
    BY <2>1, <2>2 DEF Moves
  <2>5. QED
    BY <1>1, <2>3, <2>4 DEF Settled
<1>5. ASSUME NEW c \in Canceller, CancelCommit(c) PROVE j \in DOMAIN jobs' /\ Settled(j)'
  <2>1. PICK i : i = cancelling[c].job
    OBVIOUS
  <2>2. /\ i \in DOMAIN jobs /\ Rewrites(i) /\ UNCHANGED <<attempts, workers>>
        /\ jobs'[i] = [jobs[i] EXCEPT !.status = "cancelled", !.processed = TRUE]
    BY <1>5, <2>1, CancelRow DEF LifeInv
  <2>3. /\ jobs'[j].attempt_count = jobs[j].attempt_count
        /\ jobs'[j].status \in {jobs[j].status, "cancelled"}
    <3>1. CASE i = j
      <4>1. jobs[j] \in Row
        BY DEF TypeOK, TablesTypeOK
      <4>2. QED
        BY <2>2, <3>1, <4>1 DEF Row
    <3>2. CASE i # j
      BY <2>2, <3>2 DEF Rewrites
    <3>3. QED
      BY <3>1, <3>2
  <2>4. QED
    BY <1>1, <2>2, <2>3 DEF Rewrites, LastAttempt, workers, Settled
<1>6. ASSUME Quiet PROVE jobs'[j] = jobs[j]
  BY <1>6 DEF Quiet
<1>7. QED
  BY <1>2, <1>3, <1>4, <1>5, <1>6, StepKinds

\* The documents are right that a success is final if no request cancels and
\* every schedule has a next run: nothing else can take a success back.
THEOREM SuccessesAreFinal ==
    ASSUME Canceller = {}, "impossible" \notin CronKind
    PROVE  Spec => SuccessIsFinal
<1>1. ASSUME TypeOK, IInv, LifeInv, [Next]_vars, NEW j \in DOMAIN jobs, jobs[j].status = "succeeded"
      PROVE  jobs'[j].status = "succeeded"
  BY <1>1, SucceededIsSettled, SettledKept
<1>2. TypeOK /\ IInv /\ LifeInv /\ [Next]_vars
        => [\A j \in DOMAIN jobs : jobs[j].status = "succeeded" => jobs'[j].status = "succeeded"]_vars
  BY <1>1
<1>3. QED
  BY <1>2, TypeCorrect, InductiveInvariant, LifeInvariant, PTL DEF Spec, SuccessIsFinal
=============================================================================
