---------------------- MODULE InMemoryRepositoryProofs ----------------------
(***************************************************************************)
(* Theorems about InMemoryRepository, for any number of jobs, threads and  *)
(* keys and any retry budgets.                                             *)
(***************************************************************************)
EXTENDS InMemoryRepository, JobRowProofs

-----------------------------------------------------------------------------
(* What this repository assigns to a failed job.                           *)

LEMMA MemoryFailedColumns ==
    ASSUME NEW row \in Row
    PROVE  LET new == MemoryFailed(row)
           IN  /\ new \in Row
               /\ new.status = IF Exhausted(row) THEN "dead_lettered" ELSE "failed"
               /\ new.attempt_count = row.attempt_count
               /\ new.max_retries = row.max_retries
               /\ new.cron = row.cron
               /\ new.processed = Exhausted(row)
<1> DEFINE exhausted == Exhausted(row)
           failed == FailedAttempt(row)
<1>1. exhausted \in BOOLEAN
  BY DEF Exhausted
<1>2. failed.cron = row.cron
  BY DEF FailedAttempt, Row
<1>3. /\ failed \in Row
      /\ failed.status = IF exhausted THEN "dead_lettered" ELSE "failed"
      /\ failed.attempt_count = row.attempt_count
      /\ failed.max_retries = row.max_retries
  BY FailedAttemptColumns
<1>4. MemoryFailed(row) = [failed EXCEPT !.processed = exhausted]
  BY DEF MemoryFailed
<1> HIDE DEF exhausted, failed
<1>5. /\ MemoryFailed(row) \in Row
      /\ MemoryFailed(row).status = failed.status
      /\ MemoryFailed(row).attempt_count = failed.attempt_count
      /\ MemoryFailed(row).max_retries = failed.max_retries
      /\ MemoryFailed(row).cron = failed.cron
      /\ MemoryFailed(row).processed = exhausted
  BY <1>1, <1>3, <1>4 DEF Row
<1>6. QED
  BY <1>2, <1>3, <1>5 DEF exhausted

-----------------------------------------------------------------------------
(* The inductive invariant.                                                *)

\* Threads that a claim of their job was given to and that are not done with it.
Busy == Executing \cup {"dead_letter"}

\* Where a thread is in a call tells what its job's record says: the record it
\* read is still the current one while it holds the lock, and nobody but the
\* thread that claimed the job changes it from then on.
StageOK(t) ==
    LET row == jobs[job[t]]
    IN  /\ pc[t] \in Inside => seen[t] = row
        /\ pc[t] \in {"claiming", "cancelling"} => row.status \in Pending
        /\ pc[t] \in {"running", "succeeding"} => row.status = "running"
        /\ pc[t] = "recurring" => row.status = "succeeded"
        /\ pc[t] = "failing" =>
              row.status = "running" \/ (row.status = "succeeded" /\ row.cron = "impossible")
        /\ pc[t] = "dead_letter" => row.status = "dead_lettered" /\ dead_letters[job[t]] = 0

Alone == \A t, u \in Thread :
    pc[t] \in Busy /\ pc[u] \in Busy /\ job[t] = job[u] => t = u

\* A waiting job has an attempt left; its record is what a client submitted.
RecordOK(j) ==
    /\ jobs[j].max_retries \in RetryLimit /\ jobs[j].cron \in CronKind
    /\ jobs[j].attempt_count <= jobs[j].max_retries + 1
    /\ jobs[j].status \in Pending => jobs[j].attempt_count <= jobs[j].max_retries

RecordsOK == \A j \in DOMAIN jobs : RecordOK(j)

IInv == /\ TypeOK
        /\ \A t \in Thread : StageOK(t)
        /\ Alone /\ RecordsOK
        /\ ProcessedWhenEnded /\ OneDeadLetter

LEMMA InitInv == Init => IInv /\ OneJobPerKey
<1> SUFFICES ASSUME Init PROVE IInv /\ OneJobPerKey
  OBVIOUS
<1>1. TypeOK
  BY EmptyTable DEF Init, TypeOK, RecordsTypeOK, ThreadsTypeOK, PC, Inside
<1>2. \A t \in Thread : StageOK(t)
  BY DEF Init, StageOK, Inside
<1>3. Alone /\ RecordsOK /\ ProcessedWhenEnded /\ OneDeadLetter /\ OneJobPerKey
  BY EmptyTable DEF Init, Alone, Busy, Executing, RecordsOK, ProcessedWhenEnded, OneDeadLetter,
                    OneJobPerKey
<1>4. QED
  BY <1>1, <1>2, <1>3 DEF IInv

\* While a thread is inside the lock, no other thread works on its job.
LEMMA Others ==
    ASSUME IInv, NEW t \in Thread, pc[t] \in Inside,
           NEW u \in Thread, u # t, pc[u] # "idle"
    PROVE  job[u] # job[t] /\ pc[u] \notin Inside
<1>1. pc[u] \notin Inside
  BY DEF IInv, TypeOK, ThreadsTypeOK
<1>2. ASSUME job[u] = job[t] PROVE FALSE
  <2>1. pc[u] \in {"running", "recurring", "dead_letter"}
    BY <1>1 DEF IInv, TypeOK, ThreadsTypeOK, PC, Inside, Executing
  <2>2. jobs[job[u]].status \notin Pending
    BY <2>1 DEF IInv, StageOK, Pending
  <2>3. pc[t] \in Busy /\ pc[u] \in Busy
    BY <1>2, <2>1, <2>2 DEF IInv, StageOK, Inside, Busy, Executing
  <2>4. QED
    BY <1>2, <2>3 DEF IInv, Alone
<1>3. QED
  BY <1>1, <1>2

-----------------------------------------------------------------------------
(* A thread takes the lock and reads a record.                             *)

LEMMA EnterInv ==
    ASSUME IInv, NEW t \in Thread, NEW stage \in Inside, NEW j \in DOMAIN jobs,
           Enter(t, stage, j), UNCHANGED <<records, due, drain_enabled, dead_letters>>,
           \/ pc[t] = "idle" /\ stage \in {"claiming", "cancelling"} /\ jobs[j].status \in Pending
           \/ /\ pc[t] = "running" /\ stage \in {"succeeding", "failing"} /\ j = job[t]
           \/ /\ pc[t] = "recurring" /\ stage = "failing" /\ j = job[t]
              /\ jobs[j].cron = "impossible"
    PROVE  IInv'
<1> USE DEF records
<1>1. /\ pc' \in [Thread -> PC] /\ job' \in [Thread -> JobId \cup {None}]
      /\ seen' \in [Thread -> Row \cup {None}]
      /\ pc'[t] = stage /\ job'[t] = j /\ seen'[t] = jobs[j] /\ jobs[j] \in Row
      /\ \A u \in Thread \ {t} : pc'[u] = pc[u] /\ job'[u] = job[u] /\ seen'[u] = seen[u]
  BY DEF IInv, TypeOK, RecordsTypeOK, ThreadsTypeOK, Enter, PC
<1>2. \A u \in Thread : pc[u] \notin Inside
  BY MemoryAssumption DEF IInv, TypeOK, ThreadsTypeOK, Enter
<1>3. TypeOK'
  <2>1. RecordsTypeOK'
    BY DEF IInv, TypeOK, RecordsTypeOK
  <2>2. QED
    BY <1>1, <1>2, <2>1 DEF IInv, TypeOK, ThreadsTypeOK, Enter
<1>4. ASSUME NEW u \in Thread PROVE StageOK(u)'
  <2>1. CASE u = t
    BY <1>1, <2>1 DEF IInv, StageOK, Inside
  <2>2. CASE u # t
    BY <1>1, <2>2 DEF IInv, StageOK
  <2>3. QED
    BY <2>1, <2>2
<1>5. Alone'
  BY <1>1 DEF IInv, Alone, Busy, Executing, Inside
<1>6. RecordsOK' /\ ProcessedWhenEnded' /\ OneDeadLetter'
  BY DEF IInv, RecordsOK, RecordOK, ProcessedWhenEnded, OneDeadLetter
<1>7. QED
  BY <1>3, <1>4, <1>5, <1>6 DEF IInv

-----------------------------------------------------------------------------
(* A thread replaces the record it read and releases the lock.             *)

LEMMA ReplaceInv ==
    ASSUME IInv, NEW t \in Thread, pc[t] \in Inside, NEW row \in Row,
           Replace(t, row), due' \in SUBSET JobId, UNCHANGED <<drain_enabled, dead_letters>>,
           NEW stage \in {"running", "recurring", "dead_letter", "idle"}, Go(t, stage),
           \/ UNCHANGED job
           \/ stage = "idle" /\ job' = [job EXCEPT ![t] = None],
           jobs[job[t]].status # "dead_lettered",
           row.max_retries = seen[t].max_retries, row.cron = seen[t].cron,
           row.attempt_count <= row.max_retries + 1,
           row.status \in Pending => row.attempt_count <= row.max_retries,
           row.processed <=> row.status \in Terminal,
           stage = "running" => row.status = "running",
           stage = "recurring" => row.status = "succeeded",
           stage = "dead_letter" => row.status = "dead_lettered"
    PROVE  IInv'
<1> DEFINE j == job[t]
<1>1. j \in DOMAIN jobs /\ seen[t] = jobs[j]
  BY DEF IInv, TypeOK, ThreadsTypeOK, StageOK, Inside
<1>2. /\ pc' \in [Thread -> PC] /\ job' \in [Thread -> JobId \cup {None}]
      /\ seen' \in [Thread -> Row \cup {None}]
      /\ pc'[t] = stage /\ (stage # "idle" => job'[t] = j)
      /\ \A u \in Thread \ {t} : pc'[u] = pc[u] /\ job'[u] = job[u] /\ seen'[u] = seen[u]
  BY DEF IInv, TypeOK, ThreadsTypeOK, Go, PC, Executing
<1>3. /\ DOMAIN jobs' = DOMAIN jobs /\ jobs' \in [DOMAIN jobs -> Row]
      /\ jobs'[j] = row
      /\ \A k \in DOMAIN jobs : k # j => jobs'[k] = jobs[k]
      /\ lock' = None /\ UNCHANGED <<key_of, idempotency>>
  BY <1>1 DEF IInv, TypeOK, RecordsTypeOK, Replace
<1>4. \A u \in Thread : u # t /\ pc[u] # "idle" => job[u] # j /\ pc[u] \notin Inside
  BY Others
<1>5. stage \notin Inside
  BY DEF Inside
<1> HIDE DEF j
<1>6. TypeOK'
  <2>1. RecordsTypeOK'
    BY <1>3 DEF IInv, TypeOK, RecordsTypeOK
  <2>2. \A u \in Thread : /\ pc'[u] # "idle" => job'[u] \in DOMAIN jobs'
                          /\ pc'[u] \notin Inside
    <3>1. pc'[t] \notin Inside /\ (pc'[t] # "idle" => job'[t] \in DOMAIN jobs')
      BY <1>1, <1>2, <1>3, <1>5
    <3>2. QED
      BY <1>2, <1>3, <1>4, <3>1 DEF IInv, TypeOK, ThreadsTypeOK, Inside
  <2>3. QED
    BY <1>2, <1>3, <2>1, <2>2 DEF IInv, TypeOK, ThreadsTypeOK
<1>7. ASSUME NEW u \in Thread PROVE StageOK(u)'
  <2>1. CASE u = t
    <3>1. dead_letters'[j] = 0
      BY <1>1 DEF j, IInv, OneDeadLetter, TypeOK, RecordsTypeOK
    <3>2. QED
      BY <1>2, <1>3, <1>5, <2>1, <3>1 DEF StageOK, Inside
  <2>2. CASE u # t /\ pc[u] = "idle"
    BY <1>2, <2>2 DEF StageOK, Inside
  <2>3. CASE u # t /\ pc[u] # "idle"
    <3>1. job[u] \in DOMAIN jobs /\ jobs'[job'[u]] = jobs[job[u]]
      BY <1>2, <1>3, <1>4, <2>3 DEF IInv, TypeOK, ThreadsTypeOK
    <3>2. QED
      BY <1>2, <2>3, <3>1 DEF IInv, StageOK
  <2>4. QED
    BY <2>1, <2>2, <2>3
<1>8. Alone'
  BY <1>2, <1>4 DEF IInv, Alone, Busy, Executing
<1>9. RecordsOK'
  BY <1>1, <1>3 DEF IInv, RecordsOK, RecordOK
<1>10. ProcessedWhenEnded'
  BY <1>3 DEF IInv, ProcessedWhenEnded
<1>11. OneDeadLetter'
  BY <1>1, <1>3 DEF j, IInv, OneDeadLetter
<1>12. QED
  BY <1>6, <1>7, <1>8, <1>9, <1>10, <1>11 DEF IInv

-----------------------------------------------------------------------------
(* Steps that add a record, and steps that change none.                    *)

\* The records a thread works on are not touched by an insertion.
LEMMA InsertInv ==
    ASSUME IInv, NEW j \in JobId, NEW retries \in RetryLimit, NEW cron \in CronKind,
           NEW key \in Key \cup {None}, Insert(j, retries, cron, key),
           due' \in SUBSET JobId,
           \/ UNCHANGED idempotency
           \/ key # None /\ idempotency' = Store(idempotency, key, j),
           UNCHANGED <<drain_enabled, lock, dead_letters>>,
           \/ UNCHANGED threads
           \/ \E t \in Thread : pc[t] = "recurring" /\ Return(t)
    PROVE  IInv'
<1> DEFINE row == NewRow(retries, cron)
<1>1. /\ row \in Row /\ row.status = "queued" /\ row.attempt_count = 0
      /\ row.max_retries = retries /\ row.cron = cron /\ row.processed = FALSE
  <2>1. retries \in Nat /\ cron \in Cron
    BY MemoryAssumption
  <2>2. /\ row \in Row /\ row.status = "queued" /\ row.attempt_count = 0
        /\ row.max_retries = retries
    BY <2>1, NewRowColumns
  <2>3. row.cron = cron /\ row.processed = FALSE
    BY NewRowFlags
  <2>4. QED
    BY <2>2, <2>3
<1>2. jobs' = Store(jobs, j, row) /\ key_of' = Store(key_of, j, key) /\ j \notin DOMAIN jobs
  BY DEF Insert
<1> HIDE DEF row
<1>3. /\ DOMAIN jobs' = DOMAIN jobs \cup {j} /\ jobs' \in [DOMAIN jobs' -> Row]
      /\ jobs'[j] = row /\ \A k \in DOMAIN jobs : jobs'[k] = jobs[k]
  <2>1. jobs \in [DOMAIN jobs -> Row] /\ jobs' = Store(jobs, j, row) /\ j \notin DOMAIN jobs
    BY <1>2 DEF IInv, TypeOK, RecordsTypeOK
  <2>2. QED
    BY <1>1, <2>1 DEF Store
<1>4. key_of' \in [DOMAIN jobs' -> Key \cup {None}]
  <2>1. key_of \in [DOMAIN jobs -> Key \cup {None}] /\ key_of' = Store(key_of, j, key)
    BY <1>2 DEF IInv, TypeOK, RecordsTypeOK
  <2>2. QED
    BY <1>3, <2>1 DEF Store
<1>5. idempotency' \in [DOMAIN idempotency' -> DOMAIN jobs'] /\ DOMAIN idempotency' \subseteq Key
  <2>1. CASE UNCHANGED idempotency
    BY <1>3, <2>1 DEF IInv, TypeOK, RecordsTypeOK
  <2>2. CASE key # None /\ idempotency' = Store(idempotency, key, j)
    <3>1. idempotency \in [DOMAIN idempotency -> DOMAIN jobs'] /\ j \in DOMAIN jobs'
      BY <1>3 DEF IInv, TypeOK, RecordsTypeOK
    <3>2. QED
      BY <2>2, <3>1 DEF IInv, TypeOK, RecordsTypeOK, Store
  <2>3. QED
    BY <2>1, <2>2
<1>6. RecordsTypeOK'
  BY <1>3, <1>4, <1>5 DEF IInv, TypeOK, RecordsTypeOK
<1>7. /\ pc' \in [Thread -> PC] /\ job' \in [Thread -> JobId \cup {None}]
      /\ seen' \in [Thread -> Row \cup {None}]
      /\ \A u \in Thread : \/ pc'[u] = "idle"
                           \/ pc'[u] = pc[u] /\ job'[u] = job[u] /\ seen'[u] = seen[u]
  BY DEF IInv, TypeOK, ThreadsTypeOK, threads, Return, Go, PC
<1>8. ThreadsTypeOK'
  BY <1>3, <1>7 DEF IInv, TypeOK, ThreadsTypeOK, Inside
<1>9. ASSUME NEW u \in Thread PROVE StageOK(u)'
  <2>1. CASE pc'[u] = "idle"
    BY <2>1 DEF StageOK, Inside
  <2>2. CASE pc'[u] # "idle"
    <3>1. job[u] \in DOMAIN jobs /\ jobs'[job'[u]] = jobs[job[u]]
      BY <1>3, <1>7, <2>2 DEF IInv, TypeOK, ThreadsTypeOK
    <3>2. QED
      BY <1>7, <2>2, <3>1 DEF IInv, StageOK
  <2>3. QED
    BY <2>1, <2>2
<1>10. Alone'
  BY <1>7 DEF IInv, Alone, Busy, Executing
<1>11. RecordsOK'
  BY <1>1, <1>3, MemoryAssumption DEF IInv, RecordsOK, RecordOK
<1>12. ProcessedWhenEnded'
  BY <1>1, <1>3 DEF IInv, ProcessedWhenEnded, Terminal
<1>13. OneDeadLetter'
  BY <1>3 DEF IInv, OneDeadLetter
<1>14. QED
  BY <1>6, <1>8, <1>9, <1>10, <1>11, <1>12, <1>13 DEF IInv, TypeOK

LEMMA PublishInv ==
    ASSUME IInv, NEW t \in Thread, PublishDeadLetter(t)
    PROVE  IInv'
<1> USE DEF records
<1>1. /\ pc[t] = "dead_letter" /\ job[t] \in DOMAIN jobs /\ jobs[job[t]].status = "dead_lettered"
      /\ dead_letters[job[t]] = 0
  BY DEF PublishDeadLetter, IInv, TypeOK, ThreadsTypeOK, StageOK
<1>2. /\ pc' \in [Thread -> PC] /\ job' \in [Thread -> JobId \cup {None}]
      /\ seen' \in [Thread -> Row \cup {None}]
      /\ pc'[t] = "idle"
      /\ \A u \in Thread \ {t} : pc'[u] = pc[u] /\ job'[u] = job[u] /\ seen'[u] = seen[u]
  BY DEF IInv, TypeOK, ThreadsTypeOK, PublishDeadLetter, Return, Go, PC
<1>3. /\ dead_letters' \in [JobId -> Nat] /\ dead_letters'[job[t]] \in {0, 1}
      /\ \A k \in JobId : k # job[t] => dead_letters'[k] = dead_letters[k]
  BY <1>1 DEF PublishDeadLetter, IInv, TypeOK, RecordsTypeOK
<1>4. TypeOK'
  BY <1>2, <1>3 DEF PublishDeadLetter, IInv, TypeOK, RecordsTypeOK, ThreadsTypeOK, Inside
<1>5. ASSUME NEW u \in Thread PROVE StageOK(u)'
  <2>1. CASE u = t
    BY <1>2, <2>1 DEF StageOK, Inside
  <2>2. CASE u # t
    <3>1. pc[u] = "dead_letter" => job[u] # job[t] /\ job[u] \in JobId
      BY <1>1, <2>2 DEF IInv, Alone, Busy, TypeOK, RecordsTypeOK, ThreadsTypeOK
    <3>2. QED
      BY <1>2, <1>3, <2>2, <3>1 DEF PublishDeadLetter, IInv, StageOK
  <2>3. QED
    BY <2>1, <2>2
<1>6. Alone'
  BY <1>2 DEF IInv, Alone, Busy, Executing
<1>7. RecordsOK' /\ ProcessedWhenEnded'
  BY DEF PublishDeadLetter, IInv, RecordsOK, RecordOK, ProcessedWhenEnded
<1>8. OneDeadLetter'
  BY <1>1, <1>3 DEF PublishDeadLetter, IInv, OneDeadLetter, TypeOK, RecordsTypeOK
<1>9. QED
  BY <1>4, <1>5, <1>6, <1>7, <1>8 DEF IInv

LEMMA QuietInv ==
    ASSUME IInv, UNCHANGED <<records, lock, threads, dead_letters>>,
           due' \in SUBSET JobId, drain_enabled' \in BOOLEAN
    PROVE  IInv'
BY DEF IInv, records, threads, TypeOK, RecordsTypeOK, ThreadsTypeOK, StageOK, Alone, RecordsOK,
       RecordOK, ProcessedWhenEnded, OneDeadLetter

\* create_next_recurring_job takes no lock, and needs none.
LEMMA RecurringInv ==
    ASSUME IInv, NEW t \in Thread, CreateNextRecurring(t)
    PROVE  IInv'
<1>1. pc[t] = "recurring" /\ Return(t) /\ job[t] \in DOMAIN jobs
  BY DEF CreateNextRecurring, IInv, TypeOK, ThreadsTypeOK
<1>2. CASE UNCHANGED records
  <2>1. /\ pc' \in [Thread -> PC] /\ job' \in [Thread -> JobId \cup {None}]
        /\ seen' \in [Thread -> Row \cup {None}]
        /\ pc'[t] = "idle"
        /\ \A u \in Thread \ {t} : pc'[u] = pc[u] /\ job'[u] = job[u] /\ seen'[u] = seen[u]
    BY <1>1 DEF IInv, TypeOK, ThreadsTypeOK, Return, Go, PC
  <2>2. UNCHANGED <<jobs, key_of, idempotency, due, drain_enabled, lock, dead_letters>>
    BY <1>2 DEF records, CreateNextRecurring
  <2>3. TypeOK'
    BY <2>1, <2>2 DEF IInv, TypeOK, RecordsTypeOK, ThreadsTypeOK, Inside
  <2>4. ASSUME NEW u \in Thread PROVE StageOK(u)'
    <3>1. CASE u = t
      BY <2>1, <3>1 DEF StageOK, Inside
    <3>2. CASE u # t
      BY <2>1, <2>2, <3>2 DEF IInv, StageOK
    <3>3. QED
      BY <3>1, <3>2
  <2>5. Alone'
    BY <2>1 DEF IInv, Alone, Busy, Executing
  <2>6. RecordsOK' /\ ProcessedWhenEnded' /\ OneDeadLetter'
    BY <2>2 DEF IInv, RecordsOK, RecordOK, ProcessedWhenEnded, OneDeadLetter
  <2>7. QED
    BY <2>3, <2>4, <2>5, <2>6 DEF IInv
<1>3. ASSUME NEW j \in JobId, NEW cron \in CronKind, UNCHANGED idempotency,
             Insert(j, jobs[job[t]].max_retries, cron, None)
      PROVE  IInv'
  <2>1. jobs[job[t]].max_retries \in RetryLimit
    BY <1>1 DEF IInv, RecordsOK, RecordOK
  <2>2. due' \in SUBSET JobId /\ UNCHANGED <<drain_enabled, lock, dead_letters>>
    BY DEF CreateNextRecurring, IInv, TypeOK, RecordsTypeOK
  <2>3. QED
    BY <1>1, <1>3, <2>1, <2>2, InsertInv
<1>4. QED
  BY <1>2, <1>3 DEF CreateNextRecurring

-----------------------------------------------------------------------------
(* Reading and replacing: the operations that hold the lock.               *)

LEMMA ReadInv ==
    ASSUME IInv, NEW t \in Thread,
           \/ \E j \in JobId : ClaimRead(t, j) \/ CancelRead(t, j)
           \/ MarkSucceededRead(t) \/ MarkFailedRead(t)
    PROVE  IInv'
<1>1. ASSUME NEW j \in JobId, ClaimRead(t, j) PROVE IInv'
  BY <1>1, EnterInv DEF ClaimRead, Inside
<1>2. ASSUME NEW j \in JobId, CancelRead(t, j) PROVE IInv'
  BY <1>2, EnterInv DEF CancelRead, Inside
<1>3. pc[t] # "idle" => job[t] \in DOMAIN jobs
  BY DEF IInv, TypeOK, ThreadsTypeOK
<1>4. CASE MarkSucceededRead(t)
  BY <1>3, <1>4, EnterInv DEF MarkSucceededRead, Inside
<1>5. CASE MarkFailedRead(t)
  BY <1>3, <1>5, EnterInv DEF MarkFailedRead, Inside
<1>6. QED
  BY <1>1, <1>2, <1>4, <1>5

\* What a thread that holds the lock has read is the record as it is.
LEMMA Fresh ==
    ASSUME IInv, NEW t \in Thread, pc[t] \in Inside
    PROVE  /\ job[t] \in DOMAIN jobs /\ seen[t] = jobs[job[t]] /\ seen[t] \in Row
           /\ seen[t].attempt_count \in Nat /\ seen[t].max_retries \in Nat
           /\ RecordOK(job[t])
           /\ seen[t].processed <=> seen[t].status \in Terminal
           /\ due \in SUBSET JobId
<1>1. /\ job[t] \in DOMAIN jobs /\ seen[t] = jobs[job[t]] /\ seen[t] \in Row
      /\ due \in SUBSET JobId
  BY DEF IInv, TypeOK, RecordsTypeOK, ThreadsTypeOK, StageOK, Inside
<1>2. QED
  BY <1>1, RowColumns DEF IInv, RecordsOK, ProcessedWhenEnded

LEMMA ClaimWriteInv ==
    ASSUME IInv, NEW t \in Thread, ClaimWrite(t)
    PROVE  IInv'
<1> DEFINE row == Claimed(seen[t])
<1>1. pc[t] \in Inside /\ Replace(t, row) /\ Go(t, "running")
      /\ UNCHANGED <<due, job, drain_enabled, dead_letters>>
  BY DEF ClaimWrite, Inside
<1>2. seen[t].status \in Pending
  BY <1>1, Fresh DEF IInv, StageOK, ClaimWrite
<1>3. /\ row \in Row /\ row.status = "running" /\ row.attempt_count = seen[t].attempt_count + 1
      /\ row.max_retries = seen[t].max_retries
  BY <1>1, Fresh, ClaimedColumns
<1>4. row.cron = seen[t].cron /\ row.processed = seen[t].processed
  BY <1>1, Fresh, ClaimedFlags
<1> HIDE DEF row
<1>5. row.attempt_count <= row.max_retries + 1
  BY <1>1, <1>2, <1>3, Fresh DEF RecordOK
<1>6. row.processed <=> row.status \in Terminal
  BY <1>1, <1>2, <1>3, <1>4, Fresh DEF Pending, Terminal
<1>7. jobs[job[t]].status # "dead_lettered" /\ row.status \notin Pending
  BY <1>1, <1>2, <1>3, Fresh DEF Pending
<1>8. due' \in SUBSET JobId
  BY <1>1, Fresh
<1>9. QED
  BY <1>1, <1>3, <1>4, <1>5, <1>6, <1>7, <1>8, ReplaceInv

LEMMA SucceededWriteInv ==
    ASSUME IInv, NEW t \in Thread, MarkSucceededWrite(t)
    PROVE  IInv'
<1> DEFINE row == Succeeded(seen[t])
<1>1. pc[t] \in Inside /\ Replace(t, row) /\ Go(t, "recurring")
      /\ UNCHANGED <<due, job, drain_enabled, dead_letters>>
  BY DEF MarkSucceededWrite, Inside
<1>2. seen[t].status = "running"
  BY <1>1, Fresh DEF IInv, StageOK, MarkSucceededWrite
<1>3. /\ row \in Row /\ row.status = "succeeded" /\ row.attempt_count = seen[t].attempt_count
      /\ row.max_retries = seen[t].max_retries
  BY <1>1, Fresh, SucceededColumns
<1>4. row.cron = seen[t].cron /\ row.processed = TRUE
  BY <1>1, Fresh, SucceededFlags
<1> HIDE DEF row
<1>5. row.attempt_count <= row.max_retries + 1
  BY <1>1, <1>3, Fresh DEF RecordOK
<1>6. /\ row.processed <=> row.status \in Terminal
      /\ jobs[job[t]].status # "dead_lettered" /\ row.status \notin Pending
  BY <1>1, <1>2, <1>3, <1>4, Fresh DEF Terminal, Pending
<1>7. due' \in SUBSET JobId
  BY <1>1, Fresh
<1>8. QED
  BY <1>1, <1>3, <1>4, <1>5, <1>6, <1>7, ReplaceInv

LEMMA CancelWriteInv ==
    ASSUME IInv, NEW t \in Thread, CancelWrite(t)
    PROVE  IInv'
<1> DEFINE row == Cancelled(seen[t])
<1>1. /\ pc[t] \in Inside /\ Replace(t, row) /\ Go(t, "idle")
      /\ job' = [job EXCEPT ![t] = None]
      /\ UNCHANGED <<due, drain_enabled, dead_letters>>
  BY DEF CancelWrite, Return, Inside
<1>2. seen[t].status \in Pending
  BY <1>1, Fresh DEF IInv, StageOK, CancelWrite
<1>3. /\ row \in Row /\ row.status = "cancelled" /\ row.attempt_count = seen[t].attempt_count
      /\ row.max_retries = seen[t].max_retries
  BY <1>1, Fresh, CancelledColumns
<1>4. row.cron = seen[t].cron /\ row.processed = TRUE
  BY <1>1, Fresh, CancelledFlags
<1> HIDE DEF row
<1>5. row.attempt_count <= row.max_retries + 1
  BY <1>1, <1>3, Fresh DEF RecordOK
<1>6. /\ row.processed <=> row.status \in Terminal
      /\ jobs[job[t]].status # "dead_lettered" /\ row.status \notin Pending
  BY <1>1, <1>2, <1>3, <1>4, Fresh DEF Terminal, Pending
<1>7. due' \in SUBSET JobId
  BY <1>1, Fresh
<1>8. QED
  BY <1>1, <1>3, <1>4, <1>5, <1>6, <1>7, ReplaceInv

LEMMA FailedWriteInv ==
    ASSUME IInv, NEW t \in Thread, MarkFailedWrite(t)
    PROVE  IInv'
<1> DEFINE row == MemoryFailed(seen[t])
           stage == IF Exhausted(seen[t]) THEN "dead_letter" ELSE "idle"
<1>1. /\ pc[t] \in Inside /\ Replace(t, row) /\ due' = due \ {job[t]}
      /\ UNCHANGED <<drain_enabled, dead_letters>>
  BY DEF MarkFailedWrite, Inside
<1>2. /\ stage \in {"dead_letter", "idle"} /\ Go(t, stage)
      /\ UNCHANGED job \/ (stage = "idle" /\ job' = [job EXCEPT ![t] = None])
      /\ stage = "dead_letter" <=> Exhausted(seen[t])
  BY DEF MarkFailedWrite, Return
<1>3. seen[t].status \in {"running", "succeeded"}
  BY <1>1, Fresh DEF IInv, StageOK, MarkFailedWrite
<1>4. /\ row \in Row
      /\ row.status = IF Exhausted(seen[t]) THEN "dead_lettered" ELSE "failed"
      /\ row.attempt_count = seen[t].attempt_count /\ row.max_retries = seen[t].max_retries
      /\ row.cron = seen[t].cron /\ row.processed = Exhausted(seen[t])
  BY <1>1, Fresh, MemoryFailedColumns
<1> HIDE DEF row, stage
<1>5. /\ row.attempt_count <= row.max_retries + 1
      /\ row.status \in Pending => row.attempt_count <= row.max_retries
  BY <1>1, <1>4, Fresh DEF RecordOK, Exhausted, Pending
<1>6. row.processed <=> row.status \in Terminal
  BY <1>4 DEF Terminal
<1>7. /\ jobs[job[t]].status # "dead_lettered"
      /\ stage = "dead_letter" => row.status = "dead_lettered"
  BY <1>1, <1>2, <1>3, <1>4, Fresh
<1>8. due' \in SUBSET JobId
  BY <1>1, Fresh
<1>9. QED
  BY <1>1, <1>2, <1>4, <1>5, <1>6, <1>7, <1>8, ReplaceInv

-----------------------------------------------------------------------------
LEMMA NextInv == IInv /\ [Next]_vars => IInv'
<1> SUFFICES ASSUME IInv, [Next]_vars PROVE IInv'
  OBVIOUS
<1>1. due \in SUBSET JobId /\ drain_enabled \in BOOLEAN
  BY DEF IInv, TypeOK, RecordsTypeOK, ThreadsTypeOK
<1>2. ASSUME NEW j \in JobId, NEW retries \in RetryLimit, NEW cron \in CronKind,
             NEW key \in Key \cup {None}, NEW delayed \in BOOLEAN,
             CreateJob(j, retries, cron, key, delayed)
      PROVE  IInv'
  BY <1>1, <1>2, InsertInv DEF CreateJob
<1>3. ASSUME NEW j \in JobId, BecomeDue(j) PROVE IInv'
  BY <1>1, <1>3, QuietInv DEF BecomeDue
<1>4. ASSUME NEW t \in Thread, ProcessJob(t) PROVE IInv'
  <2>1. CASE (\E j \in JobId : ClaimRead(t, j)) \/ MarkSucceededRead(t) \/ MarkFailedRead(t)
    BY <2>1, ReadInv
  <2>2. CASE ClaimWrite(t)
    BY <2>2, ClaimWriteInv
  <2>3. CASE MarkSucceededWrite(t)
    BY <2>3, SucceededWriteInv
  <2>4. CASE CreateNextRecurring(t)
    BY <2>4, RecurringInv
  <2>5. CASE MarkFailedWrite(t)
    BY <2>5, FailedWriteInv
  <2>6. CASE PublishDeadLetter(t)
    BY <2>6, PublishInv
  <2>7. QED
    BY <1>4, <2>1, <2>2, <2>3, <2>4, <2>5, <2>6 DEF ProcessJob
<1>5. ASSUME NEW t \in Thread, NEW j \in JobId, CancelRead(t, j) PROVE IInv'
  BY <1>5, ReadInv
<1>6. ASSUME NEW t \in Thread, CancelWrite(t) PROVE IInv'
  BY <1>6, CancelWriteInv
<1>7. ASSUME NEW enabled \in BOOLEAN, SetDrain(enabled) PROVE IInv'
  BY <1>1, <1>7, QuietInv DEF SetDrain
<1>8. CASE UNCHANGED vars
  BY <1>1, <1>8, QuietInv DEF vars
<1>9. QED
  BY <1>2, <1>3, <1>4, <1>5, <1>6, <1>7, <1>8 DEF Next

LEMMA MemoryInvariant == Spec => []IInv
<1>1. QED
  BY InitInv, NextInv, PTL DEF Spec

\* A thread between reading and replacing a record is the one that holds the
\* lock, and everything has its type.
THEOREM MemoryTypeCorrect == Spec => []TypeOK
<1>1. IInv => TypeOK
  BY DEF IInv
<1>2. QED
  BY <1>1, MemoryInvariant, PTL

\* processed_at is set exactly for the jobs that have ended, schedules without a
\* next run included.
THEOREM ProcessedExactly == Spec => []ProcessedWhenEnded
<1>1. IInv => ProcessedWhenEnded
  BY DEF IInv
<1>2. QED
  BY <1>1, MemoryInvariant, PTL

\* No job is reported dead twice, and none that is not dead for good.
THEOREM DeadLettersOnce == Spec => []OneDeadLetter
<1>1. IInv => OneDeadLetter
  BY DEF IInv
<1>2. QED
  BY <1>1, MemoryInvariant, PTL

-----------------------------------------------------------------------------
(* Idempotency keys.                                                       *)

LEMMA InsertKey ==
    ASSUME TypeOK, OneJobPerKey, NEW j, NEW retries, NEW cron, NEW key \in Key \cup {None},
           Insert(j, retries, cron, key),
           \/ key = None /\ UNCHANGED idempotency
           \/ /\ key # None /\ key \notin DOMAIN idempotency
              /\ idempotency' = Store(idempotency, key, j)
    PROVE  OneJobPerKey'
<1>1. /\ DOMAIN jobs' = DOMAIN jobs \cup {j}
      /\ key_of'[j] = key /\ \A k \in DOMAIN jobs : key_of'[k] = key_of[k]
  BY DEF TypeOK, RecordsTypeOK, Insert, Store
<1>2. CASE key = None /\ UNCHANGED idempotency
  BY <1>1, <1>2 DEF OneJobPerKey
<1>3. CASE key # None /\ key \notin DOMAIN idempotency /\ idempotency' = Store(idempotency, key, j)
  <2>1. /\ DOMAIN idempotency' = DOMAIN idempotency \cup {key} /\ idempotency'[key] = j
        /\ \A k \in DOMAIN idempotency : idempotency'[k] = idempotency[k]
    BY <1>3 DEF Store
  <2>2. QED
    BY <1>1, <2>1 DEF OneJobPerKey
<1>4. QED
  BY <1>2, <1>3

LEMMA KeyNext == TypeOK /\ OneJobPerKey /\ [Next]_vars => OneJobPerKey'
<1> SUFFICES ASSUME TypeOK, OneJobPerKey, [Next]_vars PROVE OneJobPerKey'
  OBVIOUS
<1>1. CASE UNCHANGED <<DOMAIN jobs, key_of, idempotency>>
  BY <1>1 DEF OneJobPerKey
<1>2. ASSUME NEW j \in JobId, NEW retries \in RetryLimit, NEW cron \in CronKind,
             NEW key \in Key \cup {None}, NEW delayed \in BOOLEAN,
             CreateJob(j, retries, cron, key, delayed)
      PROVE  OneJobPerKey'
  BY <1>2, InsertKey DEF CreateJob
<1>3. ASSUME NEW j \in JobId, BecomeDue(j) PROVE OneJobPerKey'
  BY <1>1, <1>3 DEF BecomeDue, records
<1>4. ASSUME NEW t \in Thread, ProcessJob(t) PROVE OneJobPerKey'
  <2>1. CASE CreateNextRecurring(t)
    <3>1. CASE UNCHANGED records
      BY <1>1, <3>1 DEF records
    <3>2. ASSUME NEW j \in JobId, NEW cron \in CronKind, UNCHANGED idempotency,
                 Insert(j, jobs[job[t]].max_retries, cron, None)
          PROVE  OneJobPerKey'
      BY <3>2, InsertKey
    <3>3. QED
      BY <2>1, <3>1, <3>2 DEF CreateNextRecurring
  <2>2. CASE ClaimWrite(t) \/ MarkSucceededWrite(t) \/ MarkFailedWrite(t)
    BY <1>1, <2>2 DEF ClaimWrite, MarkSucceededWrite, MarkFailedWrite, Replace
  <2>3. CASE (\E j \in JobId : ClaimRead(t, j)) \/ MarkSucceededRead(t) \/ MarkFailedRead(t)
             \/ PublishDeadLetter(t)
    BY <1>1, <2>3 DEF ClaimRead, MarkSucceededRead, MarkFailedRead, PublishDeadLetter, records
  <2>4. QED
    BY <1>4, <2>1, <2>2, <2>3 DEF ProcessJob
<1>5. ASSUME NEW t \in Thread, (\E j \in JobId : CancelRead(t, j)) \/ CancelWrite(t)
      PROVE  OneJobPerKey'
  BY <1>1, <1>5 DEF CancelRead, CancelWrite, Replace, records
<1>6. ASSUME NEW enabled \in BOOLEAN, SetDrain(enabled) PROVE OneJobPerKey'
  BY <1>1, <1>6 DEF SetDrain, records
<1>7. CASE UNCHANGED vars
  BY <1>1, <1>7 DEF vars, records
<1>8. QED
  BY <1>2, <1>3, <1>4, <1>5, <1>6, <1>7 DEF Next

\* An idempotency key names one job, whatever is created concurrently and
\* whatever recurrences descend from it.
THEOREM KeysNameOneJob == Spec => []OneJobPerKey
<1>1. QED
  BY InitInv, KeyNext, MemoryTypeCorrect, PTL DEF Spec

-----------------------------------------------------------------------------
(* The refinement.                                                         *)

\* What JobLifecycle sees of the records.
Views == [j \in DOMAIN jobs |-> View(jobs[j])]

LEMMA ViewsType == TypeOK => Views \in [DOMAIN jobs -> ViewType]
<1> SUFFICES ASSUME TypeOK, NEW j \in DOMAIN jobs PROVE View(jobs[j]) \in ViewType
  BY DEF Views
<1>1. jobs[j] \in Row
  BY DEF TypeOK, RecordsTypeOK
<1>2. QED
  BY <1>1, RowColumns DEF View, ViewType

\* One record is replaced, and JobLifecycle sees that one change.
LEMMA ReplaceView ==
    ASSUME IInv, NEW t \in Thread, pc[t] \in Inside, NEW row, Replace(t, row)
    PROVE  /\ job[t] \in DOMAIN jobs /\ Views[job[t]] = View(seen[t])
           /\ Views' = With(Views, job[t], View(row))
<1>1. job[t] \in DOMAIN jobs /\ seen[t] = jobs[job[t]]
  BY Fresh
<1>2. jobs' = [jobs EXCEPT ![job[t]] = row]
  BY DEF Replace
<1>3. QED
  BY <1>1, <1>2 DEF Views, With

\* A record is added, and JobLifecycle sees a submission.
LEMMA InsertView ==
    ASSUME IInv, NEW j \in JobId, NEW retries \in RetryLimit, NEW cron, NEW key,
           Insert(j, retries, cron, key)
    PROVE  Lifecycle!Submit(j)
<1>1. /\ j \notin DOMAIN jobs /\ DOMAIN jobs' = DOMAIN jobs \cup {j}
      /\ jobs'[j] = NewRow(retries, cron) /\ \A k \in DOMAIN jobs : jobs'[k] = jobs[k]
  BY DEF Insert, Store
<1>2. View(NewRow(retries, cron))
        = [status |-> "queued", attempt_count |-> 0, max_retries |-> retries]
  BY DEF View, NewRow
<1>3. Views' = [k \in DOMAIN Views \cup {j} |-> IF k \in DOMAIN Views THEN Views[k]
                  ELSE [status |-> "queued", attempt_count |-> 0, max_retries |-> retries]]
  BY <1>1, <1>2 DEF Views
<1>4. j \notin DOMAIN Views
  BY <1>1 DEF Views
<1>5. QED
  BY <1>3, <1>4 DEF Lifecycle!Submit, Views, View

LEMMA LifecycleStep ==
    ASSUME IInv, [Next]_vars
    PROVE  [Lifecycle!Next]_Views
<1>1. ASSUME UNCHANGED jobs PROVE UNCHANGED Views
  BY <1>1 DEF Views
<1>2. ASSUME NEW j \in JobId, NEW retries \in RetryLimit, NEW cron \in CronKind,
             NEW key \in Key \cup {None}, NEW delayed \in BOOLEAN,
             CreateJob(j, retries, cron, key, delayed)
      PROVE  Lifecycle!Next
  BY <1>2, InsertView DEF CreateJob, Lifecycle!Next
<1>3. ASSUME NEW t \in Thread, CreateNextRecurring(t) PROVE [Lifecycle!Next]_Views
  <2>1. jobs[job[t]].max_retries \in RetryLimit
    BY <1>3 DEF CreateNextRecurring, IInv, TypeOK, ThreadsTypeOK, RecordsOK, RecordOK
  <2>2. QED
    BY <1>1, <1>3, <2>1, InsertView DEF CreateNextRecurring, records, Lifecycle!Next
<1>4. ASSUME NEW t \in Thread, NEW j, j = job[t], pc[t] \in Inside, NEW row \in Row,
             Replace(t, row), row.max_retries = seen[t].max_retries
      PROVE  /\ Views[j].status = seen[t].status
             /\ Views[j].attempt_count = seen[t].attempt_count
             /\ Views[j].max_retries = seen[t].max_retries
             /\ Views' = WithCount(Views, j, row.status, row.attempt_count)
             /\ row.attempt_count = seen[t].attempt_count =>
                   Views' = WithStatus(Views, j, row.status)
  <2>1. j \in DOMAIN jobs /\ Views[j] = View(seen[t]) /\ Views' = With(Views, j, View(row))
    BY <1>4, ReplaceView
  <2>2. View(row) \in ViewType /\ Views \in [DOMAIN jobs -> ViewType]
    BY <1>4, RowColumns, ViewsType DEF IInv, View, ViewType
  <2>3. /\ View(row).status = row.status /\ View(row).attempt_count = row.attempt_count
        /\ View(row).max_retries = row.max_retries
        /\ Views[j].status = seen[t].status /\ Views[j].attempt_count = seen[t].attempt_count
        /\ Views[j].max_retries = seen[t].max_retries
    BY <2>1 DEF View
  <2> DEFINE view == View(row)
  <2>4. /\ Views' = WithCount(Views, j, view.status, view.attempt_count)
        /\ view.attempt_count = Views[j].attempt_count =>
              Views' = WithStatus(Views, j, view.status)
    <3>1. view.max_retries = Views[j].max_retries
      BY <1>4, <2>3
    <3>2. view \in ViewType /\ Views' = With(Views, j, view)
      BY <2>1, <2>2
    <3> HIDE DEF view
    <3>3. QED
      BY <2>1, <2>2, <3>1, <3>2, ExceptColumns
  <2>5. QED
    BY <2>3, <2>4
<1>5. ASSUME NEW t \in Thread, NEW j, j = job[t], ClaimWrite(t) PROVE Lifecycle!Start(j)
  <2>1. pc[t] \in Inside /\ Replace(t, Claimed(seen[t])) /\ seen[t].status \in Pending
    BY <1>5, Fresh DEF ClaimWrite, Inside, IInv, StageOK
  <2>2. /\ Claimed(seen[t]) \in Row
        /\ Claimed(seen[t]).status = "running"
        /\ Claimed(seen[t]).attempt_count = seen[t].attempt_count + 1
        /\ Claimed(seen[t]).max_retries = seen[t].max_retries
    BY <2>1, Fresh, ClaimedColumns
  <2>3. /\ Views' = WithCount(Views, j, "running", Views[j].attempt_count + 1)
        /\ Views[j].status \in Pending
    BY <1>4, <1>5, <2>1, <2>2
  <2>4. QED
    BY <2>3 DEF Lifecycle!Start, Lifecycle!Waiting, Lifecycle!Overwritten, Pending, Views, View, WithCount
<1>6. ASSUME NEW t \in Thread, NEW j, j = job[t], MarkSucceededWrite(t)
      PROVE  Lifecycle!Succeed(j)
  <2>1. pc[t] \in Inside /\ Replace(t, Succeeded(seen[t])) /\ seen[t].status = "running"
    BY <1>6, Fresh DEF MarkSucceededWrite, Inside, IInv, StageOK
  <2>2. /\ Succeeded(seen[t]) \in Row
        /\ Succeeded(seen[t]).status = "succeeded"
        /\ Succeeded(seen[t]).attempt_count = seen[t].attempt_count
        /\ Succeeded(seen[t]).max_retries = seen[t].max_retries
    BY <2>1, Fresh, SucceededColumns
  <2>3. Views' = WithStatus(Views, j, "succeeded") /\ Views[j].status = "running"
    BY <1>4, <1>6, <2>1, <2>2
  <2>4. QED
    BY <2>3 DEF Lifecycle!Succeed, Lifecycle!Overwritten, Lifecycle!Finish, Views, View, WithStatus
<1>7. ASSUME NEW t \in Thread, NEW j, j = job[t], MarkFailedWrite(t)
      PROVE  Lifecycle!Retry(j) \/ Lifecycle!Bury(j)
  <2>1. /\ pc[t] \in Inside /\ Replace(t, MemoryFailed(seen[t]))
        /\ \/ seen[t].status = "running"
           \/ seen[t].status = "succeeded" /\ "impossible" \in CronKind
    BY <1>7, Fresh DEF MarkFailedWrite, Inside, IInv, StageOK, RecordOK
  <2>2. /\ seen[t].attempt_count \in Nat /\ seen[t].max_retries \in Nat
        /\ seen[t].attempt_count <= seen[t].max_retries + 1
    BY <2>1, Fresh DEF RecordOK
  <2>3. /\ MemoryFailed(seen[t]) \in Row
        /\ MemoryFailed(seen[t]).status = IF Exhausted(seen[t]) THEN "dead_lettered" ELSE "failed"
        /\ MemoryFailed(seen[t]).attempt_count = seen[t].attempt_count
        /\ MemoryFailed(seen[t]).max_retries = seen[t].max_retries
    BY <2>1, Fresh, MemoryFailedColumns
  <2>4. /\ \/ Views[j].status = "running"
           \/ Views[j].status = "succeeded" /\ "impossible" \in CronKind
        /\ Views[j].attempt_count = seen[t].attempt_count
        /\ Views[j].max_retries = seen[t].max_retries
        /\ Views' = WithStatus(Views, j, MemoryFailed(seen[t]).status)
    BY <1>4, <1>7, <2>1, <2>3
  <2>5. CASE Exhausted(seen[t])
    <3>1. Views' = WithStatus(Views, j, "dead_lettered")
      BY <2>3, <2>4, <2>5
    <3>2. Views[j].attempt_count = Views[j].max_retries + 1
      BY <2>2, <2>4, <2>5 DEF Exhausted
    <3>3. QED
      BY <2>4, <3>1, <3>2 DEF Lifecycle!Bury, Lifecycle!Fail, Lifecycle!Finish, Views, View, WithStatus
  <2>6. CASE ~Exhausted(seen[t])
    <3>1. Views' = WithStatus(Views, j, "failed")
      BY <2>3, <2>4, <2>6
    <3>2. Views[j].attempt_count <= Views[j].max_retries
      BY <2>2, <2>4, <2>6 DEF Exhausted
    <3>3. QED
      BY <2>4, <3>1, <3>2 DEF Lifecycle!Retry, Lifecycle!Fail, Lifecycle!Finish, Views, View, WithStatus
  <2>7. QED
    BY <2>5, <2>6
<1>8. ASSUME NEW t \in Thread, NEW j, j = job[t], CancelWrite(t) PROVE Lifecycle!Cancel(j)
  <2>1. pc[t] \in Inside /\ Replace(t, Cancelled(seen[t])) /\ seen[t].status \in Pending
    BY <1>8, Fresh DEF CancelWrite, Inside, IInv, StageOK
  <2>2. /\ Cancelled(seen[t]) \in Row
        /\ Cancelled(seen[t]).status = "cancelled"
        /\ Cancelled(seen[t]).attempt_count = seen[t].attempt_count
        /\ Cancelled(seen[t]).max_retries = seen[t].max_retries
    BY <2>1, Fresh, CancelledColumns
  <2>3. Views' = WithStatus(Views, j, "cancelled") /\ Views[j].status \in Pending
    BY <1>4, <1>8, <2>1, <2>2
  <2>4. QED
    BY <2>3 DEF Lifecycle!Cancel, Lifecycle!Finish, Lifecycle!Waiting, Pending, Views, View, WithStatus
<1>9. ASSUME NEW j \in DOMAIN jobs,
             \/ Lifecycle!Start(j) \/ Lifecycle!Succeed(j) \/ Lifecycle!Retry(j)
             \/ Lifecycle!Bury(j) \/ Lifecycle!Cancel(j)
      PROVE  Lifecycle!Next
  BY <1>9 DEF Lifecycle!Next
<1>10. ASSUME NEW t \in Thread,
              ClaimWrite(t) \/ MarkSucceededWrite(t) \/ MarkFailedWrite(t) \/ CancelWrite(t)
       PROVE  Lifecycle!Next
  <2>1. pc[t] \in Inside
    BY <1>10 DEF ClaimWrite, MarkSucceededWrite, MarkFailedWrite, CancelWrite, Inside
  <2>2. PICK j \in DOMAIN jobs : j = job[t]
    BY <2>1, Fresh
  <2>3. QED
    BY <1>5, <1>6, <1>7, <1>8, <1>9, <1>10, <2>2
<1>11. ASSUME NEW t \in Thread,
              \/ \E j \in JobId : ClaimRead(t, j) \/ CancelRead(t, j)
              \/ MarkSucceededRead(t) \/ MarkFailedRead(t) \/ PublishDeadLetter(t)
       PROVE  UNCHANGED jobs
  BY <1>11 DEF ClaimRead, CancelRead, MarkSucceededRead, MarkFailedRead, PublishDeadLetter, records
<1>12. ASSUME \/ \E j \in JobId : BecomeDue(j)
              \/ \E enabled \in BOOLEAN : SetDrain(enabled)
              \/ UNCHANGED vars
       PROVE  UNCHANGED jobs
  BY <1>12 DEF BecomeDue, SetDrain, vars, records
<1>13. QED
  BY <1>1, <1>2, <1>3, <1>10, <1>11, <1>12 DEF Next, ProcessJob

\* The records live the documented life of a job, cancellations included:
\* because of the lock, an operation of several steps is one step of
\* JobLifecycle.  Only a schedule without a next run adds to it a success that is
\* recorded as a failure after all.
THEOREM MemoryImplementsLifecycle == Spec => ImplementsLifecycle
<1>1. Init => Lifecycle!Init
  BY EmptyTable DEF Init, Lifecycle!Init
<1>2. IInv /\ [Next]_vars => [Lifecycle!Next]_Views
  BY LifecycleStep
<1>3. QED
  BY <1>1, <1>2, MemoryInvariant, PTL DEF Spec, ImplementsLifecycle, Lifecycle!Spec, Views, View
=============================================================================
