------------------------------- MODULE JobRow -------------------------------
(***************************************************************************)
(* A row of the jobs table, what each repository operation assigns to it,  *)
(* and what an ORM session writes back at commit.                          *)
(*                                                                         *)
(* Timestamps are kept only as far as the code tests them: locked and      *)
(* processed say that locked_at / locked_by and processed_at are not NULL, *)
(* result that the result column is not NULL.  next_run_at <= now is not a *)
(* property of the row but of the row and the clock, so it is kept by the  *)
(* modules that use rows.                                                  *)
(***************************************************************************)
EXTENDS Integers

Pending == {"queued", "failed"}
Terminal == {"succeeded", "dead_lettered", "cancelled"}
JobStatus == Pending \cup {"running"} \cup Terminal
AttemptStatus == {"running", "succeeded", "failed"}

\* recurring_cron: absent, or a schedule that has, or has not, a run in the year
\* after the job's success.  Module Cron says which schedules have one.
Cron == {"none", "valid", "impossible"}

Row == [status : JobStatus, attempt_count : Nat, max_retries : Nat, cron : Cron,
        locked : BOOLEAN, result : BOOLEAN, processed : BOOLEAN]

NewRow(retries, cron) ==
    [status |-> "queued", attempt_count |-> 0, max_retries |-> retries, cron |-> cron,
     locked |-> FALSE, result |-> FALSE, processed |-> FALSE]

Claimed(row) ==
    [row EXCEPT !.status = "running", !.locked = TRUE, !.attempt_count = @ + 1]

Succeeded(row) ==
    [row EXCEPT !.status = "succeeded", !.result = TRUE, !.locked = FALSE,
                !.processed = TRUE]

\* Mutations of Exhausted: one attempt too many, one too few.
ExhaustedLate(row) == row.attempt_count > row.max_retries + 1
ExhaustedEarly(row) == row.attempt_count >= row.max_retries

Exhausted(row) == row.attempt_count > row.max_retries

FailedAttempt(row) ==
    [row EXCEPT !.status = IF Exhausted(row) THEN "dead_lettered" ELSE "failed",
                !.locked = FALSE,
                !.processed = @ \/ Exhausted(row)]

Cancelled(row) == [row EXCEPT !.status = "cancelled", !.processed = TRUE]

\* The UPDATE a session emits at commit names only the columns whose value
\* differs from the one it loaded; the others keep what the table now holds.
Flush(row, loaded, new) ==
    [column \in DOMAIN row |->
        IF new[column] # loaded[column] THEN new[column] ELSE row[column]]

\* INSERT into, or UPDATE of, a table kept as a function of its key.
Store(table, key, value) ==
    [k \in DOMAIN table \cup {key} |-> IF k = key THEN value ELSE table[k]]
=============================================================================
