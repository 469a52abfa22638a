---------------------------- MODULE JobRowProofs ----------------------------
(***************************************************************************)
(* What the operators of JobRow return.  The proofs about repositories     *)
(* know a row by these lemmas only.                                        *)
(***************************************************************************)
EXTENDS JobRow, TLAPS

\* The columns of a row have their types.
LEMMA RowColumns ==
    ASSUME NEW row \in Row
    PROVE  /\ row.status \in JobStatus
           /\ row.attempt_count \in Nat
           /\ row.max_retries \in Nat
           /\ row.cron \in Cron
  BY DEF Row

LEMMA NewRowColumns ==
    ASSUME NEW retries \in Nat, NEW cron \in Cron
    PROVE  /\ NewRow(retries, cron) \in Row
           /\ NewRow(retries, cron).status = "queued"
           /\ NewRow(retries, cron).attempt_count = 0
           /\ NewRow(retries, cron).max_retries = retries
  BY DEF Row, NewRow, JobStatus, Pending

\* What claim_job assigns.
LEMMA ClaimedColumns ==
    ASSUME NEW row \in Row
    PROVE  /\ Claimed(row) \in Row
           /\ Claimed(row).status = "running"
           /\ Claimed(row).attempt_count = row.attempt_count + 1
           /\ Claimed(row).max_retries = row.max_retries
<1> DEFINE count == row.attempt_count + 1
<1>1. count \in Nat
  BY DEF Row
<1>2. Claimed(row) = [row EXCEPT !.status = "running", !.locked = TRUE, !.attempt_count = count]
  BY DEF Claimed
<1> HIDE DEF count
<1>3. /\ Claimed(row) \in Row
      /\ Claimed(row).status = "running"
      /\ Claimed(row).attempt_count = count
      /\ Claimed(row).max_retries = row.max_retries
  BY <1>1, <1>2 DEF Row, JobStatus
<1>4. QED
  BY <1>3 DEF count

\* What mark_succeeded assigns.
LEMMA SucceededColumns ==
    ASSUME NEW row \in Row
    PROVE  /\ Succeeded(row) \in Row
           /\ Succeeded(row).status = "succeeded"
           /\ Succeeded(row).attempt_count = row.attempt_count
           /\ Succeeded(row).max_retries = row.max_retries
  BY DEF Row, Succeeded, JobStatus, Terminal

\* What mark_failed_attempt assigns.
LEMMA FailedAttemptColumns ==
    ASSUME NEW row \in Row
    PROVE  /\ FailedAttempt(row) \in Row
           /\ FailedAttempt(row).status = IF Exhausted(row) THEN "dead_lettered" ELSE "failed"
           /\ FailedAttempt(row).attempt_count = row.attempt_count
           /\ FailedAttempt(row).max_retries = row.max_retries
<1> DEFINE exhausted == Exhausted(row)
<1>1. exhausted \in BOOLEAN
  BY DEF Exhausted
<1>2. FailedAttempt(row) = [row EXCEPT !.status = IF exhausted THEN "dead_lettered" ELSE "failed",
                                      !.locked = FALSE,
                                      !.processed = @ \/ exhausted]
  BY DEF FailedAttempt
<1> HIDE DEF exhausted
<1>3. /\ FailedAttempt(row) \in Row
      /\ FailedAttempt(row).status = IF exhausted THEN "dead_lettered" ELSE "failed"
      /\ FailedAttempt(row).attempt_count = row.attempt_count
      /\ FailedAttempt(row).max_retries = row.max_retries
  BY <1>1, <1>2 DEF Row, JobStatus, Pending, Terminal
<1>4. QED
  BY <1>3 DEF exhausted

\* What cancel_job assigns.
LEMMA CancelledColumns ==
    ASSUME NEW row \in Row
    PROVE  /\ Cancelled(row) \in Row
           /\ Cancelled(row).status = "cancelled"
           /\ Cancelled(row).attempt_count = row.attempt_count
           /\ Cancelled(row).max_retries = row.max_retries
  BY DEF Row, Cancelled, JobStatus, Terminal

\* A flush writes a column exactly if the session changed it.
LEMMA FlushColumns ==
    ASSUME NEW row \in Row, NEW loaded \in Row, NEW new \in Row
    PROVE  /\ Flush(row, loaded, new) \in Row
           /\ Flush(row, loaded, new).status =
                IF new.status # loaded.status THEN new.status ELSE row.status
           /\ Flush(row, loaded, new).attempt_count =
                IF new.attempt_count # loaded.attempt_count THEN new.attempt_count
                ELSE row.attempt_count
           /\ Flush(row, loaded, new).max_retries =
                IF new.max_retries # loaded.max_retries THEN new.max_retries
                ELSE row.max_retries
  BY DEF Flush, Row

\* Storing a value under a key adds the key and keeps the other entries.
LEMMA StoreIsFunction ==
    ASSUME NEW S, NEW table, table \in [DOMAIN table -> S], NEW key, NEW value \in S
    PROVE  /\ DOMAIN Store(table, key, value) = DOMAIN table \cup {key}
           /\ Store(table, key, value) \in [DOMAIN table \cup {key} -> S]
           /\ Store(table, key, value)[key] = value
           /\ \A k \in DOMAIN table : k # key => Store(table, key, value)[k] = table[k]
  BY DEF Store

\* The empty tuple is the empty table.
LEMMA EmptyTable ==
    /\ DOMAIN << >> = {}
    /\ \A S : << >> \in [{} -> S]
  OBVIOUS

-----------------------------------------------------------------------------
(* The other columns.                                                      *)

LEMMA Flags ==
    ASSUME NEW row \in Row
    PROVE  row.locked \in BOOLEAN /\ row.result \in BOOLEAN /\ row.processed \in BOOLEAN
  BY DEF Row

LEMMA NewRowFlags ==
    ASSUME NEW retries, NEW cron
    PROVE  NewRow(retries, cron).cron = cron /\ NewRow(retries, cron).processed = FALSE
  BY DEF NewRow

LEMMA ClaimedFlags ==
    ASSUME NEW row \in Row
    PROVE  /\ Claimed(row).cron = row.cron
           /\ Claimed(row).result = row.result /\ Claimed(row).processed = row.processed
  BY DEF Row, Claimed

LEMMA SucceededFlags ==
    ASSUME NEW row \in Row
    PROVE  /\ Succeeded(row).cron = row.cron
           /\ Succeeded(row).result = TRUE
           /\ Succeeded(row).locked = FALSE
           /\ Succeeded(row).processed = TRUE
  BY DEF Row, Succeeded

LEMMA FailedFlags ==
    ASSUME NEW row \in Row
    PROVE  /\ FailedAttempt(row).cron = row.cron
           /\ FailedAttempt(row).result = row.result
           /\ FailedAttempt(row).locked = FALSE
           /\ FailedAttempt(row).processed = (row.processed \/ Exhausted(row))
  BY DEF Row, FailedAttempt, Exhausted

LEMMA CancelledFlags ==
    ASSUME NEW row \in Row
    PROVE  /\ Cancelled(row).cron = row.cron /\ Cancelled(row).locked = row.locked
           /\ Cancelled(row).result = row.result
           /\ Cancelled(row).processed = TRUE
  BY DEF Row, Cancelled

LEMMA FlushFlags ==
    ASSUME NEW row \in Row, NEW loaded \in Row, NEW new \in Row
    PROVE  /\ Flush(row, loaded, new).cron = IF new.cron # loaded.cron THEN new.cron ELSE row.cron
           /\ Flush(row, loaded, new).locked =
                IF new.locked # loaded.locked THEN new.locked ELSE row.locked
           /\ Flush(row, loaded, new).result =
                IF new.result # loaded.result THEN new.result ELSE row.result
           /\ Flush(row, loaded, new).processed =
                IF new.processed # loaded.processed THEN new.processed ELSE row.processed
  BY DEF Flush, Row

-----------------------------------------------------------------------------
(* What JobLifecycle sees of a row.                                        *)

\* What JobLifecycle sees of a row.
View(row) == [status |-> row.status, attempt_count |-> row.attempt_count,
              max_retries |-> row.max_retries]

ViewType == [status : JobStatus, attempt_count : Nat, max_retries : Nat]

\* Named, since the provers handle equations between names better than between
\* EXCEPT expressions.
With(views, j, view) == [views EXCEPT ![j] = view]
WithStatus(views, j, status) == [views EXCEPT ![j].status = status]
WithCount(views, j, status, count) ==
    [views EXCEPT ![j].status = status, ![j].attempt_count = count]

\* A view replaced by one that differs in status and attempt_count only.
LEMMA ExceptColumns ==
    ASSUME NEW D, NEW f \in [D -> ViewType], NEW j \in D, NEW view \in ViewType,
           view.max_retries = f[j].max_retries, NEW g, g = With(f, j, view)
    PROVE  /\ g = WithCount(f, j, view.status, view.attempt_count)
           /\ view.attempt_count = f[j].attempt_count => g = WithStatus(f, j, view.status)
BY DEF ViewType, With, WithStatus, WithCount
=============================================================================
