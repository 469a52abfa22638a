\* Duplicate messages, stale claims and cancellations, crashes, recurrence.
CONSTANTS
    JobId = {j1, j2}
    Worker = {w1, w2}
    Canceller = {c1}
    Operator = {}
    RetryLimit = {0, 1}
    CronKind = {"none", "valid", "impossible"}
    None = None
SYMMETRY Symmetry
SPECIFICATION Spec
INVARIANTS
    TypeOK
    OneExecutor
    AttemptLedger
    RetryBound
    OutcomeRecorded
    DeadLetterIsFinal
    OneLiveOccurrence
PROPERTY CancellationFinal
