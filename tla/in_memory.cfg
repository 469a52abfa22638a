\* Threads that claim, finish and cancel under the lock; a key and recurrences.
CONSTANTS
    JobId = {j1, j2}
    Thread = {t1, t2, t3}
    Key = {k1}
    RetryLimit = {0, 1}
    CronKind = {"none", "valid", "impossible"}
    None = None
SYMMETRY Symmetry
SPECIFICATION Spec
INVARIANTS
    TypeOK
    OneJobPerKey
    ProcessedWhenEnded
    OneDeadLetter
PROPERTY ImplementsLifecycle
