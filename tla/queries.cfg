\* Reports and pages, read while jobs are submitted, run, retried and buried.
CONSTANTS
    JobId = {1, 2}
    Worker = {w1}
    Canceller = {}
    Operator = {}
    RetryLimit = {1}
    CronKind = {"none"}
    None = None
    Reader = {q1}
    Limit = {2}
    Filter = {None, "queued"}
    MaxPageSize = 1
SPECIFICATION QueriesSpec
INVARIANTS
    QueriesTypeOK
    SuccessesAreNoFailures
    StableJobsCounted
    PagingComplete
