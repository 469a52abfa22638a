\* CODE_REVIEW.md on offsets, against the commit after the first message.
CONSTANTS
    JobId = {1, 2}
    Worker = {w1}
    Canceller = {}
    Operator = {}
    RetryLimit = {0}
    CronKind = {"none"}
    None = None
    Priority <- MixedPriority
    MaxFailures = 0
SPECIFICATION FleetSpec
INVARIANT CommitAfterProcessing
