\* Two jobs of different topics in one batch, and a death of the worker.
CONSTANTS
    JobId = {1, 2}
    Worker = {w1}
    Canceller = {}
    Operator = {}
    RetryLimit = {1}
    CronKind = {"none"}
    None = None
    Priority <- MixedPriority
    MaxFailures = 1
SPECIFICATION DrainFairSpec
PROPERTY EveryJobSettles
