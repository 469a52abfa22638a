\* A job that succeeded, with a schedule that has no run in the next year.
CONSTANTS
    JobId = {j1}
    Worker = {w1}
    Canceller = {}
    Operator = {}
    RetryLimit = {1}
    CronKind = {"impossible"}
    None = None
SPECIFICATION Spec
PROPERTY SuccessIsFinal
