\* SPEC.md on cancelled jobs, against the race of cancel_job with claim_job.
CONSTANTS
    JobId = {j1}
    Worker = {w1}
    Canceller = {c1}
    Operator = {}
    RetryLimit = {0}
    CronKind = {"none"}
    None = None
SPECIFICATION Spec
PROPERTY CancelledNeverClaimed
