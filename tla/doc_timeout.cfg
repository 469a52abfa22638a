\* CODE_REVIEW.md on timed-out attempts, against the call in a worker.
CONSTANTS
    SignalHandler = {TRUE}
    None = None
SPECIFICATION FairSpec
PROPERTY TimeoutEndsAttempt
CHECK_DEADLOCK FALSE
