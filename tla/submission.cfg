\* Two requests that race on a key, or whose jobs compete, new and as retries, for
\* sweeps of one job each, with failing publishes, lost requests and messages,
\* cancellations and drains.
CONSTANTS
    Request = {r1, r2}
    Key = {k1}
    Body <- TwoPriorities
    Sweeper = {w1}
    BatchSize = 1
    MaxRetries = 1
    None = None
SPECIFICATION FairSpec
INVARIANTS
    TypeOK
    AnswersAgree
    AnswerIsDurable
PROPERTIES
    EveryJobTaken
    ImplementsIntake
\* Nothing is left to do once every job is closed, and requests are not repeated.
CHECK_DEADLOCK FALSE
