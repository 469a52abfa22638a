\* Two members of the consumer group, an eviction or a death, drain requests.
CONSTANTS
    JobId = {1}
    Worker = {w1, w2}
    Canceller = {}
    Operator = {o1}
    RetryLimit = {1}
    CronKind = {"none"}
    None = None
    Priority <- MixedPriority
    MaxFailures = 1
SPECIFICATION DrainFairSpec
INVARIANTS
    FleetTypeOK
    CommittedAtHead
    OneLateClaim
PROPERTIES
    EveryJobSettles
    ImplementsLifecycle
