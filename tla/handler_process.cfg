\* The call in a worker and outside one, every kind of handler and outcome.
CONSTANTS
    SignalHandler = {TRUE, FALSE}
    None = None
SPECIFICATION FairSpec
INVARIANTS
    TypeOK
    NoOrphan
    VerdictIsTrue
PROPERTIES
    CallReturns
    OrphanEnds
\* The model ends with the call, or with the worker and the child.
CHECK_DEADLOCK FALSE
