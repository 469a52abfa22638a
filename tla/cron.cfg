\* Yearly, rare and impossible schedules, asked for around the turn of a year
\* and the end of February.
CONSTANTS
    MinutesPerHour = 2
    HoursPerDay = 2
    Expression <- Schedules
    After <- Instants
SPECIFICATION FairSpec
INVARIANTS
    TypeOK
    AnswerIsNextRun
    YearlyHasRun
PROPERTY SearchEnds
\* The model ends with the call.
CHECK_DEADLOCK FALSE
