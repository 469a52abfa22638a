-------------------------------- MODULE Cron --------------------------------
(***************************************************************************)
(* app/jobs/scheduling.py: one call of next_cron_run, which validates the  *)
(* expression and then tries one minute after the other for 366 days.      *)
(*                                                                         *)
(* An instant is the number of minutes since 1 January of the year 1, UTC, *)
(* with the seconds cut off.  Days, months and weekdays are those of       *)
(* datetime, the Gregorian calendar; a model may make hours and days       *)
(* shorter, so that a year of minutes can be walked.                       *)
(***************************************************************************)
EXTENDS Integers, Sequences

CONSTANTS MinutesPerHour, HoursPerDay,  \* 60 and 24
          Expression,                   \* cron expressions, split at white space
          After                         \* instants that a next run is wanted after

\* A field: "*", "*/n", a number, or anything else.
Part == [kind : {"any", "step", "value", "junk"}, n : Int]

ASSUME CronAssumption ==
    /\ MinutesPerHour \in Nat \ {0} /\ HoursPerDay \in Nat \ {0}
    /\ Expression \subseteq Seq(Part)
    /\ After \subseteq Nat

VARIABLES expression, after,  \* the arguments
          status,             \* where the call is, or how it ended
          candidate, tried    \* the minute to try, and how many were tried before

vars == <<expression, after, status, candidate, tried>>

-----------------------------------------------------------------------------
(* The calendar.  Years are counted from 0, months and days from 1.        *)

MinutesPerDay == HoursPerDay * MinutesPerHour

YearStart(y) == 365 * y + y \div 4 - y \div 100 + y \div 400
YearLength(y) == YearStart(y + 1) - YearStart(y)

\* 146097 days are 400 years, and the estimate is off by one year at most.
YearOf(day) ==
    LET y == (400 * day) \div 146097
    IN  IF day < YearStart(y) THEN y - 1 ELSE IF day >= YearStart(y + 1) THEN y + 1 ELSE y

\* The days before month m of year y, and before month 13, the end of the year.
MonthStart(y, m) ==
    <<0, 31, 59, 90, 120, 151, 181, 212, 243, 273, 304, 334, 365>>[m]
    + IF m > 2 THEN YearLength(y) - 365 ELSE 0

Date(day) ==
    LET y == YearOf(day)
        rest == day - YearStart(y)
        month == CHOOSE m \in 1 .. 12 : MonthStart(y, m) <= rest /\ rest < MonthStart(y, m + 1)
    IN  [month |-> month, day |-> rest - MonthStart(y, month) + 1]

\* weekday(): 0 is Monday, as was 1 January of the year 1.
Weekday(day) == day % 7

-----------------------------------------------------------------------------
(* _parse_cron_part.                                                       *)
Parses(part, minimum, maximum) ==
    \/ part.kind = "any"
    \/ part.kind = "step" /\ part.n > 0
    \/ part.kind = "value" /\ part.n \in minimum .. maximum

Values(part, minimum, maximum) ==
    CASE part.kind = "any" -> minimum .. maximum
      [] part.kind = "step" -> {v \in minimum .. maximum : (v - minimum) % part.n = 0}
      [] OTHER -> {part.n}

Lowest == <<0, 0, 1, 1, 0>>
Highest == <<MinutesPerHour - 1, HoursPerDay - 1, 31, 12, 6>>

\* validate_cron_expression.
Accepted(e) == Len(e) = 5 /\ \A i \in 1 .. 5 : Parses(e[i], Lowest[i], Highest[i])

Field(e, i) == Values(e[i], Lowest[i], Highest[i])

Matches(e, t) ==
    LET day == t \div MinutesPerDay
    IN  /\ t % MinutesPerHour \in Field(e, 1)
        /\ (t \div MinutesPerHour) % HoursPerDay \in Field(e, 2)
        /\ Date(day).day \in Field(e, 3)
        /\ Date(day).month \in Field(e, 4)
        /\ Weekday(day) \in Field(e, 5)

-----------------------------------------------------------------------------
(* next_cron_run.                                                          *)

\* Mutation: a year of 365 days.
CommonYear == 365 * MinutesPerDay

Horizon == 366 * MinutesPerDay

TypeOK ==
    /\ expression \in Expression /\ after \in After
    /\ status \in {"called", "searching", "found", "no_run", "rejected"}
    /\ candidate \in Nat
    /\ tried \in 0 .. Horizon

Init ==
    /\ expression \in Expression /\ after \in After
    /\ status = "called"
    /\ candidate = after /\ tried = 0

\* Mutation: the minute of after itself is tried.
ValidateFromNow ==
    /\ status = "called"
    /\ status' = IF Accepted(expression) THEN "searching" ELSE "rejected"
    /\ UNCHANGED <<expression, after, candidate, tried>>

Validate ==
    /\ status = "called"
    /\ \/ ~Accepted(expression) /\ status' = "rejected" /\ UNCHANGED candidate
       \/ Accepted(expression) /\ status' = "searching" /\ candidate' = after + 1
    /\ UNCHANGED <<expression, after, tried>>

Return ==
    /\ status = "searching" /\ tried < Horizon
    /\ Matches(expression, candidate)
    /\ status' = "found"
    /\ UNCHANGED <<expression, after, candidate, tried>>

\* Mutation: the search does not stop at the horizon.
AdvanceForEver ==
    /\ status = "searching"
    /\ ~Matches(expression, candidate)
    /\ candidate' = candidate + 1 /\ tried' = tried + 1
    /\ UNCHANGED <<expression, after, status>>

Advance ==
    /\ status = "searching" /\ tried < Horizon
    /\ ~Matches(expression, candidate)
    /\ candidate' = candidate + 1 /\ tried' = tried + 1
    /\ UNCHANGED <<expression, after, status>>

\* Mutation: the search never ends without a result.
NeverGiveUp == FALSE /\ UNCHANGED vars

\* "Cron expression has no run in the next year"
GiveUp ==
    /\ status = "searching" /\ tried = Horizon
    /\ status' = "no_run"
    /\ UNCHANGED <<expression, after, candidate, tried>>

Next == Validate \/ Return \/ Advance \/ GiveUp

Spec == Init /\ [][Next]_vars

FairSpec == Spec /\ WF_vars(Next)

-----------------------------------------------------------------------------
\* The answer is the first minute after the given one that the expression
\* names; the error says that there is none in the 366 days that follow.
AnswerIsNextRun ==
    /\ status = "found" => /\ after < candidate /\ Matches(expression, candidate)
                           /\ \A t \in after + 1 .. candidate - 1 : ~Matches(expression, t)
    /\ status = "no_run" => \A t \in after + 1 .. after + Horizon : ~Matches(expression, t)

\* A day of the year that comes every year, on whatever weekday.
Yearly(e) ==
    /\ Accepted(e) /\ e[5].kind = "any"
    /\ \E m \in Field(e, 4) : \E d \in Field(e, 3) : d <= MonthStart(0, m + 1) - MonthStart(0, m)

\* Such a schedule always has a next run, however late in the year it is asked
\* for: 366 days are exactly enough from 1 January of a leap year to the next.
\* Only 29 February, days no month has and weekday restrictions can fail.
YearlyHasRun == Yearly(expression) => status # "no_run"

\* The search ends, on every expression.
SearchEnds == <>(status \in {"found", "no_run", "rejected"})
=============================================================================
