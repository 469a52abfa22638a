------------------------------- MODULE MCCron -------------------------------
(* Small instances of Cron for TLC: the real calendar, with days of two     *)
(* hours of two minutes.                                                    *)
EXTENDS Cron

Any == [kind |-> "any", n |-> 0]
Junk == [kind |-> "junk", n |-> 0]
Every(n) == [kind |-> "step", n |-> n]
At(n) == [kind |-> "value", n |-> n]

\* Yearly dates, the first and the last of a year among them; steps; weekdays;
\* dates that are rare or do not exist; and what is not accepted.
Schedules == {
    <<Any, Any, Any, Any, Any>>, <<At(0), At(0), At(1), At(1), Any>>,
    <<At(1), At(1), At(31), At(12), Any>>, <<At(0), Any, Every(10), Every(5), Any>>,
    <<Every(2), Every(1), Any, At(2), At(6)>>, <<At(0), At(1), At(29), At(2), Any>>,
    <<Any, Any, At(31), At(4), Any>>, <<At(1), At(0), At(13), Every(6), At(4)>>,
    <<Every(0), Any, Any, Any, Any>>, <<Any, At(2), Any, Any, Any>>,
    <<Any, Any, At(0), Any, Any>>, <<Any, Junk, Any, Any, Any>>, <<Any, Any, Any, Any>>}

\* The first minute of a day of the year 2000 + y.
Midnight(y, m, d) == (YearStart(1999 + y) + MonthStart(1999 + y, m) + d - 1) * MinutesPerDay

\* The first minutes of a leap year and of a year after one, the last minute of
\* a year, and days around the end of February, 2100 (not a leap year) included.
Instants == {
    Midnight(24, 1, 1), Midnight(25, 1, 1), Midnight(24, 1, 1) - 1,
    Midnight(24, 2, 28), Midnight(23, 3, 1) - 1, Midnight(99, 3, 1)}
=============================================================================
