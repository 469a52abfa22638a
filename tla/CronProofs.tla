----------------------------- MODULE CronProofs -----------------------------
(***************************************************************************)
(* What next_cron_run returns, for every expression, every instant and     *)
(* every length of hours and days; and that a year of 366 days is long     *)
(* enough for every date that exists in every year.                        *)
(***************************************************************************)
EXTENDS Cron, SequenceTheorems, TLAPS

-----------------------------------------------------------------------------
(* Division.                                                               *)

LEMMA ProductMonotone ==
  ASSUME NEW a \in Int, NEW b \in Int, NEW n \in Nat, a <= b
  PROVE  a * n <= b * n
<1>1. (b - a) * n >= 0
  BY SMT
<1>2. (b - a) * n = b * n - a * n
  BY SMT
<1>3. a * n \in Int /\ b * n \in Int
  BY SMT
<1>4. QED
  BY <1>1, <1>2, <1>3

\* Quotient and remainder are what they are written as.
LEMMA Division ==
  ASSUME NEW n \in Nat \ {0}, NEW q \in Int, NEW r \in 0 .. n - 1
  PROVE  (q * n + r) \div n = q /\ (q * n + r) % n = r
<1> DEFINE t == q * n + r
           p == t \div n
           s == t % n
<1>1. t \in Int /\ q * n \in Int
  BY SMT
<1> HIDE DEF t
<1>2. p \in Int /\ s \in 0 .. n - 1 /\ t = n * p + s
  BY <1>1, SMT
<1>3. p * n \in Int /\ n * p = p * n
  BY <1>2, SMT
<1> HIDE DEF p, s
<1>4. t = p * n + s /\ t = q * n + r
  BY <1>2, <1>3 DEF t
<1>5. ~(p < q)
  <2> SUFFICES ASSUME p + 1 <= q PROVE FALSE
    BY <1>2
  <2>1. (p + 1) * n <= q * n
    BY <1>2, ProductMonotone
  <2>2. (p + 1) * n = p * n + n
    BY <1>2, SMT
  <2>3. QED
    BY <1>1, <1>2, <1>3, <1>4, <2>1, <2>2
<1>6. ~(q < p)
  <2> SUFFICES ASSUME q + 1 <= p PROVE FALSE
    BY <1>2
  <2>1. (q + 1) * n <= p * n
    BY <1>2, ProductMonotone
  <2>2. (q + 1) * n = q * n + n
    BY SMT
  <2>3. QED
    BY <1>1, <1>2, <1>3, <1>4, <2>1, <2>2
<1>7. p = q
  BY <1>2, <1>5, <1>6
<1>8. s = r
  BY <1>1, <1>2, <1>4, <1>7
<1>9. QED
  BY <1>7, <1>8 DEF t, p, s

-----------------------------------------------------------------------------
(* The calendar.                                                           *)

LEMMA YearStartType ==
  ASSUME NEW y \in Int
  PROVE  YearStart(y) \in Int /\ YearStart(y + 1) - YearStart(y) \in {365, 366}
  BY SMT DEF YearStart

LEMMA YearStartMonotone ==
  ASSUME NEW x \in Int, NEW y \in Int, x <= y
  PROVE  YearStart(x) <= YearStart(y)
  BY SMT DEF YearStart

\* YearOf finds the year a day falls into.
LEMMA YearOfDay ==
  ASSUME NEW day \in Int
  PROVE  /\ YearOf(day) \in Int
         /\ YearStart(YearOf(day)) <= day /\ day < YearStart(YearOf(day) + 1)
<1> DEFINE y == (400 * day) \div 146097
<1>1. y \in Int
  BY SMT
<1>2. day < YearStart(y) => YearStart(y - 1) <= day
  BY SMT DEF YearStart
<1>3. day >= YearStart(y + 1) => day < YearStart(y + 2)
  BY SMT DEF YearStart
<1>4. YearOf(day) = IF day < YearStart(y) THEN y - 1 ELSE IF day >= YearStart(y + 1) THEN y + 1 ELSE y
  BY DEF YearOf
<1>5. YearStart(y) \in Int /\ YearStart(y + 1) \in Int
  BY <1>1, YearStartType
<1> HIDE DEF y
<1>6. (y - 1) + 1 = y /\ (y + 1) + 1 = y + 2
  BY <1>1
<1>7. QED
  BY <1>1, <1>2, <1>3, <1>4, <1>5, <1>6

\* There is only one such year.
LEMMA YearUnique ==
  ASSUME NEW day \in Int, NEW y \in Int, YearStart(y) <= day, day < YearStart(y + 1)
  PROVE  YearOf(day) = y
<1> DEFINE x == YearOf(day)
<1>1. x \in Int /\ YearStart(x) <= day /\ day < YearStart(x + 1)
  BY YearOfDay
<1> HIDE DEF x
<1>2. ~(x + 1 <= y)
  BY <1>1, YearStartMonotone, YearStartType
<1>3. ~(y + 1 <= x)
  BY <1>1, YearStartMonotone, YearStartType
<1>4. x = y
  BY <1>1, <1>2, <1>3
<1>5. QED
  BY <1>4 DEF x

LEMMA MonthStartType ==
  ASSUME NEW y \in Int
  PROVE  \A m \in 1 .. 13 : MonthStart(y, m) \in Nat
<1> SUFFICES ASSUME NEW m \in 1 .. 13 PROVE MonthStart(y, m) \in Nat
  OBVIOUS
<1>1. YearLength(y) \in {365, 366}
  BY YearStartType DEF YearLength
<1>2. m \in {1, 2, 3, 4, 5, 6, 7, 8, 9, 10, 11, 12, 13}
  BY SMT
<1>3. QED
  BY <1>1, <1>2, SMT DEF MonthStart

\* Months follow one another, and together they are the year.
LEMMA MonthsInOrder ==
  ASSUME NEW y \in Int
  PROVE  /\ MonthStart(y, 1) = 0 /\ MonthStart(y, 13) = YearLength(y)
         /\ \A l, m \in 1 .. 13 : l <= m => MonthStart(y, l) <= MonthStart(y, m)
<1>1. YearLength(y) \in {365, 366}
  BY YearStartType DEF YearLength
<1>2. MonthStart(y, 1) = 0 /\ MonthStart(y, 13) = YearLength(y)
  BY <1>1, SMT DEF MonthStart
<1>3. \A l, m \in 1 .. 13 : l <= m => MonthStart(y, l) <= MonthStart(y, m)
  <2> SUFFICES ASSUME NEW l \in 1 .. 13, NEW m \in 1 .. 13, l <= m
               PROVE  MonthStart(y, l) <= MonthStart(y, m)
    OBVIOUS
  <2>1. l \in {1, 2, 3, 4, 5, 6, 7, 8, 9, 10, 11, 12, 13} /\ m \in {1, 2, 3, 4, 5, 6, 7, 8, 9, 10, 11, 12, 13}
    BY SMT
  <2>2. QED
    BY <1>1, <2>1, SMT DEF MonthStart
<1>4. QED
  BY <1>2, <1>3

\* The date of the k-th day of month m of year y.
LEMMA DateOfDay ==
  ASSUME NEW y \in Int, NEW m \in 1 .. 12,
         NEW k \in 1 .. MonthStart(y, m + 1) - MonthStart(y, m)
  PROVE  Date(YearStart(y) + MonthStart(y, m) + k - 1) = [month |-> m, day |-> k]
<1> DEFINE day == YearStart(y) + MonthStart(y, m) + k - 1
           Within(rest, l) == MonthStart(y, l) <= rest /\ rest < MonthStart(y, l + 1)
           rest == day - YearStart(y)
<1>1. YearStart(y) \in Int /\ YearStart(y + 1) = YearStart(y) + YearLength(y)
      /\ YearLength(y) \in Int
  BY YearStartType DEF YearLength
<1>2. \A l \in 1 .. 13 : MonthStart(y, l) \in Nat
  BY MonthStartType
<1>3. m + 1 \in 1 .. 13 /\ m \in 1 .. 13 /\ 13 \in 1 .. 13
  OBVIOUS
<1>4. MonthStart(y, m + 1) <= YearLength(y)
  BY <1>3, MonthsInOrder
<1>5. day \in Int /\ YearStart(y) <= day /\ day < YearStart(y + 1)
  BY <1>1, <1>2, <1>3, <1>4
<1>6. YearOf(day) = y
  BY <1>5, YearUnique
<1>7. rest = MonthStart(y, m) + k - 1 /\ rest \in Int
  BY <1>1, <1>2, <1>3
<1>8. Within(rest, m)
  BY <1>2, <1>3, <1>7
<1>9. ASSUME NEW l \in 1 .. 12, Within(rest, l) PROVE l = m
  <2>1. l \in 1 .. 13 /\ l + 1 \in 1 .. 13
    BY <1>9
  <2>2. ~(l + 1 <= m)
    BY <1>2, <1>3, <1>7, <1>8, <1>9, <2>1, MonthsInOrder
  <2>3. ~(m + 1 <= l)
    BY <1>2, <1>3, <1>7, <1>8, <1>9, <2>1, MonthsInOrder
  <2>4. QED
    BY <2>2, <2>3
<1>10. (CHOOSE l \in 1 .. 12 : Within(rest, l)) = m
  BY <1>8, <1>9
<1>11. Date(day) = [month |-> m, day |-> rest - MonthStart(y, m) + 1]
  BY <1>6, <1>10 DEF Date
<1>12. rest - MonthStart(y, m) + 1 = k
  BY <1>2, <1>3, <1>7
<1>13. QED
  BY <1>11, <1>12

-----------------------------------------------------------------------------
(* Schedules that have a run every year.                                   *)

\* The fields of an instant that is put together from them.
LEMMA FieldsOfInstant ==
  ASSUME NEW day \in Int, NEW h \in 0 .. HoursPerDay - 1, NEW n \in 0 .. MinutesPerHour - 1,
         NEW t, t = (day * HoursPerDay + h) * MinutesPerHour + n
  PROVE  /\ t % MinutesPerHour = n
         /\ (t \div MinutesPerHour) % HoursPerDay = h
         /\ t \div MinutesPerDay = day
<1>1. MinutesPerHour \in Nat \ {0} /\ HoursPerDay \in Nat \ {0}
  BY CronAssumption
<1> DEFINE q == day * HoursPerDay + h
           r == h * MinutesPerHour + n
<1>2. q \in Int
  BY <1>1, SMT
<1>3. q \div HoursPerDay = day /\ q % HoursPerDay = h
  BY <1>1, Division
<1> HIDE DEF q
<1>4. t \div MinutesPerHour = q /\ t % MinutesPerHour = n
  BY <1>1, <1>2, Division DEF q
<1>5. MinutesPerDay \in Nat \ {0}
  BY <1>1, SMT DEF MinutesPerDay
<1>6. r \in 0 .. MinutesPerDay - 1
  <2>1. h * MinutesPerHour <= (HoursPerDay - 1) * MinutesPerHour
    BY <1>1, ProductMonotone
  <2>2. (HoursPerDay - 1) * MinutesPerHour = MinutesPerDay - MinutesPerHour
    BY <1>1, SMT DEF MinutesPerDay
  <2>3. h * MinutesPerHour \in Nat
    BY <1>1, SMT
  <2>4. QED
    BY <1>1, <1>5, <2>1, <2>2, <2>3
<1>7. t = day * MinutesPerDay + r
  BY <1>1, SMT DEF MinutesPerDay
<1> HIDE DEF r
<1>8. t \div MinutesPerDay = day
  BY <1>5, <1>6, <1>7, Division
<1>9. QED
  BY <1>3, <1>4, <1>8

\* A field that is accepted names something, and nothing outside its range.
LEMMA FieldsOfExpression ==
  ASSUME NEW e \in Expression, Accepted(e), NEW i \in 1 .. 5
  PROVE  Field(e, i) # {} /\ Field(e, i) \subseteq Lowest[i] .. Highest[i]
<1>1. MinutesPerHour \in Nat \ {0} /\ HoursPerDay \in Nat \ {0}
  BY CronAssumption
<1>2. Lowest[i] \in Int /\ Highest[i] \in Int /\ Lowest[i] <= Highest[i]
  BY <1>1, SMT DEF Lowest, Highest
<1>3. e[i] \in Part /\ Parses(e[i], Lowest[i], Highest[i])
  <2>1. e \in Seq(Part) /\ Len(e) = 5
    BY CronAssumption DEF Accepted
  <2>2. e[i] \in Part
    BY <2>1, ElementOfSeq
  <2>3. Parses(e[i], Lowest[i], Highest[i])
    BY DEF Accepted
  <2>4. QED
    BY <2>2, <2>3
<1> DEFINE part == e[i]
           lo == Lowest[i]
           hi == Highest[i]
<1> HIDE DEF part, lo, hi
<1>4. part.n \in Int /\ lo \in Int /\ hi \in Int /\ lo <= hi
  BY <1>2, <1>3 DEF Part, part, lo, hi
<1>5. Parses(part, lo, hi) => Values(part, lo, hi) # {} /\ Values(part, lo, hi) \subseteq lo .. hi
  <2>1. CASE part.kind = "any"
    BY <1>4, <2>1 DEF Values
  <2>2. CASE part.kind = "step"
    <3>1. part.n > 0 => (lo - lo) % part.n = 0
      BY <1>4, SMT
    <3>2. lo \in lo .. hi
      BY <1>4
    <3>3. QED
      BY <2>2, <3>1, <3>2 DEF Values, Parses
  <2>3. CASE part.kind \notin {"any", "step"}
    BY <1>4, <2>3 DEF Values, Parses
  <2>4. QED
    BY <2>1, <2>2, <2>3
<1>6. QED
  BY <1>3, <1>5 DEF Field, part, lo, hi

\* No month is shorter than it is in a common year, and from a date to the same
\* date of the next year it is 365 or 366 days.
LEMMA CommonDates ==
  ASSUME NEW y \in Int, NEW m \in 1 .. 12
  PROVE  /\ MonthStart(0, m + 1) - MonthStart(0, m) <= MonthStart(y, m + 1) - MonthStart(y, m)
         /\ YearStart(y + 1) + MonthStart(y + 1, m) - (YearStart(y) + MonthStart(y, m)) \in {365, 366}
<1>1. YearLength(0) = 365
  BY SMT DEF YearLength, YearStart
<1>2. YearLength(y) \in {365, 366} /\ YearLength(y + 1) \in {365, 366}
  BY YearStartType DEF YearLength
<1>3. YearStart(y + 1) = YearStart(y) + YearLength(y) /\ YearStart(y) \in Int
  BY YearStartType DEF YearLength
<1>4. m \in {1, 2, 3, 4, 5, 6, 7, 8, 9, 10, 11, 12}
  BY SMT
<1>5. MonthStart(0, m + 1) - MonthStart(0, m) <= MonthStart(y, m + 1) - MonthStart(y, m)
  BY <1>1, <1>2, <1>4, SMT DEF MonthStart
<1>6. MonthStart(y + 1, m) - MonthStart(y, m) = IF m > 2 THEN YearLength(y + 1) - YearLength(y) ELSE 0
  BY <1>2, <1>4, SMT DEF MonthStart
<1>7. MonthStart(y, m) \in Nat /\ MonthStart(y + 1, m) \in Nat
  <2>1. m \in 1 .. 13 /\ y + 1 \in Int
    OBVIOUS
  <2>2. QED
    BY <2>1, MonthStartType
<1>8. QED
  BY <1>2, <1>3, <1>5, <1>6, <1>7

LEMMA YearlyRun ==
  ASSUME NEW e \in Expression, Yearly(e), NEW a \in Nat
  PROVE  \E t \in a + 1 .. a + Horizon : Matches(e, t)
<1> USE DEF MinutesPerDay
<1>1. MinutesPerHour \in Nat \ {0} /\ HoursPerDay \in Nat \ {0} /\ MinutesPerDay \in Nat \ {0}
  BY CronAssumption, SMT
<1>2. Accepted(e) /\ e[5].kind = "any"
  BY DEF Yearly
<1>3. PICK m \in Field(e, 4), k \in Field(e, 3) : k <= MonthStart(0, m + 1) - MonthStart(0, m)
  BY DEF Yearly
<1>4. PICK n \in Field(e, 1), h \in Field(e, 2) : TRUE
  BY <1>2, FieldsOfExpression
<1>5. /\ m \in 1 .. 12 /\ k \in 1 .. 31
      /\ n \in 0 .. MinutesPerHour - 1 /\ h \in 0 .. HoursPerDay - 1
  BY <1>2, FieldsOfExpression DEF Lowest, Highest
<1> DEFINE D(y) == YearStart(y) + MonthStart(y, m) + k - 1
           T(y) == (D(y) * HoursPerDay + h) * MinutesPerHour + n
           mu == h * MinutesPerHour + n
<1>6. ASSUME NEW y \in Int
      PROVE  /\ D(y) \in Int /\ YearStart(y) <= D(y) /\ D(y) < YearStart(y + 1)
             /\ Matches(e, T(y))
  <2>1. k \in 1 .. MonthStart(y, m + 1) - MonthStart(y, m)
    <3>1. MonthStart(0, m + 1) - MonthStart(0, m) <= MonthStart(y, m + 1) - MonthStart(y, m)
      BY <1>5, CommonDates
    <3>2. MonthStart(0, m + 1) \in Nat /\ MonthStart(0, m) \in Nat
          /\ MonthStart(y, m + 1) \in Nat /\ MonthStart(y, m) \in Nat
      <4>1. m \in 1 .. 13 /\ m + 1 \in 1 .. 13 /\ 0 \in Int
        BY <1>5
      <4>2. QED
        BY <4>1, MonthStartType
    <3>3. QED
      BY <1>3, <1>5, <3>1, <3>2
  <2>2. Date(D(y)) = [month |-> m, day |-> k]
    BY <1>5, <2>1, DateOfDay
  <2>3. /\ D(y) \in Int /\ YearStart(y) <= D(y) /\ D(y) < YearStart(y + 1)
    <3>1. YearStart(y) \in Int /\ YearStart(y + 1) = YearStart(y) + YearLength(y) /\ YearLength(y) \in Int
      BY YearStartType DEF YearLength
    <3>2. MonthStart(y, m) \in Nat /\ MonthStart(y, m + 1) \in Nat
      <4>1. m \in 1 .. 13 /\ m + 1 \in 1 .. 13
        BY <1>5
      <4>2. QED
        BY <4>1, MonthStartType
    <3>3. MonthStart(y, m + 1) <= YearLength(y)
      <4>1. m + 1 \in 1 .. 13 /\ 13 \in 1 .. 13 /\ m + 1 <= 13
        BY <1>5
      <4>2. QED
        BY <4>1, MonthsInOrder
    <3>4. QED
      BY <1>5, <2>1, <3>1, <3>2, <3>3
  <2>4. /\ T(y) % MinutesPerHour = n
        /\ (T(y) \div MinutesPerHour) % HoursPerDay = h
        /\ T(y) \div MinutesPerDay = D(y)
    BY <1>5, <2>3, FieldsOfInstant
  <2>5. Weekday(D(y)) \in Field(e, 5)
    <3>1. D(y) % 7 \in 0 .. 6
      BY <2>3, SMT
    <3>2. Field(e, 5) = 0 .. 6
      BY <1>2 DEF Field, Values, Lowest, Highest
    <3>3. QED
      BY <3>1, <3>2 DEF Weekday
  <2> HIDE DEF D, T
  <2>6. Matches(e, T(y))
    BY <1>3, <1>4, <2>2, <2>4, <2>5 DEF Matches
  <2>7. QED
    BY <2>3, <2>6
<1>7. mu \in 0 .. MinutesPerDay - 1
  <2>1. h * MinutesPerHour <= (HoursPerDay - 1) * MinutesPerHour
    BY <1>1, <1>5, ProductMonotone
  <2>2. (HoursPerDay - 1) * MinutesPerHour = MinutesPerDay - MinutesPerHour
    BY <1>1, SMT
  <2>3. h * MinutesPerHour \in Nat
    BY <1>1, <1>5, SMT
  <2>4. QED
    BY <1>1, <1>5, <2>1, <2>2, <2>3
<1>8. ASSUME NEW y \in Int
      PROVE  T(y) = D(y) * MinutesPerDay + mu /\ D(y) * MinutesPerDay \in Int
  <2>1. D(y) \in Int
    BY <1>6
  <2> HIDE DEF D
  <2>2. QED
    BY <1>1, <1>5, <2>1, SMT
<1> DEFINE M == MinutesPerDay
           c == a + 1
           today == c \div M
           y == YearOf(today)
<1>9. today \in Int /\ today * M \in Int /\ today * M <= c /\ c < today * M + M
  <2> HIDE DEF M
  <2>1. M \in Nat \ {0}
    BY <1>1 DEF M
  <2>2. today \in Int /\ c = M * today + (c % M) /\ c % M \in 0 .. M - 1
    BY <2>1, SMT
  <2> HIDE DEF today
  <2>3. M * today = today * M /\ today * M \in Int
    BY <2>1, <2>2, SMT
  <2>4. QED
    BY <2>1, <2>2, <2>3
<1>10. y \in Int /\ YearStart(y) <= today /\ today < YearStart(y + 1)
  BY <1>9, YearOfDay
<1> HIDE DEF today, y
<1>11. Horizon = 366 * M /\ Horizon \in Int /\ M \in Nat
  BY <1>1, SMT DEF Horizon
<1>12. T(y) \in Int /\ T(y + 1) \in Int
  <2>1. D(y) \in Int /\ D(y + 1) \in Int
    BY <1>6, <1>10
  <2> HIDE DEF D, T
  <2>2. QED
    BY <1>7, <1>8, <1>10
<1> HIDE DEF D, T, M, mu
<1>13. CASE c <= T(y)
  <2>1. D(y) \in Int /\ D(y) <= today + 365
    <3>1. YearStart(y) \in Int /\ YearStart(y + 1) - YearStart(y) \in {365, 366}
          /\ YearStart(y + 1) \in Int
      <4>1. y + 1 \in Int
        BY <1>10
      <4>2. QED
        BY <1>10, <4>1, YearStartType
    <3>2. D(y) \in Int /\ D(y) < YearStart(y + 1)
      BY <1>6, <1>10
    <3>3. QED
      BY <1>9, <1>10, <3>1, <3>2
  <2>2. D(y) * M <= (today + 365) * M
    BY <1>9, <1>11, <2>1, ProductMonotone
  <2>3. (today + 365) * M = today * M + 365 * M
    BY <1>9, <1>11, SMT
  <2>4. T(y) = D(y) * M + mu /\ D(y) * M \in Int /\ mu \in 0 .. M - 1
    BY <1>7, <1>8, <1>10 DEF M
  <2>5. T(y) <= a + Horizon
    BY <1>9, <1>11, <2>2, <2>3, <2>4
  <2>6. T(y) \in a + 1 .. a + Horizon
    BY <1>11, <1>12, <1>13, <2>5
  <2>7. QED
    BY <1>6, <1>10, <2>6
<1>14. CASE T(y) < c
  <2>1. D(y) \in Int /\ D(y + 1) \in Int /\ D(y + 1) - D(y) \in {365, 366} /\ today + 1 <= D(y + 1)
    <3>1. D(y) \in Int /\ D(y + 1) \in Int /\ YearStart(y + 1) <= D(y + 1)
      BY <1>6, <1>10
    <3>2. YearStart(y) \in Int /\ YearStart(y + 1) \in Int
          /\ MonthStart(y, m) \in Nat /\ MonthStart(y + 1, m) \in Nat
      <4>1. m \in 1 .. 13 /\ y + 1 \in Int
        BY <1>5, <1>10
      <4>2. YearStart(y) \in Int /\ YearStart(y + 1) \in Int
        BY <1>10, <4>1, YearStartType
      <4>3. MonthStart(y, m) \in Nat /\ MonthStart(y + 1, m) \in Nat
        BY <1>10, <4>1, MonthStartType
      <4>4. QED
        BY <4>2, <4>3
    <3>3. YearStart(y + 1) + MonthStart(y + 1, m) - (YearStart(y) + MonthStart(y, m)) \in {365, 366}
      BY <1>5, <1>10, CommonDates
    <3>4. D(y + 1) - D(y) = YearStart(y + 1) + MonthStart(y + 1, m) - (YearStart(y) + MonthStart(y, m))
      BY <1>5, <3>2 DEF D
    <3>5. QED
      BY <1>9, <1>10, <3>1, <3>2, <3>3, <3>4
  <2>2. D(y + 1) * M <= (D(y) + 366) * M /\ (today + 1) * M <= D(y + 1) * M
    BY <1>9, <1>11, <2>1, ProductMonotone
  <2>3. (D(y) + 366) * M = D(y) * M + 366 * M /\ (today + 1) * M = today * M + M
    BY <1>9, <1>11, <2>1, SMT
  <2>4. /\ T(y) = D(y) * M + mu /\ D(y) * M \in Int /\ mu \in 0 .. M - 1
        /\ T(y + 1) = D(y + 1) * M + mu /\ D(y + 1) * M \in Int
    BY <1>7, <1>8, <1>10 DEF M
  <2>5. T(y + 1) \in a + 1 .. a + Horizon
    BY <1>9, <1>11, <1>12, <1>14, <2>2, <2>3, <2>4
  <2>6. QED
    BY <1>6, <1>10, <2>5
<1>15. QED
  BY <1>12, <1>13, <1>14

-----------------------------------------------------------------------------
(* The search.                                                             *)

\* After tried minutes without a match the search has come that far; how it
\* ended is what it has seen.
Searched ==
    /\ status = "called" => tried = 0
    /\ status \in {"searching", "found", "no_run"} =>
          /\ Accepted(expression)
          /\ candidate = after + 1 + tried
          /\ \A t \in after + 1 .. candidate - 1 : ~Matches(expression, t)
    /\ status = "found" => Matches(expression, candidate)
    /\ status = "no_run" => tried = Horizon

IInv == TypeOK /\ Searched

LEMMA HorizonType == Horizon \in Nat
<1>1. MinutesPerHour \in Nat /\ HoursPerDay \in Nat
  BY CronAssumption
<1>2. QED
  BY <1>1, SMT DEF Horizon, MinutesPerDay

LEMMA InitIInv == Init => IInv
  BY CronAssumption, HorizonType DEF Init, IInv, TypeOK, Searched

LEMMA NextIInv == IInv /\ [Next]_vars => IInv'
<1> SUFFICES ASSUME IInv, [Next]_vars PROVE IInv'
  OBVIOUS
<1> USE CronAssumption, HorizonType DEF IInv, TypeOK
<1>1. CASE Validate
  <2>1. CASE ~Accepted(expression) /\ status' = "rejected" /\ UNCHANGED candidate
    BY <1>1, <2>1 DEF Validate, Searched
  <2>2. CASE Accepted(expression) /\ status' = "searching" /\ candidate' = after + 1
    BY <1>1, <2>2 DEF Validate, Searched
  <2>3. QED
    BY <1>1, <2>1, <2>2 DEF Validate
<1>2. CASE Return
  BY <1>2 DEF Return, Searched
<1>3. CASE Advance
  <2>1. TypeOK'
    BY <1>3 DEF Advance
  <2>2. status' = "searching" /\ Accepted(expression) /\ candidate' = after + 1 + tried'
        /\ expression' = expression /\ after' = after /\ candidate' - 1 = candidate
    BY <1>3 DEF Advance, Searched
  <2>3. ASSUME NEW t \in after + 1 .. candidate PROVE ~Matches(expression, t)
    <3>1. CASE t = candidate
      BY <1>3, <3>1 DEF Advance
    <3>2. CASE t \in after + 1 .. candidate - 1
      BY <1>3, <3>2 DEF Advance, Searched
    <3>3. QED
      BY <3>1, <3>2
  <2>4. QED
    BY <2>1, <2>2, <2>3 DEF Searched
<1>4. CASE GiveUp
  BY <1>4 DEF GiveUp, Searched
<1>5. CASE UNCHANGED vars
  BY <1>5 DEF vars, Searched
<1>6. QED
  BY <1>1, <1>2, <1>3, <1>4, <1>5 DEF Next

LEMMA InductiveInvariant == Spec => []IInv
<1>1. QED
  BY InitIInv, NextIInv, PTL DEF Spec

\* The state of a call is one that the code can name.
THEOREM CronTypeOK == Spec => []TypeOK
<1>1. IInv => TypeOK
  BY DEF IInv
<1>2. QED
  BY <1>1, InductiveInvariant, PTL

\* next_cron_run returns the first minute that matches, and says that there is
\* none only if there is none in 366 days.
THEOREM NextRunIsFirst == Spec => []AnswerIsNextRun
<1>1. IInv => AnswerIsNextRun
  <2> SUFFICES ASSUME IInv PROVE AnswerIsNextRun
    OBVIOUS
  <2> USE CronAssumption, HorizonType DEF IInv, TypeOK
  <2>1. CASE status = "found"
    BY <2>1 DEF Searched, AnswerIsNextRun
  <2>2. CASE status = "no_run"
    <3>1. candidate - 1 = after + Horizon
      BY <2>2 DEF Searched
    <3>2. QED
      BY <2>2, <3>1 DEF Searched, AnswerIsNextRun
  <2>3. QED
    BY <2>1, <2>2 DEF AnswerIsNextRun
<1>2. QED
  BY <1>1, InductiveInvariant, PTL

\* A schedule of a date that exists in every year never ends in an error, in
\* whatever year, month and minute its next run is asked for.
THEOREM YearlySchedulesRun == Spec => []YearlyHasRun
<1>1. IInv => YearlyHasRun
  <2> SUFFICES ASSUME IInv, Yearly(expression), status = "no_run" PROVE FALSE
    BY DEF YearlyHasRun
  <2> USE CronAssumption, HorizonType DEF IInv, TypeOK
  <2>1. candidate - 1 = after + Horizon
    BY DEF Searched
  <2>2. \A t \in after + 1 .. after + Horizon : ~Matches(expression, t)
    BY <2>1 DEF Searched
  <2>3. expression \in Expression /\ after \in Nat
    OBVIOUS
  <2>4. \E t \in after + 1 .. after + Horizon : Matches(expression, t)
    BY <2>3, YearlyRun
  <2>5. QED
    BY <2>2, <2>4
<1>2. QED
  BY <1>1, InductiveInvariant, PTL
=============================================================================
