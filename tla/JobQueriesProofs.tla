--------------------------- MODULE JobQueriesProofs ---------------------------
(***************************************************************************)
(* Theorems about JobQueries: what reports and pages read while any number *)
(* of workers and clients change the jobs table.                           *)
(***************************************************************************)
EXTENDS JobQueries, SqlJobRepositoryProofs, FiniteSetTheorems

-----------------------------------------------------------------------------
(* The jobs table below the queries.                                       *)

\* What is known of the tables and processes.
Below == TypeOK /\ IInv /\ LifeInv

LEMMA StepsBelow == [QueriesNext]_queryVars => [Next]_vars
  BY DEF QueriesNext, Elsewhere, StartReport, StartListing, Count, FetchPage, Finish, queryVars

LEMMA BelowInvariant == QueriesSpec => []Below
<1>1. QueriesInit => Init
  BY DEF QueriesInit
<1>2. QueriesSpec => Spec
  BY <1>1, StepsBelow, PTL DEF QueriesSpec, Spec
<1>3. QED
  BY <1>2, TypeCorrect, InductiveInvariant, LifeInvariant, PTL DEF Below

\* A job stays in the table, and once it has been claimed or cancelled it never
\* waits for its first attempt again.
LEMMA RowsKept ==
    ASSUME Below, [Next]_vars
    PROVE  /\ DOMAIN jobs \subseteq DOMAIN jobs'
           /\ \A j \in DOMAIN jobs : jobs[j].status # "queued" => jobs'[j].status # "queued"
           /\ \E k : DOMAIN jobs' \subseteq DOMAIN jobs \cup {k}
<1>1. CASE Quiet
  BY <1>1 DEF Quiet
<1>2. ASSUME NEW k \in JobId \ DOMAIN jobs, NEW root, Inserts(k, root)
      PROVE  DOMAIN jobs' = DOMAIN jobs \cup {k} /\ \A j \in DOMAIN jobs : jobs'[j] = jobs[j]
  BY <1>2 DEF Inserts, Store
<1>3. ASSUME NEW i, Rewrites(i), i \in DOMAIN jobs => jobs'[i].status # "queued"
      PROVE  /\ DOMAIN jobs' = DOMAIN jobs
             /\ \A j \in DOMAIN jobs : jobs[j].status # "queued" => jobs'[j].status # "queued"
  BY <1>3 DEF Rewrites
<1>4. ASSUME NEW w \in Worker, Claims(w) \/ MarkSucceededCommit(w) \/ MarkFailedCommit(w)
      PROVE  Rewrites(job[w]) /\ jobs'[job[w]].status # "queued"
  <2>1. PICK i : i = job[w]
    OBVIOUS
  <2>2. CASE Claims(w)
    BY <2>1, <2>2, ClaimRow DEF Claims, Below
  <2>3. CASE MarkSucceededCommit(w)
    BY <2>1, <2>3, SuccessRow DEF Below
  <2>4. CASE MarkFailedCommit(w)
    BY <2>1, <2>4, FailureRow DEF Below
  <2>5. QED
    BY <1>4, <2>2, <2>3, <2>4
<1>5. ASSUME NEW c \in Canceller, CancelCommit(c)
      PROVE  Rewrites(cancelling[c].job) /\ jobs'[cancelling[c].job].status # "queued"
  <2>1. PICK i : i = cancelling[c].job
    OBVIOUS
  <2>2. /\ i \in DOMAIN jobs /\ Rewrites(i)
        /\ jobs'[i] = [jobs[i] EXCEPT !.status = "cancelled", !.processed = TRUE]
    BY <1>5, <2>1, CancelRow DEF LifeInv, Below
  <2>3. jobs[i] \in Row
    BY <2>2 DEF Below, TypeOK, TablesTypeOK
  <2>4. QED
    BY <2>1, <2>2, <2>3 DEF Row
<1>6. QED
  BY <1>1, <1>2, <1>3, <1>4, <1>5, StepKinds DEF Below

\* There are finitely many jobs at any time.
LEMMA FinitelyManyJobs == QueriesSpec => []IsFiniteSet(DOMAIN jobs)
<1>1. QueriesInit => IsFiniteSet(DOMAIN jobs)
  BY EmptyTable, FS_EmptySet DEF QueriesInit, Init
<1>2. Below /\ IsFiniteSet(DOMAIN jobs) /\ [Next]_vars => IsFiniteSet(DOMAIN jobs)'
  <2>1. SUFFICES ASSUME Below, IsFiniteSet(DOMAIN jobs), [Next]_vars
                 PROVE  IsFiniteSet(DOMAIN jobs')
    OBVIOUS
  <2>2. PICK k : DOMAIN jobs' \subseteq DOMAIN jobs \cup {k}
    BY <2>1, RowsKept
  <2>3. IsFiniteSet(DOMAIN jobs \cup {k})
    BY <2>1, FS_AddElement
  <2>4. QED
    BY <2>2, <2>3, FS_Subset
<1>3. QED
  BY <1>1, <1>2, StepsBelow, BelowInvariant, PTL DEF QueriesSpec

-----------------------------------------------------------------------------
(* The requests.                                                           *)

ReportShape(report) ==
    report = [kind |-> report.kind, now |-> report.now, done |-> report.done,
              counted |-> report.counted, moved |-> report.moved]

ListingShape(listing) ==
    listing = [kind |-> listing.kind, filter |-> listing.filter, limit |-> listing.limit,
               offset |-> listing.offset, over |-> listing.over,
               returned |-> listing.returned, expected |-> listing.expected,
               left |-> listing.left]

\* A request is a record of the fields it was started with.
Shapes ==
    /\ reading = [r \in Reader |-> reading[r]]
    /\ \A r \in Reader : IsReport(r) => ReportShape(reading[r])
    /\ \A r \in Reader : IsListing(r) => ListingShape(reading[r])

\* The steps a report sees: its own start, its next SELECT, a step of the other
\* processes, a step of another reader.
ReportStarts(r, kind) ==
    /\ reading'[r] = [kind |-> kind, now |-> due, done |-> 0, counted |-> << >>, moved |-> {}]
    /\ UNCHANGED vars

ReportCounts(r) ==
    LET report == reading[r]
        column == Columns(report.kind)[report.done + 1]
    IN  /\ IsReport(r) /\ ~Complete(r)
        /\ reading'[r] = [kind |-> report.kind, now |-> report.now, done |-> report.done + 1,
                          counted |-> Store(report.counted, column, Selected(column, report.now)),
                          moved |-> report.moved]
        /\ UNCHANGED vars

ReportWaits(r) ==
    LET report == reading[r]
    IN  /\ IsReport(r) /\ Next
        /\ reading'[r] = [kind |-> report.kind, now |-> report.now, done |-> report.done,
                          counted |-> report.counted,
                          moved |-> report.moved \cup {j \in DOMAIN jobs' : Changed(j)}]

ReportStays(r) == IsReport(r) /\ UNCHANGED <<reading[r], vars>>

\* The steps a client that pages through the jobs sees.
ListingStarts(r, filter, limit) ==
    /\ reading'[r] = [kind |-> "list", filter |-> filter, limit |-> limit, offset |-> 0,
                      over |-> FALSE, returned |-> {}, expected |-> Listed(filter), left |-> FALSE]
    /\ UNCHANGED vars

ListingFetches(r) ==
    LET listing == reading[r]
        page == Page(listing.filter, listing.limit, listing.offset)
        limit == AnsweredLimit(listing.limit)
    IN  /\ IsListing(r) /\ ~listing.over
        /\ reading'[r] = [kind |-> listing.kind, filter |-> listing.filter,
                          limit |-> listing.limit, offset |-> listing.offset + limit,
                          over |-> Cardinality(page) < limit,
                          returned |-> listing.returned \cup page,
                          expected |-> listing.expected, left |-> listing.left]
        /\ UNCHANGED vars

ListingWaits(r) ==
    LET listing == reading[r]
    IN  /\ IsListing(r) /\ Next
        /\ reading'[r] = [kind |-> listing.kind, filter |-> listing.filter,
                          limit |-> listing.limit, offset |-> listing.offset,
                          over |-> listing.over, returned |-> listing.returned,
                          expected |-> listing.expected,
                          left |-> listing.left \/ \E j \in DOMAIN jobs : Leaves(j, listing.filter)]

ListingStays(r) == IsListing(r) /\ UNCHANGED <<reading[r], vars>>

\* What Count and FetchPage change of a request, named for the provers.
Recounted(report, counted, done) == [report EXCEPT !.counted = counted, !.done = done]
Turned(listing, returned, offset, over) ==
    [listing EXCEPT !.returned = returned, !.offset = offset, !.over = over]

LEMMA ReportFields ==
    ASSUME NEW report, ReportShape(report), NEW counted, NEW done, NEW moved
    PROVE  /\ Recounted(report, counted, done) =
                 [kind |-> report.kind, now |-> report.now, done |-> done,
                  counted |-> counted, moved |-> report.moved]
           /\ [report EXCEPT !.moved = moved] =
                 [kind |-> report.kind, now |-> report.now, done |-> report.done,
                  counted |-> report.counted, moved |-> moved]
<1>1. PICK next : next = [kind |-> report.kind, now |-> report.now, done |-> report.done,
                          counted |-> counted, moved |-> report.moved]
  OBVIOUS
<1>2. next = [report EXCEPT !.counted = counted]
  BY <1>1 DEF ReportShape
<1>3. [next EXCEPT !.done = done] =
         [kind |-> report.kind, now |-> report.now, done |-> done,
          counted |-> counted, moved |-> report.moved]
  BY <1>1
<1>4. Recounted(report, counted, done) = [next EXCEPT !.done = done]
  BY <1>2 DEF Recounted
<1>5. QED
  BY <1>3, <1>4 DEF ReportShape

LEMMA ListingLeft ==
    ASSUME NEW listing, ListingShape(listing), NEW left
    PROVE  [listing EXCEPT !.left = left] =
              [kind |-> listing.kind, filter |-> listing.filter, limit |-> listing.limit,
               offset |-> listing.offset, over |-> listing.over,
               returned |-> listing.returned, expected |-> listing.expected, left |-> left]
  BY DEF ListingShape

LEMMA ListingTurned ==
    ASSUME NEW listing, ListingShape(listing), NEW returned, NEW offset, NEW over
    PROVE  Turned(listing, returned, offset, over) =
              [kind |-> listing.kind, filter |-> listing.filter, limit |-> listing.limit,
               offset |-> offset, over |-> over, returned |-> returned,
               expected |-> listing.expected, left |-> listing.left]
<1>1. PICK next : next =
         [kind |-> listing.kind, filter |-> listing.filter, limit |-> listing.limit,
          offset |-> listing.offset, over |-> listing.over, returned |-> returned,
          expected |-> listing.expected, left |-> listing.left]
  OBVIOUS
<1>2. next = [listing EXCEPT !.returned = returned]
  BY <1>1 DEF ListingShape
<1>3. PICK last : last =
         [kind |-> listing.kind, filter |-> listing.filter, limit |-> listing.limit,
          offset |-> offset, over |-> listing.over, returned |-> returned,
          expected |-> listing.expected, left |-> listing.left]
  OBVIOUS
<1>4. last = [next EXCEPT !.offset = offset]
  BY <1>1, <1>3
<1>5. [last EXCEPT !.over = over] =
         [kind |-> listing.kind, filter |-> listing.filter, limit |-> listing.limit,
          offset |-> offset, over |-> over, returned |-> returned,
          expected |-> listing.expected, left |-> listing.left]
  BY <1>3
<1>6. Turned(listing, returned, offset, over) = [last EXCEPT !.over = over]
  BY <1>2, <1>4 DEF Turned
<1>7. QED
  BY <1>5, <1>6

\* A step changes the requests in one of these ways.
LEMMA RequestSteps ==
    ASSUME Shapes, [QueriesNext]_queryVars, NEW r \in Reader
    PROVE  /\ IsReport(r)' => \/ \E kind \in {"depth", "metrics"} : ReportStarts(r, kind)
                              \/ ReportCounts(r) \/ ReportWaits(r) \/ ReportStays(r)
           /\ IsListing(r)' => \/ \E filter \in Filter, limit \in Limit :
                                     ListingStarts(r, filter, limit)
                               \/ ListingFetches(r) \/ ListingWaits(r) \/ ListingStays(r)
           /\ reading' = [s \in Reader |-> reading'[s]]
<1>1. DOMAIN reading = Reader /\ \A s \in Reader : ~(IsReport(s) /\ IsListing(s))
  BY DEF Shapes, IsReport, IsListing
<1>2. ASSUME UNCHANGED <<reading[r], vars>>
      PROVE  /\ IsReport(r)' => ReportStays(r)
             /\ IsListing(r)' => ListingStays(r)
  BY <1>2 DEF IsReport, IsListing, ReportStays, ListingStays
<1>3. ASSUME NEW s \in Reader, NEW kind \in {"depth", "metrics"}, StartReport(s, kind)
      PROVE  /\ s = r /\ IsReport(r)' => ReportStarts(r, kind)
             /\ s = r => ~IsListing(r)'
             /\ s # r => UNCHANGED <<reading[r], vars>>
             /\ reading' = [t \in Reader |-> reading'[t]]
  BY <1>1, <1>3 DEF StartReport, ReportStarts, IsListing, Shapes
<1>4. ASSUME NEW s \in Reader, NEW filter \in Filter, NEW limit \in Limit,
             StartListing(s, filter, limit)
      PROVE  /\ s = r => ListingStarts(r, filter, limit)
             /\ s = r => ~IsReport(r)'
             /\ s # r => UNCHANGED <<reading[r], vars>>
             /\ reading' = [t \in Reader |-> reading'[t]]
  BY <1>1, <1>4 DEF StartListing, ListingStarts, IsReport, Shapes
<1>5. ASSUME NEW s \in Reader, Count(s)
      PROVE  /\ s = r => ReportCounts(r) /\ ~IsListing(r)'
             /\ s # r => UNCHANGED <<reading[r], vars>>
             /\ reading' = [t \in Reader |-> reading'[t]]
  <2> DEFINE column == Columns(reading[s].kind)[reading[s].done + 1]
             counted == Store(reading[s].counted, column, Selected(column, reading[s].now))
             done == reading[s].done + 1
  <2>1. /\ IsReport(s) /\ ~Complete(s) /\ UNCHANGED vars
        /\ reading' = [reading EXCEPT ![s].counted = counted, ![s].done = done]
    BY <1>5 DEF Count
  <2>2. ReportShape(reading[s])
    BY <2>1 DEF Shapes
  <2> HIDE DEF counted, done
  <2>3. reading'[s] = Recounted(reading[s], counted, done)
    BY <1>1, <2>1 DEF Recounted
  <2>4. reading'[s] = [kind |-> reading[s].kind, now |-> reading[s].now, done |-> done,
                       counted |-> counted, moved |-> reading[s].moved]
    BY <2>2, <2>3, ReportFields
  <2>5. \A t \in Reader \ {s} : reading'[t] = reading[t]
    BY <1>1, <2>1
  <2>6. s = r => ReportCounts(r)
    BY <2>1, <2>4 DEF ReportCounts, counted, done
  <2>7. s = r => ~IsListing(r)'
    BY <2>1, <2>4 DEF IsListing, IsReport
  <2>8. reading' = [t \in Reader |-> reading'[t]]
    BY <1>1, <2>1
  <2>9. QED
    BY <2>1, <2>5, <2>6, <2>7, <2>8
<1>6. ASSUME NEW s \in Reader, FetchPage(s)
      PROVE  /\ s = r => ListingFetches(r) /\ ~IsReport(r)'
             /\ s # r => UNCHANGED <<reading[r], vars>>
             /\ reading' = [t \in Reader |-> reading'[t]]
  <2> DEFINE page == Page(reading[s].filter, reading[s].limit, reading[s].offset)
             limit == AnsweredLimit(reading[s].limit)
             returned == reading[s].returned \cup page
             offset == reading[s].offset + limit
             over == Cardinality(page) < limit
  <2>1. /\ IsListing(s) /\ ~reading[s].over /\ UNCHANGED vars
        /\ reading' = [reading EXCEPT
              ![s].returned = returned, ![s].offset = offset, ![s].over = over]
    BY <1>6 DEF FetchPage
  <2>2. ListingShape(reading[s])
    BY <2>1 DEF Shapes
  <2> HIDE DEF page, limit, returned, offset, over
  <2>3. reading'[s] = Turned(reading[s], returned, offset, over)
    BY <1>1, <2>1 DEF Turned
  <2>4. reading'[s] =
           [kind |-> reading[s].kind, filter |-> reading[s].filter, limit |-> reading[s].limit,
            offset |-> offset, over |-> over, returned |-> returned,
            expected |-> reading[s].expected, left |-> reading[s].left]
    <3>1. Turned(reading[s], returned, offset, over) =
             [kind |-> reading[s].kind, filter |-> reading[s].filter, limit |-> reading[s].limit,
              offset |-> offset, over |-> over, returned |-> returned,
              expected |-> reading[s].expected, left |-> reading[s].left]
      BY <2>2, ListingTurned
    <3>2. QED
      BY <2>3, <3>1
  <2>5. \A t \in Reader \ {s} : reading'[t] = reading[t]
    BY <1>1, <2>1
  <2>6. s = r => ListingFetches(r)
    BY <2>1, <2>4 DEF ListingFetches, page, limit, returned, offset, over
  <2>7. s = r => ~IsReport(r)'
    BY <2>1, <2>4 DEF IsListing, IsReport
  <2>8. reading' = [t \in Reader |-> reading'[t]]
    BY <1>1, <2>1
  <2>9. QED
    BY <2>1, <2>5, <2>6, <2>7, <2>8
<1>7. ASSUME NEW s \in Reader, Finish(s)
      PROVE  /\ s = r => ~IsReport(r)' /\ ~IsListing(r)'
             /\ s # r => UNCHANGED <<reading[r], vars>>
             /\ reading' = [t \in Reader |-> reading'[t]]
  BY <1>1, <1>7 DEF Finish, IsReport, IsListing, Shapes
<1>8. ASSUME Elsewhere
      PROVE  /\ IsReport(r)' => ReportWaits(r)
             /\ IsListing(r)' => ListingWaits(r)
             /\ reading' = [t \in Reader |-> reading'[t]]
  <2> DEFINE moved == reading[r].moved \cup {j \in DOMAIN jobs' : Changed(j)}
             left == reading[r].left \/ \E j \in DOMAIN jobs : Leaves(j, reading[r].filter)
  <2>1. /\ Next
        /\ reading'[r] =
              CASE IsReport(r) -> [reading[r] EXCEPT !.moved = moved]
                [] IsListing(r) -> [reading[r] EXCEPT !.left = left]
                [] OTHER -> None
        /\ reading' = [t \in Reader |-> reading'[t]]
    BY <1>8 DEF Elsewhere
  <2> HIDE DEF moved, left
  <2>2. CASE IsReport(r)
    <3>1. reading'[r] = [reading[r] EXCEPT !.moved = moved]
      BY <1>1, <2>1, <2>2
    <3>2. reading'[r] = [kind |-> reading[r].kind, now |-> reading[r].now,
                         done |-> reading[r].done, counted |-> reading[r].counted,
                         moved |-> moved]
      BY <2>2, <3>1, ReportFields DEF Shapes
    <3>3. ReportWaits(r)
      BY <2>1, <2>2, <3>2 DEF ReportWaits, moved
    <3>4. ~IsListing(r)'
      BY <2>2, <3>2 DEF IsReport, IsListing
    <3>5. QED
      BY <2>1, <3>3, <3>4
  <2>3. CASE IsListing(r)
    <3>1. reading'[r] = [reading[r] EXCEPT !.left = left]
      BY <1>1, <2>1, <2>3
    <3>2. reading'[r] =
             [kind |-> reading[r].kind, filter |-> reading[r].filter, limit |-> reading[r].limit,
              offset |-> reading[r].offset, over |-> reading[r].over,
              returned |-> reading[r].returned, expected |-> reading[r].expected, left |-> left]
      BY <2>3, <3>1, ListingLeft DEF Shapes
    <3>3. ListingWaits(r)
      BY <2>1, <2>3, <3>2 DEF ListingWaits, left
    <3>4. ~IsReport(r)'
      BY <2>3, <3>2 DEF IsReport, IsListing
    <3>5. QED
      BY <2>1, <3>3, <3>4
  <2>4. CASE ~IsReport(r) /\ ~IsListing(r)
    <3>1. reading'[r] = None
      BY <2>1, <2>4
    <3>2. QED
      BY <2>1, <3>1 DEF IsReport, IsListing
  <2>5. QED
    BY <2>2, <2>3, <2>4
<1>9. CASE UNCHANGED queryVars
  BY <1>2, <1>9 DEF queryVars, Shapes
<1>10. QED
  BY <1>2, <1>3, <1>4, <1>5, <1>6, <1>7, <1>8, <1>9 DEF QueriesNext

LEMMA NextShapes == Shapes /\ [QueriesNext]_queryVars => Shapes'
<1> SUFFICES ASSUME Shapes, [QueriesNext]_queryVars PROVE Shapes'
  OBVIOUS
<1>1. ASSUME NEW r \in Reader, IsReport(r)' PROVE ReportShape(reading'[r])
  <2>1. CASE ReportStays(r)
    BY <2>1 DEF ReportStays, Shapes
  <2>2. ASSUME NEW kind, NEW now, NEW done, NEW counted, NEW moved,
               reading'[r] = [kind |-> kind, now |-> now, done |-> done,
                              counted |-> counted, moved |-> moved]
        PROVE  ReportShape(reading'[r])
    BY <2>2 DEF ReportShape
  <2>3. ASSUME NEW kind, ReportStarts(r, kind) PROVE ReportShape(reading'[r])
    BY <2>2, <2>3 DEF ReportStarts
  <2>4. CASE ReportCounts(r)
    BY <2>2, <2>4 DEF ReportCounts
  <2>5. CASE ReportWaits(r)
    BY <2>2, <2>5 DEF ReportWaits
  <2>6. QED
    BY <1>1, <2>1, <2>3, <2>4, <2>5, RequestSteps
<1>2. ASSUME NEW r \in Reader, IsListing(r)' PROVE ListingShape(reading'[r])
  <2>1. CASE ListingStays(r)
    BY <2>1 DEF ListingStays, Shapes
  <2>2. ASSUME NEW kind, NEW filter, NEW limit, NEW offset, NEW over, NEW returned,
               NEW expected, NEW left,
               reading'[r] = [kind |-> kind, filter |-> filter, limit |-> limit,
                              offset |-> offset, over |-> over, returned |-> returned,
                              expected |-> expected, left |-> left]
        PROVE  ListingShape(reading'[r])
    BY <2>2 DEF ListingShape
  <2>3. ASSUME NEW filter, NEW limit, ListingStarts(r, filter, limit)
        PROVE  ListingShape(reading'[r])
    BY <2>2, <2>3 DEF ListingStarts
  <2>4. CASE ListingFetches(r)
    BY <2>2, <2>4 DEF ListingFetches
  <2>5. CASE ListingWaits(r)
    BY <2>2, <2>5 DEF ListingWaits
  <2>6. QED
    BY <1>2, <2>1, <2>3, <2>4, <2>5, RequestSteps
<1>3. CASE Reader = {}
  BY <1>3, RequestSteps DEF QueriesNext, Elsewhere, queryVars, Shapes
<1>4. QED
  BY <1>1, <1>2, <1>3, RequestSteps DEF Shapes

LEMMA ShapesInvariant == QueriesSpec => []Shapes
<1>1. QueriesInit => Shapes
  BY DEF QueriesInit, Shapes, IsReport, IsListing
<1>2. QED
  BY <1>1, NextShapes, PTL DEF QueriesSpec

-----------------------------------------------------------------------------
(* Type correctness.                                                       *)

LEMMA AnsweredLimitType ==
    ASSUME NEW limit \in Limit
    PROVE  AnsweredLimit(limit) \in Nat \ {0}
  BY QueriesAssumption DEF AnsweredLimit

LEMMA SelectedRows ==
    ASSUME NEW column, NEW now
    PROVE  Selected(column, now) \subseteq DOMAIN jobs
  BY DEF Selected

\* A SELECT adds the next column.
LEMMA CountType ==
    ASSUME NEW report, ReportOK(report), report.done # Len(Columns(report.kind)),
           NEW column, column = Columns(report.kind)[report.done + 1], NEW now,
           NEW next, next.kind = report.kind, next.done = report.done + 1,
           next.counted = Store(report.counted, column, Selected(column, now))
    PROVE  ReportOK(next)
<1> DEFINE columns == Columns(report.kind)
<1>1. Len(columns) \in Nat /\ report.done \in 0 .. Len(columns)
  BY DEF ReportOK, Columns
<1>2. /\ DOMAIN next.counted = DOMAIN report.counted \cup {column}
      /\ next.counted[column] = Selected(column, now)
      /\ \A c \in DOMAIN report.counted : c # column => next.counted[c] = report.counted[c]
  BY DEF Store
<1>3. DOMAIN report.counted = {columns[i] : i \in 1 .. report.done}
  BY DEF ReportOK
<1> HIDE DEF columns
<1>4. 1 .. report.done + 1 = (1 .. report.done) \cup {report.done + 1}
  BY <1>1
<1>5. DOMAIN next.counted = {columns[i] : i \in 1 .. next.done}
  BY <1>2, <1>3, <1>4 DEF columns
<1>6. \A c \in DOMAIN next.counted : next.counted[c] \subseteq DOMAIN jobs
  BY <1>2, SelectedRows DEF ReportOK
<1>7. next.done \in 0 .. Len(columns)
  BY <1>1 DEF columns
<1>8. QED
  BY <1>5, <1>6, <1>7 DEF ReportOK, columns

LEMMA NextQueriesType ==
    ASSUME Below, Shapes, QueriesTypeOK, [QueriesNext]_queryVars
    PROVE  QueriesTypeOK'
<1>1. DOMAIN jobs \subseteq DOMAIN jobs'
  BY StepsBelow, RowsKept
<1>2. ASSUME UNCHANGED vars PROVE UNCHANGED jobs
  BY <1>2 DEF vars, tables
<1>3. ASSUME NEW r \in Reader, IsReport(r)' PROVE ReportOK(reading[r])'
  <2>1. ASSUME NEW kind \in {"depth", "metrics"}, ReportStarts(r, kind)
        PROVE  ReportOK(reading[r])'
    <3>1. /\ reading'[r].kind = kind /\ reading'[r].done = 0 /\ reading'[r].counted = << >>
      BY <2>1 DEF ReportStarts
    <3>2. Len(Columns(kind)) \in Nat
      BY DEF Columns
    <3>3. DOMAIN << >> = {} /\ 1 .. 0 = {}
      BY EmptyTable
    <3> QED
      BY <3>1, <3>2, <3>3 DEF ReportOK
  <2>2. CASE ReportCounts(r)
    <3>1. PICK next : next = reading'[r]
      OBVIOUS
    <3>2. ReportOK(next)
      BY <2>2, <3>1, CountType DEF ReportCounts, Complete, QueriesTypeOK
    <3>3. UNCHANGED jobs
      BY <1>2, <2>2 DEF ReportCounts
    <3>4. QED
      BY <3>1, <3>2, <3>3 DEF ReportOK
  <2>3. CASE ReportWaits(r)
    <3>1. /\ ReportOK(reading[r]) /\ reading'[r].kind = reading[r].kind
          /\ reading'[r].done = reading[r].done /\ reading'[r].counted = reading[r].counted
      BY <2>3 DEF ReportWaits, QueriesTypeOK
    <3> QED
      BY <1>1, <3>1 DEF ReportOK
  <2>4. CASE ReportStays(r)
    BY <1>2, <2>4 DEF ReportStays, ReportOK, QueriesTypeOK
  <2>5. QED
    BY <1>3, <2>1, <2>2, <2>3, <2>4, RequestSteps
<1>4. ASSUME NEW r \in Reader, IsListing(r)' PROVE ListingOK(reading[r])'
  <2>1. ASSUME NEW filter \in Filter, NEW limit \in Limit, ListingStarts(r, filter, limit)
        PROVE  ListingOK(reading[r])'
    <3>1. /\ reading'[r].filter = filter /\ reading'[r].limit = limit /\ reading'[r].offset = 0
          /\ reading'[r].returned = {} /\ reading'[r].expected = Listed(filter)
          /\ UNCHANGED jobs
      BY <1>2, <2>1 DEF ListingStarts
    <3>2. QED
      BY <3>1 DEF ListingOK, Listed
  <2>2. CASE ListingFetches(r)
    <3> DEFINE listing == reading[r]
               page == Page(listing.filter, listing.limit, listing.offset)
    <3>1. /\ ListingOK(listing) /\ UNCHANGED jobs
          /\ reading'[r].filter = listing.filter /\ reading'[r].limit = listing.limit
          /\ reading'[r].offset = listing.offset + AnsweredLimit(listing.limit)
          /\ reading'[r].returned = listing.returned \cup page
          /\ reading'[r].expected = listing.expected
      BY <1>2, <2>2 DEF ListingFetches, QueriesTypeOK
    <3>2. page \subseteq DOMAIN jobs
      BY DEF Page, Listed
    <3>3. listing.offset + AnsweredLimit(listing.limit) \in Nat
      BY <3>1, AnsweredLimitType DEF ListingOK
    <3> HIDE DEF page
    <3>4. QED
      BY <3>1, <3>2, <3>3 DEF ListingOK
  <2>3. CASE ListingWaits(r)
    <3>1. /\ ListingOK(reading[r])
          /\ reading'[r].filter = reading[r].filter /\ reading'[r].limit = reading[r].limit
          /\ reading'[r].offset = reading[r].offset
          /\ reading'[r].returned = reading[r].returned
          /\ reading'[r].expected = reading[r].expected
      BY <2>3 DEF ListingWaits, QueriesTypeOK
    <3>2. QED
      BY <1>1, <3>1 DEF ListingOK
  <2>4. CASE ListingStays(r)
    BY <1>2, <2>4 DEF ListingStays, ListingOK, QueriesTypeOK
  <2>5. QED
    BY <1>4, <2>1, <2>2, <2>3, <2>4, RequestSteps
<1>5. DOMAIN reading' = Reader
  <2>1. CASE Reader = {}
    BY <2>1 DEF QueriesNext, Elsewhere, queryVars, QueriesTypeOK
  <2>2. CASE Reader # {}
    BY <2>2, RequestSteps
  <2>3. QED
    BY <2>1, <2>2
<1>6. QED
  BY <1>3, <1>4, <1>5 DEF QueriesTypeOK

\* Whatever is read while the table changes, what a request has collected names
\* jobs that are still there, and a report runs its SELECTs in their order.
THEOREM QueriesTypeCorrect == QueriesSpec => []QueriesTypeOK
<1>1. QueriesInit => QueriesTypeOK
  BY DEF QueriesInit, QueriesTypeOK, IsReport, IsListing
<1>2. QED
  BY <1>1, NextQueriesType, BelowInvariant, ShapesInvariant, PTL DEF QueriesSpec

-----------------------------------------------------------------------------
(* Jobs that nothing happens to.                                           *)

\* Of a job that has not changed since the request came the columns say what the
\* table says.
StableReport(report) ==
    \A j \in DOMAIN jobs \ report.moved :
        /\ j \in report.now <=> j \in due
        /\ \A column \in DOMAIN report.counted :
              j \in report.counted[column] <=> j \in Selected(column, report.now)

StableReports == \A r \in Reader : IsReport(r) => StableReport(reading[r])

LEMMA NextStable ==
    ASSUME Below, Shapes, QueriesTypeOK, StableReports, [QueriesNext]_queryVars
    PROVE  StableReports'
<1> SUFFICES ASSUME NEW r \in Reader, IsReport(r)' PROVE StableReport(reading[r])'
  BY DEF StableReports
<1>1. ASSUME UNCHANGED vars PROVE UNCHANGED <<jobs, due>>
  BY <1>1 DEF vars, tables
<1>2. ASSUME UNCHANGED <<jobs, due>>, NEW column, NEW now
      PROVE  Selected(column, now)' = Selected(column, now)
  BY <1>2 DEF Selected
<1>3. ASSUME NEW kind \in {"depth", "metrics"}, ReportStarts(r, kind)
      PROVE  StableReport(reading[r])'
  <2>1. /\ reading'[r].now = due /\ reading'[r].counted = << >> /\ due' = due
    BY <1>1, <1>3 DEF ReportStarts
  <2>2. QED
    BY <2>1, EmptyTable DEF StableReport
<1>4. CASE ReportCounts(r)
  <2> DEFINE report == reading[r]
             column == Columns(report.kind)[report.done + 1]
             counted == Store(report.counted, column, Selected(column, report.now))
  <2>1. /\ StableReport(report) /\ UNCHANGED <<jobs, due>>
        /\ reading'[r].now = report.now /\ reading'[r].moved = report.moved
        /\ reading'[r].counted = counted
    BY <1>1, <1>4 DEF ReportCounts, StableReports
  <2>2. /\ DOMAIN counted = DOMAIN report.counted \cup {column}
        /\ counted[column] = Selected(column, report.now)
        /\ \A c \in DOMAIN report.counted : c # column => counted[c] = report.counted[c]
    BY DEF Store
  <2> HIDE DEF counted, column
  <2>3. \A c : Selected(c, report.now)' = Selected(c, report.now)
    BY <1>2, <2>1
  <2>4. QED
    BY <2>1, <2>2, <2>3 DEF StableReport
<1>5. CASE ReportWaits(r)
  <2> DEFINE report == reading[r]
  <2>1. /\ StableReport(report)
        /\ reading'[r].now = report.now /\ reading'[r].counted = report.counted
        /\ reading'[r].moved = report.moved \cup {j \in DOMAIN jobs' : Changed(j)}
    BY <1>5 DEF ReportWaits, StableReports
  <2>2. SUFFICES ASSUME NEW j \in DOMAIN jobs' \ reading'[r].moved
                 PROVE  /\ j \in report.now <=> j \in due'
                        /\ \A column \in DOMAIN report.counted :
                              j \in report.counted[column] <=> j \in Selected(column, report.now)'
    BY <2>1 DEF StableReport
  <2>3. /\ j \in DOMAIN jobs \ report.moved /\ jobs'[j] = jobs[j]
        /\ j \in due' <=> j \in due
    BY <2>1, <2>2 DEF Changed
  <2>4. ASSUME NEW column
        PROVE  j \in Selected(column, report.now)' <=> j \in Selected(column, report.now)
    <3>1. PICK now : now = report.now
      OBVIOUS
    <3>2. j \in Selected(column, now)' <=> j \in Selected(column, now)
      <4>1. j \in DOMAIN jobs /\ j \in DOMAIN jobs'
        BY <2>2, <2>3
      <4>2. CASE column \in {"pending", "by_priority"}
        BY <2>3, <4>1, <4>2 DEF Selected
      <4>3. CASE column = "due"
        BY <2>3, <4>1, <4>3 DEF Selected
      <4>4. CASE column = "latencies"
        BY <2>3, <4>1, <4>4 DEF Selected
      <4>5. CASE column \notin {"pending", "by_priority", "due", "latencies"}
        BY <2>3, <4>1, <4>5 DEF Selected
      <4>6. QED
        BY <4>2, <4>3, <4>4, <4>5
    <3>3. now = reading'[r].now
      BY <2>1, <3>1
    <3>4. QED
      BY <3>1, <3>2, <3>3
  <2>5. QED
    BY <2>1, <2>3, <2>4 DEF StableReport
<1>6. CASE ReportStays(r)
  BY <1>1, <1>2, <1>6 DEF ReportStays, StableReports, StableReport
<1>7. QED
  BY <1>3, <1>4, <1>5, <1>6, RequestSteps

\* The columns of a report that is complete.
LEMMA CompleteColumns ==
    ASSUME NEW r \in Reader, IsReport(r), Complete(r), QueriesTypeOK
    PROVE  \/ /\ reading[r].kind = "depth"
              /\ DOMAIN reading[r].counted =
                    {"pending", "due", "running", "dead_lettered", "by_priority"}
           \/ /\ reading[r].kind = "metrics"
              /\ DOMAIN reading[r].counted =
                    {"succeeded", "failed", "dead_lettered", "latencies", "running", "queued"}
<1>1. ReportOK(reading[r]) /\ reading[r].done = Len(Columns(reading[r].kind))
  BY DEF QueriesTypeOK, Complete
<1>2. CASE reading[r].kind = "depth"
  <2>1. DOMAIN reading[r].counted = {Columns("depth")[i] : i \in 1 .. 5}
    BY <1>1, <1>2 DEF ReportOK, Columns
  <2>2. 1 .. 5 = {1, 2, 3, 4, 5}
    OBVIOUS
  <2>3. QED
    BY <1>2, <2>1, <2>2 DEF Columns
<1>3. CASE reading[r].kind = "metrics"
  <2>1. DOMAIN reading[r].counted = {Columns("metrics")[i] : i \in 1 .. 6}
    BY <1>1, <1>3 DEF ReportOK, Columns
  <2>2. 1 .. 6 = {1, 2, 3, 4, 5, 6}
    OBVIOUS
  <2>3. QED
    BY <1>3, <2>1, <2>2 DEF Columns
<1>4. QED
  BY <1>1, <1>2, <1>3 DEF ReportOK

\* A job that nothing happens to during a request is counted once, in the column
\* of its status, and as waiting in exactly the columns of the backlog.
THEOREM StableJobsAreCounted == QueriesSpec => []StableJobsCounted
<1>1. QueriesInit => StableReports
  BY DEF QueriesInit, StableReports, IsReport
<1>2. QueriesSpec => []StableReports
  BY <1>1, NextStable, BelowInvariant, ShapesInvariant, QueriesTypeCorrect, PTL DEF QueriesSpec
<1>3. QueriesTypeOK /\ StableReports => StableJobsCounted
  <2> SUFFICES ASSUME QueriesTypeOK, StableReports, NEW r \in Reader, IsReport(r), Complete(r),
                      NEW j \in DOMAIN jobs \ reading[r].moved
               PROVE  LET counted == reading[r].counted
                          depth == reading[r].kind = "depth"
                          waiting == IF depth THEN jobs[j].status \in Pending
                                     ELSE jobs[j].status = "queued"
                      IN  /\ \A column \in DOMAIN counted \ {"latencies", "due"} :
                                j \in counted[column] <=>
                                   IF column \in {"pending", "by_priority", "queued"} THEN waiting
                                                               ELSE jobs[j].status = column
                          /\ depth => (j \in counted["due"] <=> Claimable(j))
    BY DEF StableJobsCounted
  <2>1. /\ j \in reading[r].now <=> j \in due
        /\ \A column \in DOMAIN reading[r].counted :
              j \in reading[r].counted[column] <=> j \in Selected(column, reading[r].now)
    BY DEF StableReports, StableReport
  <2>2. CASE reading[r].kind = "depth"
    <3>1. DOMAIN reading[r].counted = {"pending", "due", "running", "dead_lettered", "by_priority"}
      BY <2>2, CompleteColumns
    <3>2. QED
      BY <2>1, <2>2, <3>1 DEF Selected, Claimable
  <2>3. CASE reading[r].kind = "metrics"
    <3>1. DOMAIN reading[r].counted =
             {"succeeded", "failed", "dead_lettered", "latencies", "running", "queued"}
      BY <2>3, CompleteColumns
    <3>2. QED
      BY <2>1, <2>3, <3>1 DEF Selected
  <2>4. QED
    BY <2>2, <2>3, CompleteColumns
<1>4. QED
  BY <1>2, <1>3, QueriesTypeCorrect, PTL

-----------------------------------------------------------------------------
(* The order of the SELECTs.                                               *)

\* What the columns read so far say of the jobs as they are now: a success is
\* counted before the failures and stays one or is cancelled, and a job counted
\* as running never waits for its first attempt again.
MetricsReport(report) ==
    LET counted == report.counted
    IN  /\ "succeeded" \in DOMAIN counted => \A j \in counted["succeeded"] : Settled(j)
        /\ \A column \in {"failed", "dead_lettered"} \cap DOMAIN counted :
              counted["succeeded"] \cap counted[column] = {}
        /\ "running" \in DOMAIN counted =>
              \A j \in counted["running"] : jobs[j].status # "queued"
        /\ "queued" \in DOMAIN counted => counted["running"] \cap counted["queued"] = {}

MetricsReports ==
    \A r \in Reader : IsReport(r) /\ reading[r].kind = "metrics" => MetricsReport(reading[r])

\* The column that comes next is behind those that it is compared with.
LEMMA MetricsColumns ==
    ASSUME NEW report, ReportOK(report), report.kind = "metrics",
           report.done # Len(Columns(report.kind)),
           NEW column, column = Columns(report.kind)[report.done + 1]
    PROVE  /\ column \notin DOMAIN report.counted
           /\ column = "succeeded" =>
                 "failed" \notin DOMAIN report.counted /\ "dead_lettered" \notin DOMAIN report.counted
           /\ column \in {"failed", "dead_lettered"} => "succeeded" \in DOMAIN report.counted
           /\ column = "running" => "queued" \notin DOMAIN report.counted
           /\ column = "queued" => "running" \in DOMAIN report.counted
           /\ column \in {"succeeded", "failed", "dead_lettered", "latencies", "running", "queued"}
<1>1. /\ report.done \in {0, 1, 2, 3, 4, 5} /\ column = Columns("metrics")[report.done + 1]
      /\ DOMAIN report.counted = {Columns("metrics")[i] : i \in 1 .. report.done}
  BY DEF ReportOK, Columns
<1>2. CASE report.done = 0
  BY <1>1, <1>2 DEF Columns
<1>3. CASE report.done = 1
  <2>1. 1 .. 1 = {1}
    OBVIOUS
  <2>2. QED
    BY <1>1, <1>3, <2>1 DEF Columns
<1>4. CASE report.done = 2
  <2>1. 1 .. 2 = {1, 2}
    OBVIOUS
  <2>2. QED
    BY <1>1, <1>4, <2>1 DEF Columns
<1>5. CASE report.done = 3
  <2>1. 1 .. 3 = {1, 2, 3}
    OBVIOUS
  <2>2. QED
    BY <1>1, <1>5, <2>1 DEF Columns
<1>6. CASE report.done = 4
  <2>1. 1 .. 4 = {1, 2, 3, 4}
    OBVIOUS
  <2>2. QED
    BY <1>1, <1>6, <2>1 DEF Columns
<1>7. CASE report.done = 5
  <2>1. 1 .. 5 = {1, 2, 3, 4, 5}
    OBVIOUS
  <2>2. QED
    BY <1>1, <1>7, <2>1 DEF Columns
<1>8. QED
  BY <1>1, <1>2, <1>3, <1>4, <1>5, <1>6, <1>7

\* The next SELECT of the metrics.
LEMMA MetricsCount ==
    ASSUME "impossible" \notin CronKind, Below,
           NEW report, ReportOK(report), MetricsReport(report), report.kind = "metrics",
           report.done # Len(Columns(report.kind)),
           NEW column, column = Columns(report.kind)[report.done + 1], NEW now,
           NEW next, next.counted = Store(report.counted, column, Selected(column, now))
    PROVE  MetricsReport(next)
<1> DEFINE before == report.counted
           counted == next.counted
<1>1. /\ DOMAIN counted = DOMAIN before \cup {column}
      /\ counted[column] = Selected(column, now)
      /\ \A c \in DOMAIN before : c # column => counted[c] = before[c]
  BY DEF Store
<1>2. /\ column \notin DOMAIN before
      /\ column = "succeeded" => "failed" \notin DOMAIN before /\ "dead_lettered" \notin DOMAIN before
      /\ column \in {"failed", "dead_lettered"} => "succeeded" \in DOMAIN before
      /\ column = "running" => "queued" \notin DOMAIN before
      /\ column = "queued" => "running" \in DOMAIN before
  BY MetricsColumns
<1>3. /\ "succeeded" \in DOMAIN before => \A j \in before["succeeded"] : Settled(j)
      /\ \A c \in {"failed", "dead_lettered"} \cap DOMAIN before :
            before["succeeded"] \cap before[c] = {}
      /\ "running" \in DOMAIN before => \A j \in before["running"] : jobs[j].status # "queued"
      /\ "queued" \in DOMAIN before => before["running"] \cap before["queued"] = {}
  BY DEF MetricsReport
<1>4. /\ "failed" \in DOMAIN before => "succeeded" \in DOMAIN before
      /\ "dead_lettered" \in DOMAIN before => "succeeded" \in DOMAIN before
      /\ "queued" \in DOMAIN before => "running" \in DOMAIN before
  <2>1. /\ report.done \in 0 .. 6
        /\ DOMAIN before = {Columns("metrics")[i] : i \in 1 .. report.done}
    BY DEF ReportOK, Columns
  <2>2. \A i \in 1 .. report.done : i \in {1, 2, 3, 4, 5, 6} /\ 1 \in 1 .. report.done
    BY <2>1
  <2>3. /\ \A i \in {1, 2, 3, 4, 5, 6} : Columns("metrics")[i] = "queued" => i = 6
        /\ Columns("metrics")[1] = "succeeded" /\ Columns("metrics")[5] = "running"
    BY DEF Columns
  <2>4. 6 \in 1 .. report.done => 5 \in 1 .. report.done
    BY <2>1
  <2>5. QED
    BY <2>1, <2>2, <2>3, <2>4
<1>5. column \in {"succeeded", "failed", "dead_lettered", "running", "queued"} =>
         counted[column] = {j \in DOMAIN jobs : jobs[j].status = column}
  BY <1>1 DEF Selected
<1> HIDE DEF before, counted
<1>6. "succeeded" \in DOMAIN counted => \A j \in counted["succeeded"] : Settled(j)
  <2>1. CASE column = "succeeded"
    BY <1>1, <1>5, <2>1, SucceededIsSettled DEF Below
  <2>2. CASE column # "succeeded"
    BY <1>1, <1>3, <2>2
  <2>3. QED
    BY <2>1, <2>2
<1>7. ASSUME NEW c \in {"failed", "dead_lettered"} \cap DOMAIN counted
      PROVE  counted["succeeded"] \cap counted[c] = {}
  <2>1. CASE column = c
    <3>1. "succeeded" \in DOMAIN before /\ column # "succeeded"
      BY <1>2, <2>1
    <3>2. \A j \in counted["succeeded"] : Settled(j)
      BY <1>1, <1>6, <3>1
    <3>3. \A j \in counted[c] : jobs[j].status = c
      BY <1>5, <2>1
    <3>4. QED
      BY <3>2, <3>3 DEF Settled
  <2>2. CASE column # c
    <3>1. c \in DOMAIN before /\ column # "succeeded"
      BY <1>1, <1>2, <2>2
    <3>2. "succeeded" \in DOMAIN before
      BY <1>4, <3>1
    <3>3. counted["succeeded"] = before["succeeded"] /\ counted[c] = before[c]
      BY <1>1, <2>2, <3>1, <3>2
    <3>4. QED
      BY <1>3, <3>1, <3>3
  <2>3. QED
    BY <2>1, <2>2
<1>8. "running" \in DOMAIN counted => \A j \in counted["running"] : jobs[j].status # "queued"
  <2>1. CASE column = "running"
    BY <1>1, <1>5, <2>1
  <2>2. CASE column # "running"
    BY <1>1, <1>3, <2>2
  <2>3. QED
    BY <2>1, <2>2
<1>9. "queued" \in DOMAIN counted => counted["running"] \cap counted["queued"] = {}
  <2>1. CASE column = "queued"
    <3>1. "running" \in DOMAIN counted
      BY <1>1, <1>2, <2>1
    <3>2. QED
      BY <1>5, <1>8, <2>1, <3>1
  <2>2. CASE column # "queued"
    BY <1>1, <1>2, <1>3, <1>4, <2>2
  <2>3. QED
    BY <2>1, <2>2
<1>10. QED
  BY <1>6, <1>7, <1>8, <1>9 DEF MetricsReport, counted

LEMMA NextMetrics ==
    ASSUME "impossible" \notin CronKind, Below, Shapes, QueriesTypeOK, MetricsReports,
           [QueriesNext]_queryVars
    PROVE  MetricsReports'
<1> SUFFICES ASSUME NEW r \in Reader, IsReport(r)', reading'[r].kind = "metrics"
             PROVE  MetricsReport(reading[r])'
  BY DEF MetricsReports
<1>1. ASSUME UNCHANGED vars
      PROVE  UNCHANGED <<jobs, attempts, job, pc>>
  BY <1>1 DEF vars, tables, workers
<1>2. ASSUME NEW kind \in {"depth", "metrics"}, ReportStarts(r, kind)
      PROVE  MetricsReport(reading[r])'
  <2>1. reading'[r].counted = << >>
    BY <1>2 DEF ReportStarts
  <2>2. QED
    BY <2>1, EmptyTable DEF MetricsReport
<1>3. CASE ReportCounts(r)
  <2>1. PICK next : next = reading'[r]
    OBVIOUS
  <2>2. /\ reading[r].kind = "metrics" /\ ReportOK(reading[r]) /\ MetricsReport(reading[r])
        /\ reading[r].done # Len(Columns(reading[r].kind))
        /\ next.counted = LET column == Columns(reading[r].kind)[reading[r].done + 1]
                          IN  Store(reading[r].counted, column, Selected(column, reading[r].now))
    BY <1>3, <2>1 DEF ReportCounts, Complete, QueriesTypeOK, MetricsReports
  <2>3. MetricsReport(next)
    BY <2>2, MetricsCount
  <2>4. UNCHANGED <<jobs, attempts, job, pc>>
    BY <1>1, <1>3 DEF ReportCounts
  <2>5. QED
    BY <2>1, <2>3, <2>4 DEF MetricsReport, Settled, LastAttempt
<1>4. CASE ReportWaits(r)
  <2>1. /\ MetricsReport(reading[r]) /\ ReportOK(reading[r])
        /\ reading'[r].counted = reading[r].counted
    BY <1>4 DEF ReportWaits, MetricsReports, QueriesTypeOK
  <2>2. ASSUME NEW j \in DOMAIN jobs, Settled(j) PROVE Settled(j)'
    BY <2>2, StepsBelow, SettledKept DEF Below
  <2>3. \A j \in DOMAIN jobs : jobs[j].status # "queued" => jobs'[j].status # "queued"
    BY StepsBelow, RowsKept
  <2>4. \A c \in DOMAIN reading[r].counted : reading[r].counted[c] \subseteq DOMAIN jobs
    BY <2>1 DEF ReportOK
  <2>5. "succeeded" \in DOMAIN reading[r].counted =>
           \A j \in reading[r].counted["succeeded"] : Settled(j)'
    BY <2>1, <2>2, <2>4 DEF MetricsReport
  <2>6. "running" \in DOMAIN reading[r].counted =>
           \A j \in reading[r].counted["running"] : jobs'[j].status # "queued"
    BY <2>1, <2>3, <2>4 DEF MetricsReport
  <2>7. QED
    BY <2>1, <2>5, <2>6 DEF MetricsReport
<1>5. CASE ReportStays(r)
  BY <1>1, <1>5 DEF ReportStays, MetricsReports, MetricsReport, Settled, LastAttempt
<1>6. QED
  BY <1>2, <1>3, <1>4, <1>5, RequestSteps

\* No job is counted as a success and as a failure, or as running and as queued,
\* whatever happens between the SELECTs, cancellations included, if every
\* schedule has a next run.
THEOREM NoSuccessIsAFailure ==
    ASSUME "impossible" \notin CronKind
    PROVE  QueriesSpec => []SuccessesAreNoFailures
<1>1. QueriesInit => MetricsReports
  BY DEF QueriesInit, MetricsReports, IsReport
<1>2. Below /\ Shapes /\ QueriesTypeOK /\ MetricsReports /\ [QueriesNext]_queryVars => MetricsReports'
  BY NextMetrics
<1>3. QueriesTypeOK /\ MetricsReports => SuccessesAreNoFailures
  <2> SUFFICES ASSUME QueriesTypeOK, MetricsReports, NEW r \in Reader, IsReport(r), Complete(r),
                      reading[r].kind = "metrics"
               PROVE  LET counted == reading[r].counted
                      IN  /\ counted["succeeded"] \cap (counted["failed"] \cup counted["dead_lettered"]) = {}
                          /\ counted["running"] \cap counted["queued"] = {}
    BY DEF SuccessesAreNoFailures
  <2>1. MetricsReport(reading[r])
    BY DEF MetricsReports
  <2>2. DOMAIN reading[r].counted =
           {"succeeded", "failed", "dead_lettered", "latencies", "running", "queued"}
    BY CompleteColumns
  <2>3. QED
    BY <2>1, <2>2 DEF MetricsReport
<1>4. QED
  BY <1>1, <1>2, <1>3, BelowInvariant, ShapesInvariant, QueriesTypeCorrect, PTL DEF QueriesSpec

-----------------------------------------------------------------------------
(* Pages.                                                                  *)

\* How many listed jobs are newer than j: where j stands in the list.
Position(filter, j) == Cardinality({i \in Listed(filter) : i > j})

\* The positions of n jobs are the numbers below n.
LEMMA PositionsAreNumbers ==
    ASSUME IsFiniteSet(DOMAIN jobs), DOMAIN jobs \subseteq Nat, NEW filter
    PROVE  /\ \A j \in Listed(filter) : Position(filter, j) \in 0 .. Cardinality(Listed(filter)) - 1
           /\ \A p \in 0 .. Cardinality(Listed(filter)) - 1 :
                 \E j \in Listed(filter) : Position(filter, j) = p
<1> DEFINE F == Listed(filter)
           n == Cardinality(F)
           newer(j) == {i \in F : i > j}
           position == [j \in F |-> Cardinality(newer(j))]
<1>1. IsFiniteSet(F) /\ F \subseteq Nat /\ n \in Nat
  BY FS_Subset, FS_CardinalityType DEF Listed
<1> HIDE DEF F
<1>2. \A j \in F : IsFiniteSet(newer(j)) /\ Cardinality(newer(j)) \in Nat
  BY <1>1, FS_Subset, FS_CardinalityType
<1>3. ASSUME NEW j \in F PROVE Cardinality(newer(j)) \in 0 .. n - 1
  <2>1. newer(j) \subseteq F \ {j}
    BY <1>1
  <2>2. Cardinality(F \ {j}) = n - 1 /\ IsFiniteSet(F \ {j})
    BY <1>1, FS_RemoveElement
  <2>3. Cardinality(newer(j)) <= n - 1
    BY <2>1, <2>2, FS_Subset
  <2>4. QED
    BY <1>1, <1>2, <2>3
<1>4. ASSUME NEW i \in F, NEW j \in F, i < j
      PROVE  Cardinality(newer(i)) # Cardinality(newer(j))
  <2>1. \A k \in F : k \in Nat
    BY <1>1
  <2>2. newer(j) \subseteq newer(i)
    BY <1>4, <2>1
  <2>3. j \in newer(i) /\ j \notin newer(j)
    BY <1>4, <2>1
  <2> HIDE DEF newer
  <2>4. QED
    BY <1>2, <2>2, <2>3, FS_Subset
<1>5. position \in Injection(F, 0 .. n - 1)
  <2>1. position \in [F -> 0 .. n - 1]
    BY <1>3
  <2>2. ASSUME NEW i \in F, NEW j \in F, i # j PROVE position[i] # position[j]
    <3>1. i < j \/ j < i
      BY <1>1, <2>2
    <3>2. Cardinality(newer(i)) # Cardinality(newer(j))
      BY <1>4, <3>1
    <3>3. QED
      BY <3>2
  <2> HIDE DEF position
  <2>3. QED
    BY <2>1, <2>2 DEF Injection, IsInjective
<1>6. IsFiniteSet(0 .. n - 1) /\ Cardinality(0 .. n - 1) = n
  <2> HIDE DEF n
  <2>1. /\ IsFiniteSet(0 .. n - 1)
        /\ Cardinality(0 .. n - 1) = IF 0 > n - 1 THEN 0 ELSE n - 1 - 0 + 1
    BY <1>1, FS_Interval
  <2>2. QED
    BY <1>1, <2>1
<1>7. position \in Surjection(F, 0 .. n - 1)
  <2> HIDE DEF position, n
  <2>1. QED
    BY <1>5, <1>6, FS_Injection DEF n
<1>8. \A p \in 0 .. n - 1 : \E j \in F : position[j] = p
  <2> HIDE DEF position, n
  <2>1. QED
    BY <1>7 DEF Surjection
<1>9. \A j \in F : Position(filter, j) = Cardinality(newer(j)) /\ position[j] = Cardinality(newer(j))
  BY DEF Position, F
<1> HIDE DEF newer, position, n
<1>10. QED
  BY <1>3, <1>8, <1>9 DEF F, n

\* A page that is not the last one is full.
LEMMA PageIsFull ==
    ASSUME IsFiniteSet(DOMAIN jobs), DOMAIN jobs \subseteq Nat, NEW filter, NEW limit \in Limit,
           NEW offset \in Nat, NEW k \in Listed(filter),
           Position(filter, k) >= offset + AnsweredLimit(limit)
    PROVE  Cardinality(Page(filter, limit, offset)) >= AnsweredLimit(limit)
<1> DEFINE size == AnsweredLimit(limit)
           page == Page(filter, limit, offset)
           numbers == offset .. offset + size - 1
           position == [j \in page |-> Position(filter, j)]
<1>1. size \in Nat \ {0}
  BY AnsweredLimitType
<1>2. page = {j \in Listed(filter) : Position(filter, j) \in numbers}
  BY DEF Page, Position, AnsweredLimit
<1>3. IsFiniteSet(page) /\ Cardinality(page) \in Nat
  <2>1. page \subseteq DOMAIN jobs
    BY <1>2 DEF Listed
  <2> HIDE DEF page
  <2>2. QED
    BY <2>1, FS_Subset, FS_CardinalityType
<1>4. numbers \subseteq 0 .. Cardinality(Listed(filter)) - 1
  <2>1. Position(filter, k) \in 0 .. Cardinality(Listed(filter)) - 1
    BY PositionsAreNumbers
  <2>2. Cardinality(Listed(filter)) \in Nat
    BY FS_Subset, FS_CardinalityType DEF Listed
  <2> HIDE DEF size
  <2>3. QED
    BY <1>1, <2>1, <2>2 DEF size
<1> HIDE DEF page, size, numbers
<1>5. \A p \in numbers : \E j \in page : Position(filter, j) = p
  BY <1>2, <1>4, PositionsAreNumbers
<1>6. position \in Surjection(page, numbers)
  <2>1. position \in [page -> numbers]
    BY <1>2
  <2>2. \A p \in numbers : \E j \in page : position[j] = p
    BY <1>5
  <2> HIDE DEF position
  <2>3. QED
    BY <2>1, <2>2 DEF Surjection
<1>7. Cardinality(numbers) = size
  <2>1. Cardinality(offset .. offset + size - 1) =
           IF offset > offset + size - 1 THEN 0 ELSE (offset + size - 1) - offset + 1
    BY <1>1, FS_Interval
  <2>2. QED
    BY <1>1, <2>1 DEF numbers
<1>8. Cardinality(numbers) <= Cardinality(page)
  BY <1>3, <1>6, FS_Surjection
<1>9. QED
  BY <1>1, <1>3, <1>7, <1>8 DEF page, size

\* While no job has left the list, the jobs that were expected and not yet seen
\* are at or behind the offset, since a list only grows at its positions.
PagingOK(listing) ==
    ~listing.left =>
        /\ listing.expected \subseteq Listed(listing.filter)
        /\ \A j \in listing.expected \ listing.returned :
              ~listing.over /\ Position(listing.filter, j) >= listing.offset

Pagings == \A r \in Reader : IsListing(r) => PagingOK(reading[r])

LEMMA NextPagings ==
    ASSUME Below, Shapes, QueriesTypeOK, IsFiniteSet(DOMAIN jobs), IsFiniteSet(DOMAIN jobs)',
           Pagings, [QueriesNext]_queryVars
    PROVE  Pagings'
<1> SUFFICES ASSUME NEW r \in Reader, IsListing(r)' PROVE PagingOK(reading[r])'
  BY DEF Pagings
<1>1. DOMAIN jobs \subseteq Nat
  BY QueriesAssumption DEF Below, TypeOK, TablesTypeOK
<1>2. ASSUME UNCHANGED vars PROVE UNCHANGED jobs
  BY <1>2 DEF vars, tables
<1>3. ASSUME NEW filter \in Filter, NEW limit \in Limit, ListingStarts(r, filter, limit)
      PROVE  PagingOK(reading[r])'
  <2>1. /\ reading'[r].filter = filter /\ reading'[r].expected = Listed(filter)
        /\ reading'[r].offset = 0 /\ reading'[r].over = FALSE /\ UNCHANGED jobs
    BY <1>2, <1>3 DEF ListingStarts
  <2>2. \A j \in Listed(filter) : Position(filter, j) >= 0
    <3>1. IsFiniteSet(Listed(filter))
      BY FS_Subset DEF Listed
    <3>2. \A j \in Listed(filter) : Position(filter, j) \in Nat
      BY <3>1, FS_Subset, FS_CardinalityType DEF Position
    <3>3. QED
      BY <3>2
  <2>3. Listed(filter)' = Listed(filter) /\ \A j : Position(filter, j)' = Position(filter, j)
    BY <2>1 DEF Listed, Position
  <2>4. QED
    BY <2>1, <2>2, <2>3 DEF PagingOK
<1>4. CASE ListingFetches(r)
  <2>1. PICK filter : filter = reading[r].filter
    OBVIOUS
  <2>2. PICK limit \in Limit : limit = reading[r].limit
    BY <1>4 DEF ListingFetches, QueriesTypeOK, ListingOK
  <2>3. PICK offset \in Nat : offset = reading[r].offset
    BY <1>4 DEF ListingFetches, QueriesTypeOK, ListingOK
  <2> DEFINE page == Page(filter, limit, offset)
             size == AnsweredLimit(limit)
  <2>4. /\ PagingOK(reading[r]) /\ UNCHANGED jobs
        /\ reading'[r].filter = filter /\ reading'[r].expected = reading[r].expected
        /\ reading'[r].offset = offset + size /\ reading'[r].over = (Cardinality(page) < size)
        /\ reading'[r].returned = reading[r].returned \cup page
        /\ reading'[r].left = reading[r].left
    BY <1>2, <1>4, <2>1, <2>2, <2>3 DEF ListingFetches, Pagings
  <2>5. size \in Nat \ {0}
    BY AnsweredLimitType
  <2>6. page = {j \in Listed(filter) : Position(filter, j) \in offset .. offset + size - 1}
    BY DEF Page, Position, AnsweredLimit
  <2>7. /\ \A j \in Listed(filter) : Position(filter, j) \in Nat
        /\ Cardinality(page) \in Nat
    <3>1. IsFiniteSet(Listed(filter)) /\ page \subseteq Listed(filter)
      BY <2>6, FS_Subset DEF Listed
    <3> HIDE DEF page
    <3>2. QED
      BY <3>1, FS_Subset, FS_CardinalityType DEF Position
  <2> HIDE DEF page, size
  <2>8. ASSUME ~reading[r].left, NEW j \in reading[r].expected \ (reading[r].returned \cup page)
        PROVE  Position(filter, j) >= offset + size /\ ~(Cardinality(page) < size)
    <3>1. j \in Listed(filter) /\ Position(filter, j) >= offset
      BY <2>1, <2>3, <2>4, <2>8 DEF PagingOK
    <3>2. Position(filter, j) >= offset + size
      BY <2>5, <2>6, <2>7, <2>8, <3>1
    <3>3. Cardinality(page) >= size
      BY <1>1, <3>1, <3>2, PageIsFull DEF page, size
    <3>4. QED
      BY <2>5, <2>7, <3>2, <3>3
  <2>9. Listed(filter)' = Listed(filter) /\ \A j : Position(filter, j)' = Position(filter, j)
    BY <2>4 DEF Listed, Position
  <2>10. ~reading[r].left => reading[r].expected \subseteq Listed(filter)
    BY <2>1, <2>4 DEF PagingOK
  <2>11. QED
    BY <2>4, <2>8, <2>9, <2>10 DEF PagingOK
<1>5. CASE ListingWaits(r)
  <2>1. PICK filter : filter = reading[r].filter
    OBVIOUS
  <2>2. /\ PagingOK(reading[r])
        /\ reading'[r].filter = filter /\ reading'[r].expected = reading[r].expected
        /\ reading'[r].offset = reading[r].offset /\ reading'[r].over = reading[r].over
        /\ reading'[r].returned = reading[r].returned
        /\ ~reading'[r].left =>
              ~reading[r].left /\ \A j \in DOMAIN jobs : ~Leaves(j, filter)
    <3> DEFINE left == \E j \in DOMAIN jobs : Leaves(j, reading[r].filter)
    <3>1. /\ IsListing(r)
          /\ reading'[r].filter = reading[r].filter /\ reading'[r].expected = reading[r].expected
          /\ reading'[r].offset = reading[r].offset /\ reading'[r].over = reading[r].over
          /\ reading'[r].returned = reading[r].returned
          /\ reading'[r].left = (reading[r].left \/ left)
      <4> HIDE DEF left
      <4>1. QED
        BY <1>5 DEF ListingWaits, left
    <3>2. ~reading'[r].left => ~reading[r].left /\ ~left
      <4> HIDE DEF left
      <4>1. QED
        BY <3>1
    <3>3. ~left => \A j \in DOMAIN jobs : ~Leaves(j, filter)
      BY <2>1
    <3> HIDE DEF left
    <3>4. QED
      BY <2>1, <3>1, <3>2, <3>3 DEF Pagings
  <2>3. SUFFICES ASSUME ~reading[r].left, \A j \in DOMAIN jobs : ~Leaves(j, filter)
                 PROVE  /\ reading[r].expected \subseteq Listed(filter)'
                        /\ \A j \in reading[r].expected \ reading[r].returned :
                              ~reading[r].over /\ Position(filter, j)' >= reading[r].offset
    BY <2>2 DEF PagingOK
  <2>4. Listed(filter) \subseteq Listed(filter)'
    <3>1. DOMAIN jobs \subseteq DOMAIN jobs'
      BY StepsBelow, RowsKept
    <3>2. QED
      BY <2>3, <3>1 DEF Listed, Leaves
  <2>5. ASSUME NEW j PROVE /\ Position(filter, j) \in Nat /\ Position(filter, j)' \in Nat
                           /\ Position(filter, j) <= Position(filter, j)'
    <3> DEFINE old == {i \in Listed(filter) : i > j}
               new == {i \in Listed(filter)' : i > j}
    <3>1. old \subseteq new /\ new \subseteq DOMAIN jobs' /\ IsFiniteSet(DOMAIN jobs')
      BY <2>4 DEF Listed
    <3>2. Position(filter, j) = Cardinality(old) /\ Position(filter, j)' = Cardinality(new)
      BY DEF Position
    <3> HIDE DEF old, new
    <3>3. QED
      BY <3>1, <3>2, FS_Subset, FS_CardinalityType
  <2>6. reading[r].offset \in Nat
    BY <1>5 DEF ListingWaits, QueriesTypeOK, ListingOK
  <2>7. /\ reading[r].expected \subseteq Listed(filter)
        /\ \A j \in reading[r].expected \ reading[r].returned :
              ~reading[r].over /\ Position(filter, j) >= reading[r].offset
    BY <2>1, <2>2, <2>3 DEF PagingOK
  <2>8. QED
    BY <2>4, <2>5, <2>6, <2>7
<1>6. CASE ListingStays(r)
  <2>1. PagingOK(reading[r]) /\ UNCHANGED <<jobs, reading[r]>>
    BY <1>2, <1>6 DEF ListingStays, Pagings
  <2>2. QED
    BY <2>1 DEF PagingOK, Listed, Position
<1>7. QED
  BY <1>3, <1>4, <1>5, <1>6, RequestSteps

\* A client that pages to the end has seen every job that was listed when it
\* began, whatever is inserted meanwhile, unless a job has left the list.
THEOREM PagingIsComplete == QueriesSpec => []PagingComplete
<1>1. QueriesInit => Pagings
  BY DEF QueriesInit, Pagings, IsListing
<1>2. Below /\ Shapes /\ QueriesTypeOK /\ IsFiniteSet(DOMAIN jobs) /\ IsFiniteSet(DOMAIN jobs)'
        /\ Pagings /\ [QueriesNext]_queryVars => Pagings'
  BY NextPagings
<1>3. Pagings => PagingComplete
  BY DEF Pagings, PagingOK, PagingComplete
<1>4. QED
  BY <1>1, <1>2, <1>3, BelowInvariant, ShapesInvariant, QueriesTypeCorrect, FinitelyManyJobs, PTL
     DEF QueriesSpec
=============================================================================
