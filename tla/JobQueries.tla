----------------------------- MODULE JobQueries -----------------------------
(***************************************************************************)
(* What the API reads of the jobs table while workers and clients change   *)
(* it: GET /queue/depth, GET /metrics, and a client that pages through     *)
(* GET /jobs.  The first two are a request of several SELECTs, the third   *)
(* several requests of one; at the isolation level READ COMMITTED each     *)
(* SELECT sees what is committed when it starts.                           *)
(*                                                                         *)
(* A count is kept as the set of the rows counted.  Jobs are numbered in   *)
(* the order of created_at, which no two share; they may be committed in   *)
(* another order.                                                          *)
(***************************************************************************)
EXTENDS SqlJobRepository, Sequences, Functions

CONSTANTS Reader,       \* clients that read
          Limit,        \* page sizes they ask for
          Filter,       \* statuses they ask for; None is no filter
          MaxPageSize   \* setting max_page_size

ASSUME QueriesAssumption ==
    /\ JobId \subseteq Nat
    /\ Limit \subseteq Nat \ {0} /\ MaxPageSize \in Nat \ {0}
    /\ Filter \subseteq JobStatus \cup {None}

VARIABLE reading   \* what each client is reading

queryVars == <<vars, reading>>

-----------------------------------------------------------------------------
(* The SELECTs of a report, in their order, and the rows of each.          *)

\* Mutation: the metrics count backwards.
MetricsReversed(kind) ==
    IF kind = "depth" THEN <<"pending", "due", "running", "dead_lettered", "by_priority">>
    ELSE <<"queued", "running", "latencies", "dead_lettered", "failed", "succeeded">>

Columns(kind) ==
    IF kind = "depth" THEN <<"pending", "due", "running", "dead_lettered", "by_priority">>
    ELSE <<"succeeded", "failed", "dead_lettered", "latencies", "running", "queued">>

\* Mutation: the backlog is what waits for its first attempt.
SelectedQueued(column, now) ==
    CASE column \in {"pending", "by_priority"} -> {j \in DOMAIN jobs : jobs[j].status = "queued"}
      [] column = "due" -> {j \in DOMAIN jobs \cap due \cap now : jobs[j].status \in Pending}
      [] column = "latencies" -> {j \in DOMAIN jobs : jobs[j].processed}
      [] OTHER -> {j \in DOMAIN jobs : jobs[j].status = column}

\* now are the jobs that were due when the request came.
Selected(column, now) ==
    CASE column \in {"pending", "by_priority"} -> {j \in DOMAIN jobs : jobs[j].status \in Pending}
      [] column = "due" -> {j \in DOMAIN jobs \cap due \cap now : jobs[j].status \in Pending}
      [] column = "latencies" -> {j \in DOMAIN jobs : jobs[j].processed}
      [] OTHER -> {j \in DOMAIN jobs : jobs[j].status = column}

AtLeast(n, m) == IF n < m THEN m ELSE n

\* The SELECT of the retries is one snapshot, so that it can be looked at by
\* itself: each row counts attempt_count - 1, also if it was never attempted.
RetryCount == AtLeast(SumFunction([j \in DOMAIN jobs |-> jobs[j].attempt_count - 1]), 0)

-----------------------------------------------------------------------------
(* The requests.                                                           *)

IsReport(r) == reading[r] # None /\ reading[r].kind # "list"
IsListing(r) == reading[r] # None /\ reading[r].kind = "list"

\* What a request has collected names jobs that exist, and a report has run the
\* first of its SELECTs and no other.
ReportOK(report) ==
    LET columns == Columns(report.kind)
    IN  /\ report.kind \in {"depth", "metrics"} /\ report.done \in 0 .. Len(columns)
        /\ DOMAIN report.counted = {columns[i] : i \in 1 .. report.done}
        /\ \A column \in DOMAIN report.counted : report.counted[column] \subseteq DOMAIN jobs

ListingOK(listing) ==
    /\ listing.returned \cup listing.expected \subseteq DOMAIN jobs
    /\ listing.filter \in Filter /\ listing.limit \in Limit /\ listing.offset \in Nat

QueriesTypeOK ==
    /\ DOMAIN reading = Reader
    /\ \A r \in Reader : IsReport(r) => ReportOK(reading[r])
    /\ \A r \in Reader : IsListing(r) => ListingOK(reading[r])

QueriesInit == Init /\ reading = [r \in Reader |-> None]

StartReport(r, kind) ==
    /\ reading[r] = None
    /\ reading' = [reading EXCEPT ![r] =
          [kind |-> kind, now |-> due, done |-> 0, counted |-> << >>, moved |-> {}]]
    /\ UNCHANGED vars

Complete(r) == reading[r].done = Len(Columns(reading[r].kind))

\* Mutation: the SELECTs in the opposite order.
CountBackwards(r) ==
    LET report == reading[r]
        columns == Columns(report.kind)
        column == columns[Len(columns) - report.done]
    IN  /\ IsReport(r) /\ ~Complete(r)
        /\ reading' = [reading EXCEPT
              ![r].counted = Store(@, column, Selected(column, report.now)), ![r].done = @ + 1]
        /\ UNCHANGED vars

\* The next SELECT of a report.
Count(r) ==
    LET report == reading[r]
        column == Columns(report.kind)[report.done + 1]
    IN  /\ IsReport(r) /\ ~Complete(r)
        /\ reading' = [reading EXCEPT
              ![r].counted = Store(@, column, Selected(column, report.now)), ![r].done = @ + 1]
        /\ UNCHANGED vars

Listed(filter) == {j \in DOMAIN jobs : filter \in {None, jobs[j].status}}

StartListing(r, filter, limit) ==
    /\ reading[r] = None
    /\ reading' = [reading EXCEPT ![r] =
          [kind |-> "list", filter |-> filter, limit |-> limit, offset |-> 0, over |-> FALSE,
           returned |-> {}, expected |-> Listed(filter), left |-> FALSE]]
    /\ UNCHANGED vars

\* Mutation: the answer names the limit that was asked for.
RequestedLimit(limit) == limit

\* The limit the API answers with.
AnsweredLimit(limit) == IF limit < MaxPageSize THEN limit ELSE MaxPageSize

\* The query of list_jobs, with the limit that JobService gives it: created_at
\* descending, so that a job is behind the newer ones of the list.
Page(filter, limit, offset) ==
    LET newer(j) == {i \in Listed(filter) : i > j}
        size == IF limit < MaxPageSize THEN limit ELSE MaxPageSize
    IN  {j \in Listed(filter) : Cardinality(newer(j)) \in offset .. offset + size - 1}

\* GET /jobs, and the client goes on behind the page it got, until one is short.
FetchPage(r) ==
    LET page == Page(reading[r].filter, reading[r].limit, reading[r].offset)
        limit == AnsweredLimit(reading[r].limit)
    IN  /\ IsListing(r) /\ ~reading[r].over
        /\ reading' = [reading EXCEPT
              ![r].returned = @ \cup page, ![r].offset = @ + limit,
              ![r].over = Cardinality(page) < limit]
        /\ UNCHANGED vars

\* The client has what it asked for.
Finish(r) ==
    /\ reading[r] # None
    /\ IF IsReport(r) THEN Complete(r) ELSE reading[r].over
    /\ reading' = [reading EXCEPT ![r] = None]
    /\ UNCHANGED vars

Changed(j) == j \notin DOMAIN jobs \/ jobs'[j] # jobs[j] \/ (j \in due') # (j \in due)

Leaves(j, filter) == filter # None /\ jobs[j].status = filter /\ jobs'[j].status # filter

\* Any other process goes on.  moved and left are history: the jobs that have
\* changed since the request came, and whether a job has left the list.
Elsewhere ==
    /\ Next
    /\ reading' = [r \in Reader |->
          CASE IsReport(r) ->
                 [reading[r] EXCEPT !.moved = @ \cup {j \in DOMAIN jobs' : Changed(j)}]
            [] IsListing(r) ->
                 [reading[r] EXCEPT
                    !.left = @ \/ \E j \in DOMAIN jobs : Leaves(j, reading[r].filter)]
            [] OTHER -> None]

QueriesNext ==
    \/ Elsewhere
    \/ \E r \in Reader :
          \/ \E kind \in {"depth", "metrics"} : StartReport(r, kind)
          \/ \E filter \in Filter, limit \in Limit : StartListing(r, filter, limit)
          \/ Count(r) \/ FetchPage(r) \/ Finish(r)

QueriesSpec == QueriesInit /\ [][QueriesNext]_queryVars

-----------------------------------------------------------------------------
\* No report of the metrics counts a job as a success and as a failure, or as
\* running and as queued, whatever happens between the SELECTs, if every schedule
\* has a next run (a job without one succeeds and is then failed).  It is the order
\* of the SELECTs that gives this.  The two failure counts may overlap: see
\* FailuresCountedOnce.
SuccessesAreNoFailures ==
    \A r \in Reader : IsReport(r) /\ Complete(r) /\ reading[r].kind = "metrics" =>
        LET counted == reading[r].counted
        IN  /\ counted["succeeded"] \cap (counted["failed"] \cup counted["dead_lettered"]) = {}
            /\ counted["running"] \cap counted["queued"] = {}

\* A job that nothing happens to during a request is in the report once, in the
\* column of its status; in the depth it is in the backlog and in the depth by
\* priority alike, and due only if it is in the backlog.
StableJobsCounted ==
    \A r \in Reader : IsReport(r) /\ Complete(r) =>
        LET counted == reading[r].counted
            depth == reading[r].kind = "depth"
            waiting(j) == IF depth THEN jobs[j].status \in Pending ELSE jobs[j].status = "queued"
        IN  \A j \in DOMAIN jobs \ reading[r].moved :
              /\ \A column \in DOMAIN counted \ {"latencies", "due"} :
                    j \in counted[column] <=>
                       IF column \in {"pending", "by_priority", "queued"} THEN waiting(j)
                                                                   ELSE jobs[j].status = column
              /\ depth => (j \in counted["due"] <=> Claimable(j))

\* A client that pages to the end has seen every job that was listed when it
\* began, also if jobs are submitted meanwhile, in any order of created_at,
\* unless a job has left the list by a change of its status.
PagingComplete ==
    \A r \in Reader : IsListing(r) /\ reading[r].over /\ ~reading[r].left =>
        reading[r].expected \subseteq reading[r].returned

-----------------------------------------------------------------------------
(* What the documents say of the metrics and the code does not do.         *)

\* SPEC.md: "failure counters derived from terminal job status transitions", of
\* which a job makes one: no report has it in both counts that GET /metrics adds up.
FailuresCountedOnce ==
    \A r \in Reader : IsReport(r) /\ Complete(r) /\ reading[r].kind = "metrics" =>
        reading[r].counted["failed"] \cap reading[r].counted["dead_lettered"] = {}

\* SPEC.md: "Job latency from submission to terminal state": the jobs it is taken
\* from have ended.
LatenciesOfEnded ==
    \A r \in Reader : IsReport(r) /\ "latencies" \in DOMAIN reading[r].counted =>
        \A j \in reading[r].counted["latencies"] : jobs[j].status \in Terminal

\* SPEC.md: a "Retry" counter "for worker failure visibility": it counts the
\* attempts that were made after the first one of a job.
RetriesCounted == RetryCount = Cardinality({key \in DOMAIN attempts : key[2] > 1})
=============================================================================
