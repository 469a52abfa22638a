--------------------------- MODULE HandlerProcess ---------------------------
(***************************************************************************)
(* One call of JobService._run_with_timeout: the worker forks a child that *)
(* runs the handler and puts its outcome into a multiprocessing.Queue,     *)
(* waits for the child at most timeout_seconds, and terminates it if it is *)
(* still alive.                                                            *)
(*                                                                         *)
(* The queue is a buffer and a feeder thread in the child, and a pipe.     *)
(* Queue.put fills the buffer; the feeder writes the pickled outcome to    *)
(* the pipe, which holds 64 KiB; a child that ends waits for its feeder.   *)
(* The worker keeps the pipe's write end open, so that it never reads an   *)
(* end of file.  SIGTERM ends the child unless it inherited the handler    *)
(* that Worker.run installs before the first fork.                         *)
(***************************************************************************)
CONSTANTS SignalHandler,  \* whether the caller of the service has installed one
          None            \* no outcome, no verdict

ASSUME HandlerAssumption ==
    /\ SignalHandler \subseteq BOOLEAN
    /\ None \notin {"ok", "error", "timed_out", "no_result"}

VARIABLES
    inherited,  \* the child has a SIGTERM handler, which does not end it
    endless,    \* the handler does not end by itself
    large,      \* the pickled outcome does not fit into the pipe
    parent,     \* where the worker is in _run_with_timeout
    expired,    \* timeout_seconds have passed
    verdict,    \* what _run_with_timeout returns or raises
    child,      \* the child's main thread
    signalled,  \* a SIGTERM to the child is pending
    outcome,    \* how the handler ended
    buffered,   \* the outcome is in the child's buffer, not yet written
    pipe,       \* how much of the outcome is in the pipe
    killed      \* something else than this call killed the child

call == <<inherited, endless, large>>
vars == <<call, parent, expired, verdict, child, signalled, outcome, buffered, pipe, killed>>

\* The call's state is one the code can name, and a call that is over has
\* either a value or an exception.
TypeOK ==
    /\ inherited \in SignalHandler /\ endless \in BOOLEAN /\ large \in BOOLEAN
    /\ parent \in {"joining", "terminating", "polling", "reading", "done", "gone"}
    /\ expired \in BOOLEAN
    /\ verdict \in {None, "ok", "error", "timed_out", "no_result"}
    /\ parent = "done" <=> verdict # None
    /\ child \in {"running", "exiting", "dead"}
    /\ signalled \in BOOLEAN
    /\ outcome \in {None, "ok", "error"}
    /\ buffered \in BOOLEAN
    /\ pipe \in {"empty", "partial", "complete"}
    /\ killed \in BOOLEAN

\* process.start() has returned.
Init ==
    /\ inherited \in SignalHandler /\ endless \in BOOLEAN /\ large \in BOOLEAN
    /\ parent = "joining" /\ child = "running"
    /\ verdict = None /\ outcome = None
    /\ pipe = "empty"
    /\ expired = FALSE /\ signalled = FALSE /\ buffered = FALSE /\ killed = FALSE

-----------------------------------------------------------------------------
(* The child process.                                                      *)

\* The handler returns or raises, and _handler_process puts the outcome.
HandlerEnds ==
    /\ child = "running" /\ ~endless
    /\ \E status \in {"ok", "error"} : outcome' = status
    /\ buffered' = TRUE
    /\ child' = "exiting"
    /\ UNCHANGED <<call, parent, expired, verdict, signalled, pipe, killed>>

\* Mutation: the feeder writes nothing, however small, once the worker is gone.
FeedReader ==
    /\ buffered /\ child # "dead" /\ parent # "gone"
    /\ \/ /\ large => parent = "reading"
          /\ pipe' = "complete" /\ buffered' = FALSE
       \/ /\ large /\ parent # "reading" /\ pipe = "empty"
          /\ pipe' = "partial" /\ UNCHANGED buffered
    /\ UNCHANGED <<call, parent, expired, verdict, child, signalled, outcome, killed>>

\* The feeder writes as much as the pipe takes.  The child holds a read end of
\* its own, so that the write just waits when the worker is gone.
Feed ==
    /\ buffered /\ child # "dead"
    /\ \/ /\ large => parent = "reading"
          /\ pipe' = "complete" /\ buffered' = FALSE
       \/ /\ large /\ parent # "reading" /\ pipe = "empty"
          /\ pipe' = "partial" /\ UNCHANGED buffered
    /\ UNCHANGED <<call, parent, expired, verdict, child, signalled, outcome, killed>>

\* Mutation: the child ends without joining its feeder thread.
ExitAtOnce ==
    /\ child = "exiting"
    /\ child' = "dead" /\ buffered' = FALSE
    /\ UNCHANGED <<call, parent, expired, verdict, signalled, outcome, pipe, killed>>

\* The exit function of the queue joins the feeder thread.
ChildExits ==
    /\ child = "exiting" /\ ~buffered
    /\ child' = "dead"
    /\ UNCHANGED <<call, parent, expired, verdict, signalled, outcome, buffered, pipe, killed>>

\* Mutation: no child ever dies of SIGTERM.
TermIgnored ==
    /\ signalled /\ child # "dead"
    /\ signalled' = FALSE
    /\ UNCHANGED <<call, parent, expired, verdict, child, outcome, buffered, pipe, killed>>

\* SIGTERM reaches the child.  The inherited handler, Worker.stop, clears a
\* flag of the child's copy of the worker, and the handler goes on.
TermDelivered ==
    /\ signalled /\ child # "dead"
    /\ signalled' = FALSE
    /\ IF inherited THEN UNCHANGED <<child, buffered>>
                    ELSE child' = "dead" /\ buffered' = FALSE
    /\ UNCHANGED <<call, parent, expired, verdict, outcome, pipe, killed>>

\* The child is killed from outside, for its memory for instance.
ChildKilled ==
    /\ child # "dead"
    /\ child' = "dead" /\ buffered' = FALSE /\ killed' = TRUE
    /\ UNCHANGED <<call, parent, expired, verdict, signalled, outcome, pipe>>

-----------------------------------------------------------------------------
(* The worker.                                                             *)

Expire ==
    /\ parent = "joining" /\ ~expired
    /\ expired' = TRUE
    /\ UNCHANGED <<call, parent, verdict, child, signalled, outcome, buffered, pipe, killed>>

\* process.join(timeout_seconds) has returned and is_alive() says FALSE.
JoinDead ==
    /\ parent = "joining" /\ child = "dead"
    /\ parent' = "polling"
    /\ UNCHANGED <<call, expired, verdict, child, signalled, outcome, buffered, pipe, killed>>

\* ... or TRUE: process.terminate().
Terminate ==
    /\ parent = "joining" /\ expired /\ child # "dead"
    /\ parent' = "terminating"
    /\ signalled' = TRUE
    /\ UNCHANGED <<call, expired, verdict, child, outcome, buffered, pipe, killed>>

Return(v) == parent' = "done" /\ verdict' = v

\* Mutations: the terminated child is not waited for; the call goes on after a
\* timeout as if it had not happened.
GiveUpAtOnce ==
    /\ parent = "terminating"
    /\ Return("timed_out")
    /\ UNCHANGED <<call, expired, child, signalled, outcome, buffered, pipe, killed>>

GiveUpSilently ==
    /\ parent = "terminating" /\ child = "dead"
    /\ parent' = "done"
    /\ UNCHANGED <<call, expired, verdict, child, signalled, outcome, buffered, pipe, killed>>

\* process.join() without a timeout has returned: "job attempt timed out".
GiveUp ==
    /\ parent = "terminating" /\ child = "dead"
    /\ Return("timed_out")
    /\ UNCHANGED <<call, expired, child, signalled, outcome, buffered, pipe, killed>>

\* queue.empty(): "job attempt failed without a result", or go on and read.
PollQueue ==
    /\ parent = "polling"
    /\ \/ pipe = "empty" /\ Return("no_result")
       \/ pipe # "empty" /\ parent' = "reading" /\ UNCHANGED verdict
    /\ UNCHANGED <<call, expired, child, signalled, outcome, buffered, pipe, killed>>

\* queue.get() returns once the whole outcome has been read.
Get ==
    /\ parent = "reading" /\ pipe = "complete"
    /\ Return(outcome)
    /\ pipe' = "empty"
    /\ UNCHANGED <<call, expired, child, signalled, outcome, buffered, killed>>

\* The worker is killed; nothing tells its child, which is no daemon process.
WorkerKilled ==
    /\ parent \notin {"done", "gone"}
    /\ parent' = "gone"
    /\ UNCHANGED <<call, expired, verdict, child, signalled, outcome, buffered, pipe, killed>>

-----------------------------------------------------------------------------
Child == HandlerEnds \/ Feed \/ ChildExits \/ TermDelivered
Parent == Expire \/ JoinDead \/ Terminate \/ GiveUp \/ PollQueue \/ Get

Next == Child \/ ChildKilled \/ Parent \/ WorkerKilled

Spec == Init /\ [][Next]_vars

\* Time passes, the worker is scheduled, and so is each thread of the child;
\* a pending signal is delivered.
FairSpec ==
    /\ Spec
    /\ WF_vars(HandlerEnds) /\ WF_vars(Feed) /\ WF_vars(ChildExits) /\ WF_vars(TermDelivered)
    /\ WF_vars(Parent)

-----------------------------------------------------------------------------
\* When _run_with_timeout returns or raises, the handler's process is gone, so
\* that an attempt that is recorded has no effects any more, and a retry never
\* overlaps with the attempt before it.
NoOrphan == parent = "done" => child = "dead"

\* The verdict is the truth: a value or an error is what the handler ended
\* with; a handler that ended is reported as "failed without a result" only if
\* its process was killed by someone else.
VerdictIsTrue ==
    /\ verdict \in {"ok", "error"} => verdict = outcome
    /\ verdict = "no_result" => killed
    /\ verdict = "timed_out" => expired

\* The call returns, if nobody kills the worker or the child, except that in a
\* worker it depends on the handler: one that does not end, or whose outcome is
\* larger than the pipe, is never got rid of.
CallReturns ==
    ~(inherited /\ (endless \/ large)) /\ [](~killed /\ parent # "gone") => <>(parent = "done")

\* The child of a worker that is killed ends by itself, with nobody left to
\* enforce the timeout, unless its handler does not end or its outcome is larger
\* than the pipe.
OrphanEnds == ~(endless \/ large) => (parent = "gone" ~> child = "dead")

\* CODE_REVIEW.md: "Running the handler in a child process lets the worker
\* terminate a timed-out attempt."
TimeoutEndsAttempt ==
    expired /\ ~killed /\ parent # "gone" ~> child = "dead" \/ parent = "gone"
=============================================================================
