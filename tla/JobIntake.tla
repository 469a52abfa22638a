------------------------------ MODULE JobIntake -----------------------------
(***************************************************************************)
(* What submission promises, with a request's effect on the jobs, and its  *)
(* answer, a single step each: a key has one job, an answer is about a job *)
(* that exists already, a job is taken by one worker at a time, not before *)
(* its time, not while the system drains and never after it was closed.    *)
(***************************************************************************)
CONSTANTS Request,   \* requests, and the jobs named after them
          Key,       \* idempotency keys
          None       \* no key, no answer, no job

VARIABLES
    accepted,   \* a function from the jobs that were accepted to their keys
    standing,   \* whether each accepted job is open, taken or closed
    later,      \* the open jobs whose time is still to come
    drain,      \* whether no more jobs are to be taken
    answer      \* what each request was answered, on which key

vars == <<accepted, standing, later, drain, answer>>

Init ==
    /\ accepted = << >> /\ standing = << >> /\ later = {} /\ drain = FALSE
    /\ answer = [r \in Request |-> None]

\* The one step that makes a job: nobody else has a job with its key.
Accept(r, key) ==
    /\ r \notin DOMAIN accepted /\ answer[r] = None
    /\ key = None \/ \A id \in DOMAIN accepted : accepted[id] # key
    /\ accepted' = [id \in DOMAIN accepted \cup {r} |-> IF id = r THEN key ELSE accepted[id]]
    /\ standing' = [id \in DOMAIN accepted \cup {r} |-> IF id = r THEN "open" ELSE standing[id]]
    /\ later' \in {later, later \cup {r}}
    /\ UNCHANGED <<drain, answer>>

Reply(r, key, code, id) ==
    /\ answer[r] = None
    /\ answer' = [answer EXCEPT ![r] = [key |-> key, code |-> code, id |-> id]]
    /\ UNCHANGED <<accepted, standing, later, drain>>

\* The client learns of its own job, published or not, ...
Confirm(r) == r \in DOMAIN accepted /\ \E code \in {201, 503} : Reply(r, accepted[r], code, r)

\* ... or of the one that has its key already, and then it gets no other, ...
Replay(r, id) ==
    /\ r \notin DOMAIN accepted /\ id \in DOMAIN accepted /\ accepted[id] # None
    /\ Reply(r, accepted[id], 200, id)

\* ... or that it gets none.
Refuse(r) == r \notin DOMAIN accepted /\ \E code \in {400, 422, 500} : Reply(r, None, code, None)

ComeDue(id) ==
    /\ id \in later
    /\ later' = later \ {id}
    /\ UNCHANGED <<accepted, standing, drain, answer>>

Is(id, where) == id \in DOMAIN accepted /\ standing[id] = where

Take(id) ==
    /\ ~drain /\ Is(id, "open") /\ id \notin later
    /\ standing' = [standing EXCEPT ![id] = "taken"]
    /\ UNCHANGED <<accepted, later, drain, answer>>

\* The worker that took it is done with the job, or leaves it for later.
Close(id) ==
    /\ Is(id, "taken")
    /\ standing' = [standing EXCEPT ![id] = "closed"]
    /\ UNCHANGED <<accepted, later, drain, answer>>

PutBack(id) ==
    /\ Is(id, "taken")
    /\ standing' = [standing EXCEPT ![id] = "open"]
    /\ later' = later \cup {id}
    /\ UNCHANGED <<accepted, drain, answer>>

Cancel(id) ==
    /\ Is(id, "open")
    /\ standing' = [standing EXCEPT ![id] = "closed"]
    /\ later' = later \ {id}
    /\ UNCHANGED <<accepted, drain, answer>>

SwitchDrain == drain' = ~drain /\ UNCHANGED <<accepted, standing, later, answer>>

Next ==
    \/ \E r \in Request, key \in Key \cup {None} : Accept(r, key)
    \/ \E r \in Request : Confirm(r) \/ Refuse(r) \/ \E id \in DOMAIN accepted : Replay(r, id)
    \/ \E id \in Request : ComeDue(id) \/ Take(id) \/ Close(id) \/ PutBack(id) \/ Cancel(id)
    \/ SwitchDrain

Spec == Init /\ [][Next]_vars
=============================================================================
