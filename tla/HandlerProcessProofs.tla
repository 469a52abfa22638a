------------------------ MODULE HandlerProcessProofs ------------------------
(***************************************************************************)
(* The safety of one _run_with_timeout call, with and without an inherited *)
(* SIGTERM handler, for handlers and outcomes of every kind.               *)
(***************************************************************************)
EXTENDS HandlerProcess, TLAPS

\* Once the worker is past its joins the child is gone; a timeout is what sends
\* a signal.
Joined ==
    /\ parent \in {"polling", "reading", "done"} => child = "dead"
    /\ parent = "terminating" \/ verdict = "timed_out" => expired
    /\ signalled => parent \in {"terminating", "done", "gone"}

\* What the child's queue holds.  An outcome that left the buffer is in the pipe
\* until the worker takes it, so that a child that came to its end by itself
\* has left one there.
OutcomeKept ==
    /\ child = "running" => ~buffered /\ pipe = "empty" /\ outcome = None
    /\ pipe = "complete" => outcome # None
    /\ child = "exiting" => outcome # None
    /\ child = "exiting" /\ ~buffered => pipe = "complete"
    /\ child = "dead" /\ ~killed /\ parent \in {"joining", "polling"} => pipe = "complete"

IInv == TypeOK /\ Joined /\ OutcomeKept /\ NoOrphan /\ VerdictIsTrue

LEMMA InitIInv == Init => IInv
  BY HandlerAssumption
     DEF Init, IInv, TypeOK, Joined, OutcomeKept, NoOrphan, VerdictIsTrue

LEMMA NextIInv == IInv /\ [Next]_vars => IInv'
<1> SUFFICES ASSUME IInv, [Next]_vars PROVE IInv'
  OBVIOUS
<1> USE HandlerAssumption DEF IInv, TypeOK, Joined, OutcomeKept, NoOrphan, VerdictIsTrue, call
<1>1. CASE HandlerEnds
  BY <1>1 DEF HandlerEnds
<1>2. CASE Feed
  BY <1>2 DEF Feed
<1>3. CASE ChildExits
  BY <1>3 DEF ChildExits
<1>4. CASE TermDelivered
  BY <1>4 DEF TermDelivered
<1>5. CASE ChildKilled
  BY <1>5 DEF ChildKilled
<1>6. CASE Expire
  BY <1>6 DEF Expire
<1>7. CASE JoinDead
  BY <1>7 DEF JoinDead
<1>8. CASE Terminate
  BY <1>8 DEF Terminate
<1>9. CASE GiveUp
  BY <1>9 DEF GiveUp, Return
<1>10. CASE PollQueue
  BY <1>10 DEF PollQueue, Return
<1>11. CASE Get
  BY <1>11 DEF Get, Return
<1>12. CASE WorkerKilled
  BY <1>12 DEF WorkerKilled
<1>13. CASE UNCHANGED vars
  BY <1>13 DEF vars
<1>14. QED
  BY <1>1, <1>2, <1>3, <1>4, <1>5, <1>6, <1>7, <1>8, <1>9, <1>10, <1>11, <1>12, <1>13
     DEF Next, Child, Parent

LEMMA InductiveInvariant == Spec => []IInv
<1>1. QED
  BY InitIInv, NextIInv, PTL DEF Spec

\* The state of a call, and that exactly a call that is over has a verdict.
THEOREM CallTypeOK == Spec => []TypeOK
<1>1. IInv => TypeOK
  BY DEF IInv
<1>2. QED
  BY <1>1, InductiveInvariant, PTL

\* A call that is over leaves no process of its handler behind.
THEOREM NoOrphanLeft == Spec => []NoOrphan
<1>1. IInv => NoOrphan
  BY DEF IInv
<1>2. QED
  BY <1>1, InductiveInvariant, PTL

\* What a call returns or raises is what happened.
THEOREM VerdictsAreTrue == Spec => []VerdictIsTrue
<1>1. IInv => VerdictIsTrue
  BY DEF IInv
<1>2. QED
  BY <1>1, InductiveInvariant, PTL
=============================================================================
