-------------------------- MODULE MCJobSubmission ---------------------------
(* Small instances of JobSubmission for TLC.                               *)
EXTENDS JobSubmission

\* Requests with a key are urgent, the others have the lowest priority.
TwoPriorities ==
    {[key |-> key, priority |-> IF key = None THEN 0 ELSE 9] : key \in Key \cup {None}}
=============================================================================
