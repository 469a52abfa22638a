------------------------ MODULE JobSubmissionProofs -------------------------
(***************************************************************************)
(* Proofs about JobSubmission: for any number of requests, keys, workers   *)
(* and any batch size, type correctness, agreement of the answers on a     *)
(* key, durability of what an answer names, a sweep that is never stuck,   *)
(* and the refinement of JobIntake.                                        *)
(***************************************************************************)
EXTENDS JobSubmission, FiniteSetTheorems, WellFoundedInduction, TLAPS

\* What is known of a request at each stage of submit_job.  The answer to an
\* accepted request names a row with its key, its own row if it inserted one.
RequestOK(r) ==
    /\ stage[r] = "new" => body[r] = None
    /\ stage[r] \in {"inserting", "conflict", "publishing"} => body[r] \in Body
    /\ stage[r] \in {"new", "inserting", "conflict"} => r \notin DOMAIN rows
    /\ stage[r] = "conflict" => body[r].key # None /\ WithKey(body[r].key) # {}
    /\ stage[r] = "publishing" => r \in DOMAIN rows
    /\ answer[r] # None =>
          \/ /\ answer[r].code \in Refused /\ answer[r].id = None
             /\ body[r] = None /\ r \notin DOMAIN rows
          \/ /\ answer[r].code \in {200, 201, 503}
             /\ answer[r].id \in DOMAIN rows
             /\ body[answer[r].id].key = body[r].key
             /\ answer[r].code # 200 => answer[r].id = r

\* A row belongs to a request that was read; no two rows have one key.
KeysUnique ==
    /\ \A id \in DOMAIN rows : body[id] \in Body
    /\ \A i, j \in DOMAIN rows : body[i].key = body[j].key /\ body[i].key # None => i = j

IInv == TypeOK /\ KeysUnique /\ \A r \in Request : RequestOK(r)

-----------------------------------------------------------------------------
\* The initial states satisfy the invariant: no request was read, no row exists.
LEMMA InitIInv == Init => IInv
<1> SUFFICES ASSUME Init PROVE IInv
    OBVIOUS
<1>1. DOMAIN rows = {} /\ DOMAIN created = {} /\ created \in Seq(Request)
    BY DEF Init
<1>2. batch \in [Sweeper -> Seq(DOMAIN rows)] /\ \A w \in Sweeper : Len(batch[w]) <= BatchSize
    BY SubmissionAssumption DEF Init
<1>3. TypeOK
    BY <1>1, <1>2 DEF Init, TypeOK, Stage, Range, IsInjective
<1>4. KeysUnique
    BY <1>1 DEF KeysUnique
<1>5. \A r \in Request : RequestOK(r)
    BY <1>1 DEF Init, RequestOK
<1> QED
    BY <1>3, <1>4, <1>5 DEF IInv

\* A step of one request that inserts no row and keeps its body: only what is
\* known of that request has to be shown again.
LEMMA OwnStep ==
    ASSUME IInv, NEW r \in Request,
           UNCHANGED <<body, rows, waiting, created, batch, drain>>,
           topic' \subseteq DOMAIN rows,
           stage' \in [Request -> Stage], answer' \in [Request -> Answer \cup {None}],
           \A q \in Request \ {r} : stage'[q] = stage[q] /\ answer'[q] = answer[q],
           stage'[r] = "answered" <=> answer'[r] # None,
           RequestOK(r)'
    PROVE  IInv'
<1>1. TypeOK'
    <2>1. \A q \in Request : stage'[q] = "answered" <=> answer'[q] # None
        BY DEF IInv, TypeOK
    <2> QED
        BY <2>1 DEF IInv, TypeOK
<1>2. KeysUnique'
    BY DEF IInv, KeysUnique
<1>3. \A q \in Request : RequestOK(q)'
    BY DEF IInv, RequestOK, WithKey
<1> QED
    BY <1>1, <1>2, <1>3 DEF IInv

\* The sweeps, deliveries and losses of the workers leave requests alone, and
\* so do attempts, cancellations and the clock: rows change, none is added.
LEMMA WorkerStep ==
    ASSUME IInv, UNCHANGED <<requests, created>>,
           DOMAIN rows' = DOMAIN rows,
           TypeOK'
    PROVE  IInv'
<1>1. KeysUnique'
    BY DEF IInv, KeysUnique, requests
<1>2. \A q \in Request : RequestOK(q)'
    BY DEF IInv, RequestOK, WithKey, requests
<1> QED
    BY <1>1, <1>2 DEF IInv

-----------------------------------------------------------------------------
(* The steps of a request.                                                 *)

\* Refusing a request is its first and last step: it has no row.
LEMMA RefuseStep == ASSUME IInv, NEW r \in Request, Refuse(r) PROVE IInv'
<1>1. PICK code \in Refused : Reply(r, code, None)
    BY DEF Refuse
<1>2. [code |-> code, id |-> None] \in Answer /\ [code |-> code, id |-> None] # None
    BY SubmissionAssumption DEF Answer
<1>3. /\ stage[r] = "new" /\ body[r] = None /\ r \notin DOMAIN rows
      /\ UNCHANGED <<body, rows, waiting, created, topic, batch, drain>>
    BY DEF IInv, RequestOK, Refuse, table
<1>4. stage' = [stage EXCEPT ![r] = "answered"]
    BY <1>1 DEF Reply
<1>5. answer' = [answer EXCEPT ![r] = [code |-> code, id |-> None]]
    BY <1>1 DEF Reply
<1>6. /\ stage' \in [Request -> Stage] /\ answer' \in [Request -> Answer \cup {None}]
      /\ stage'[r] = "answered" /\ answer'[r] = [code |-> code, id |-> None]
      /\ \A q \in Request \ {r} : stage'[q] = stage[q] /\ answer'[q] = answer[q]
    BY <1>2, <1>4, <1>5 DEF IInv, TypeOK, Stage
<1>7. RequestOK(r)'
    BY <1>3, <1>6 DEF RequestOK
<1> QED
    BY <1>2, <1>3, <1>6, <1>7, OwnStep DEF IInv, TypeOK

\* The request is read, at a time when no row is its own.
LEMMA LookupStep ==
    ASSUME IInv, NEW r \in Request, NEW b \in Body, Lookup(r, b)
    PROVE  IInv'
<1> DEFINE key == b.key
<1>1. b \in Body /\ b.key = key
    OBVIOUS
<1>2. stage[r] = "new" /\ r \notin DOMAIN rows /\ answer[r] = None
    BY DEF IInv, TypeOK, RequestOK, Lookup
<1>3. /\ body' \in [Request -> Body \cup {None}] /\ body'[r] = b
      /\ \A q \in Request \ {r} : body'[q] = body[q]
      /\ UNCHANGED <<rows, waiting, created, topic, batch, drain>>
    BY <1>1 DEF IInv, TypeOK, Lookup, table
<1>4. \A id \in DOMAIN rows : id \in Request \ {r} /\ body'[id] = body[id]
    BY <1>2, <1>3 DEF IInv, TypeOK
<1>5. KeysUnique'
    BY <1>3, <1>4 DEF IInv, KeysUnique
<1>6. \A q \in Request \ {r} : WithKey(body[q].key)' = WithKey(body[q].key)
    BY <1>3, <1>4 DEF WithKey
<1>7. waiting' \subseteq {id \in DOMAIN rows' : rows'[id].status \in Pending}
    BY <1>3 DEF IInv, TypeOK
<1>8. CASE key # None /\ \E id \in WithKey(key) : Reply(r, 200, id)
    <2>1. PICK id \in WithKey(key) : Reply(r, 200, id)
        BY <1>8
    <2>2. id \in DOMAIN rows /\ id \in Request /\ body[id].key = key
        BY DEF WithKey, IInv, TypeOK
    <2>3. [code |-> 200, id |-> id] \in Answer /\ [code |-> 200, id |-> id] # None
        BY <2>2, SubmissionAssumption DEF Answer
    <2>4. stage' = [stage EXCEPT ![r] = "answered"]
        BY <2>1 DEF Reply
    <2>5. answer' = [answer EXCEPT ![r] = [code |-> 200, id |-> id]]
        BY <2>1 DEF Reply
    <2>6. /\ stage' \in [Request -> Stage] /\ answer' \in [Request -> Answer \cup {None}]
          /\ stage'[r] = "answered" /\ answer'[r] = [code |-> 200, id |-> id]
          /\ \A q \in Request \ {r} : stage'[q] = stage[q] /\ answer'[q] = answer[q]
        BY <2>3, <2>4, <2>5 DEF IInv, TypeOK, Stage
    <2>7. \A q \in Request : stage'[q] = "answered" <=> answer'[q] # None
        BY <2>3, <2>6 DEF IInv, TypeOK
    <2>8. TypeOK'
        BY <1>3, <1>7, <2>6, <2>7 DEF IInv, TypeOK
    <2>9. RequestOK(r)'
        BY <1>1, <1>3, <1>4, <2>2, <2>6 DEF RequestOK
    <2>10. ASSUME NEW q \in Request \ {r} PROVE RequestOK(q)'
        BY <1>3, <1>4, <1>6, <2>6 DEF IInv, RequestOK
    <2> QED
        BY <1>5, <2>8, <2>9, <2>10 DEF IInv
<1>9. CASE Goto(r, "inserting")
    <2>1. /\ stage' \in [Request -> Stage] /\ stage'[r] = "inserting" /\ answer' = answer
          /\ \A q \in Request \ {r} : stage'[q] = stage[q]
        BY <1>9 DEF Goto, IInv, TypeOK, Stage
    <2>2. \A q \in Request : stage'[q] = "answered" <=> answer'[q] # None
        BY <1>2, <2>1 DEF IInv, TypeOK
    <2>3. TypeOK'
        BY <1>3, <1>7, <2>1, <2>2 DEF IInv, TypeOK
    <2>4. RequestOK(r)'
        BY <1>1, <1>2, <1>3, <2>1 DEF RequestOK
    <2>5. ASSUME NEW q \in Request \ {r} PROVE RequestOK(q)'
        BY <1>3, <1>4, <1>6, <2>1 DEF IInv, RequestOK
    <2> QED
        BY <1>5, <2>3, <2>4, <2>5 DEF IInv
<1> QED
    BY <1>8, <1>9 DEF Lookup

\* The INSERT adds a row of its own to the table, with a key no row has yet;
\* a key that is taken sends the request to look for the row that took it.
LEMMA InsertStep == ASSUME IInv, NEW r \in Request, Insert(r) PROVE IInv'
<1>1. /\ stage[r] = "inserting" /\ answer[r] = None /\ r \notin DOMAIN rows
      /\ body[r] \in Body /\ body' = body /\ topic' = topic /\ batch' = batch
      /\ drain' = drain
    BY DEF IInv, TypeOK, RequestOK, Insert
<1>2. CASE /\ KeyFree(body[r].key)
           /\ Goto(r, "publishing")
           /\ rows' = [id \in DOMAIN rows \cup {r} |-> IF id = r THEN Submitted ELSE rows[id]]
           /\ waiting' \in {waiting, waiting \cup {r}}
           /\ created' = Append(created, r)
    <2>1. /\ stage' \in [Request -> Stage] /\ stage'[r] = "publishing" /\ answer' = answer
          /\ \A q \in Request \ {r} : stage'[q] = stage[q]
        BY <1>2 DEF Goto, IInv, TypeOK, Stage
    <2>2. /\ DOMAIN rows' = DOMAIN rows \cup {r} /\ rows'[r] = Submitted
          /\ \A id \in DOMAIN rows : rows'[id] = rows[id]
        BY <1>1, <1>2
    <2>3. created' \in Seq(Request) /\ IsInjective(created') /\ Range(created') = DOMAIN rows'
        <3>1. created \in Seq(Request) /\ Range(created) = DOMAIN rows /\ IsInjective(created)
            BY DEF IInv, TypeOK
        <3>2. /\ created' \in Seq(Request) /\ Len(created') = Len(created) + 1
              /\ created'[Len(created) + 1] = r
              /\ \A k \in 1 .. Len(created) : created'[k] = created[k]
            BY <1>2, <3>1
        <3>3. \A k \in 1 .. Len(created) : created[k] # r /\ created[k] \in DOMAIN rows
            BY <1>1, <3>1 DEF Range
        <3>4. DOMAIN created' = DOMAIN created \cup {Len(created) + 1}
            BY <3>1, <3>2
        <3>5. IsInjective(created')
            BY <3>1, <3>2, <3>3 DEF IsInjective
        <3>6. Range(created') = Range(created) \cup {r}
            BY <3>1, <3>2, <3>4 DEF Range
        <3> QED
            BY <2>2, <3>1, <3>2, <3>5, <3>6
    <2>4. waiting' \subseteq {id \in DOMAIN rows' : rows'[id].status \in Pending}
        BY <1>1, <1>2, <2>2 DEF IInv, TypeOK, Submitted, Pending
    <2>5. /\ DOMAIN rows' \subseteq Request
          /\ \A id \in DOMAIN rows' :
                /\ rows'[id] \in Row
                /\ rows'[id].status \in Pending => rows'[id].attempt_count <= MaxRetries
        <3>1. Submitted \in Row /\ Submitted.attempt_count <= MaxRetries
            BY SubmissionAssumption DEF Submitted, Row, Status, Pending
        <3> QED
            BY <2>2, <3>1 DEF IInv, TypeOK
    <2>6. topic' \subseteq DOMAIN rows'
        BY <1>1, <2>2 DEF IInv, TypeOK
    <2>7. batch' \in [Sweeper -> Seq(DOMAIN rows')]
        <3>1. batch \in [Sweeper -> Seq(DOMAIN rows)] /\ batch' = batch
            BY <1>1 DEF IInv, TypeOK
        <3>2. ASSUME NEW w \in Sweeper PROVE batch[w] \in Seq(DOMAIN rows')
            BY <2>2, <3>1
        <3> QED
            BY <3>1, <3>2
    <2>8. \A q \in Request : stage'[q] = "answered" <=> answer'[q] # None
        BY <1>1, <2>1 DEF IInv, TypeOK
    <2>9. TypeOK'
        BY <1>1, <2>1, <2>3, <2>4, <2>5, <2>6, <2>7, <2>8 DEF IInv, TypeOK
    <2>10. KeysUnique'
        <3>1. \A id \in DOMAIN rows : body[id].key = body[r].key => body[r].key = None
            BY <1>2 DEF KeyFree, WithKey
        <3> QED
            BY <1>1, <2>2, <3>1 DEF IInv, KeysUnique
    <2>11. RequestOK(r)'
        BY <1>1, <2>1, <2>2 DEF RequestOK
    <2>12. ASSUME NEW q \in Request \ {r} PROVE RequestOK(q)'
        <3>1. WithKey(body[q].key) \subseteq WithKey(body[q].key)'
            BY <1>1, <2>2 DEF WithKey
        <3> QED
            BY <1>1, <2>1, <2>2, <3>1 DEF IInv, RequestOK
    <2> QED
        BY <2>9, <2>10, <2>11, <2>12 DEF IInv
<1>3. CASE ~KeyFree(body[r].key) /\ Goto(r, "conflict") /\ UNCHANGED table
    <2>1. /\ stage' \in [Request -> Stage] /\ stage'[r] = "conflict" /\ answer' = answer
          /\ \A q \in Request \ {r} : stage'[q] = stage[q]
        BY <1>3 DEF Goto, IInv, TypeOK, Stage
    <2>2. UNCHANGED <<rows, waiting, created>>
        BY <1>3 DEF table
    <2>3. body[r].key # None /\ WithKey(body[r].key)' # {}
        BY <1>1, <1>3, <2>2 DEF KeyFree, WithKey
    <2>4. RequestOK(r)'
        BY <1>1, <2>1, <2>2, <2>3 DEF RequestOK
    <2> QED
        BY <1>1, <2>1, <2>2, <2>4, OwnStep DEF IInv, TypeOK
<1> QED
    BY <1>2, <1>3 DEF Insert

\* The row that took the key is still there, and is the answer.
LEMMA RecoverStep == ASSUME IInv, NEW r \in Request, Recover(r) PROVE IInv'
<1>1. /\ stage[r] = "conflict" /\ r \notin DOMAIN rows
      /\ body[r].key # None /\ WithKey(body[r].key) # {}
      /\ UNCHANGED <<body, rows, waiting, created, topic, batch, drain>>
    BY DEF IInv, RequestOK, Recover, table
<1>2. PICK id \in WithKey(body[r].key) : Reply(r, 200, id)
    BY <1>1 DEF Recover
<1>3. id \in DOMAIN rows /\ id \in Request /\ body[id].key = body[r].key
    BY DEF WithKey, IInv, TypeOK
<1>4. [code |-> 200, id |-> id] \in Answer /\ [code |-> 200, id |-> id] # None
    BY <1>3, SubmissionAssumption DEF Answer
<1>5. stage' = [stage EXCEPT ![r] = "answered"]
    BY <1>2 DEF Reply
<1>6. answer' = [answer EXCEPT ![r] = [code |-> 200, id |-> id]]
    BY <1>2 DEF Reply
<1>7. /\ stage' \in [Request -> Stage] /\ answer' \in [Request -> Answer \cup {None}]
      /\ stage'[r] = "answered" /\ answer'[r] = [code |-> 200, id |-> id]
      /\ \A q \in Request \ {r} : stage'[q] = stage[q] /\ answer'[q] = answer[q]
    BY <1>4, <1>5, <1>6 DEF IInv, TypeOK, Stage
<1>8. RequestOK(r)'
    BY <1>1, <1>3, <1>7 DEF RequestOK
<1> QED
    BY <1>1, <1>4, <1>7, <1>8, OwnStep DEF IInv, TypeOK

\* Published or not, the answer names the row that the request inserted.
LEMMA PublishStep == ASSUME IInv, NEW r \in Request, Publish(r) PROVE IInv'
<1>1. /\ stage[r] = "publishing" /\ r \in DOMAIN rows
      /\ UNCHANGED <<body, rows, waiting, created, batch, drain>>
    BY DEF IInv, RequestOK, Publish, table
<1>2. topic' \subseteq DOMAIN rows
    BY <1>1 DEF Publish, IInv, TypeOK
<1>3. PICK code \in {201, 503} : Reply(r, code, r)
    BY DEF Publish
<1>4. [code |-> code, id |-> r] \in Answer /\ [code |-> code, id |-> r] # None
    BY SubmissionAssumption DEF Answer
<1>5. stage' = [stage EXCEPT ![r] = "answered"]
    BY <1>3 DEF Reply
<1>6. answer' = [answer EXCEPT ![r] = [code |-> code, id |-> r]]
    BY <1>3 DEF Reply
<1>7. /\ stage' \in [Request -> Stage] /\ answer' \in [Request -> Answer \cup {None}]
      /\ stage'[r] = "answered" /\ answer'[r] = [code |-> code, id |-> r]
      /\ \A q \in Request \ {r} : stage'[q] = stage[q] /\ answer'[q] = answer[q]
    BY <1>4, <1>5, <1>6 DEF IInv, TypeOK, Stage
<1>8. RequestOK(r)'
    BY <1>1, <1>7 DEF RequestOK
<1> QED
    BY <1>1, <1>2, <1>4, <1>7, <1>8, OwnStep

\* A lost request gets no answer; what it committed stays.
LEMMA LoseStep == ASSUME IInv, NEW r \in Request, Lose(r) PROVE IInv'
<1>1. /\ stage[r] \in {"inserting", "conflict", "publishing"} /\ answer' = answer
      /\ UNCHANGED <<body, rows, waiting, created, topic, batch, drain>>
      /\ stage' = [stage EXCEPT ![r] = "lost"]
    BY DEF Lose, Goto, table
<1>2. /\ stage' \in [Request -> Stage] /\ stage'[r] = "lost" /\ answer[r] = None
      /\ \A q \in Request \ {r} : stage'[q] = stage[q]
    BY <1>1 DEF IInv, TypeOK, Stage
<1>3. RequestOK(r)'
    BY <1>1, <1>2 DEF RequestOK
<1> QED
    BY <1>1, <1>2, <1>3, OwnStep DEF IInv, TypeOK

-----------------------------------------------------------------------------
(* The steps of the workers, and of the clock.                             *)

\* A sweep takes no more than BatchSize jobs, all of them rows.
LEMMA SweepLoadStep == ASSUME IInv, NEW w \in Sweeper, SweepLoad(w) PROVE IInv'
<1> DEFINE n == IF Cardinality(Due) < BatchSize THEN Cardinality(Due) ELSE BatchSize
<1>1. IsFiniteSet(Due) /\ Due \subseteq DOMAIN rows
    BY SubmissionAssumption, FS_Subset DEF Due, IInv, TypeOK
<1>2. n \in Nat /\ n <= BatchSize
    BY <1>1, FS_CardinalityType, SubmissionAssumption
<1>3. PICK jobs \in [1 .. n -> Due] : batch' = [batch EXCEPT ![w] = jobs]
    BY DEF SweepLoad, DueJobs, FirstDue
<1>4. jobs \in Seq(DOMAIN rows) /\ Len(jobs) <= BatchSize
    BY <1>1, <1>2
<1>5. UNCHANGED <<stage, body, answer, rows, waiting, created, topic, drain>>
    BY DEF SweepLoad, requests, table
<1>6. batch' \in [Sweeper -> Seq(DOMAIN rows)] /\ \A v \in Sweeper : Len(batch'[v]) <= BatchSize
    BY <1>3, <1>4 DEF IInv, TypeOK
<1>7. TypeOK'
    BY <1>5, <1>6 DEF IInv, TypeOK
<1> QED
    BY <1>5, <1>7, WorkerStep DEF requests

\* What is left of a sequence after its head.
LEMMA HeadAndTail ==
    ASSUME NEW S, NEW s \in Seq(S), s # << >>
    PROVE  Head(s) \in S /\ Tail(s) \in Seq(S) /\ Len(Tail(s)) = Len(s) - 1
OBVIOUS

\* What is published, or given up, was in the batch.
LEMMA SweepStep ==
    ASSUME IInv, NEW w \in Sweeper, SweepPublish(w) \/ SweepFail(w) PROVE IInv'
<1>1. UNCHANGED <<stage, body, answer, rows, waiting, created, drain>> /\ batch[w] # << >>
    BY DEF SweepPublish, SweepFail, requests, table
<1>2. batch[w] \in Seq(DOMAIN rows) /\ Len(batch[w]) <= BatchSize /\ BatchSize \in Nat
    BY SubmissionAssumption DEF IInv, TypeOK
<1>3. /\ Head(batch[w]) \in DOMAIN rows
      /\ Tail(batch[w]) \in Seq(DOMAIN rows) /\ Len(Tail(batch[w])) = Len(batch[w]) - 1
    BY <1>1, <1>2, HeadAndTail
<1>4. PICK rest \in {Tail(batch[w]), << >>} : batch' = [batch EXCEPT ![w] = rest]
    BY DEF SweepPublish, SweepFail
<1>5. rest \in Seq(DOMAIN rows) /\ Len(rest) <= BatchSize
    <2>1. Len(batch[w]) \in Nat /\ << >> \in Seq(DOMAIN rows) /\ Len(<< >>) = 0
        BY <1>2
    <2>2. CASE rest = << >>
        BY <1>2, <2>1, <2>2
    <2>3. CASE rest = Tail(batch[w])
        BY <1>2, <1>3, <2>1, <2>3
    <2> QED
        BY <2>2, <2>3
<1>6. batch' \in [Sweeper -> Seq(DOMAIN rows)] /\ \A v \in Sweeper : Len(batch'[v]) <= BatchSize
    BY <1>4, <1>5 DEF IInv, TypeOK
<1>7. topic' \subseteq DOMAIN rows
    BY <1>3 DEF SweepPublish, SweepFail, IInv, TypeOK
<1>8. TypeOK'
    BY <1>1, <1>6, <1>7 DEF IInv, TypeOK
<1> QED
    BY <1>1, <1>8, WorkerStep DEF requests

\* One row changes and is waited for, if at all, only while it is pending.
LEMMA RowStep ==
    ASSUME IInv, NEW id \in DOMAIN rows, NEW row \in Row,
           row.status \in Pending => row.attempt_count <= MaxRetries,
           rows' = [rows EXCEPT ![id] = row],
           waiting' \subseteq waiting \cup {id},
           row.status \notin Pending => id \notin waiting',
           UNCHANGED <<stage, body, answer, created, batch, drain>>,
           topic' \subseteq DOMAIN rows
    PROVE  IInv'
<1>1. /\ DOMAIN rows' = DOMAIN rows /\ rows'[id] = row
      /\ \A i \in DOMAIN rows \ {id} : rows'[i] = rows[i]
    BY DEF IInv, TypeOK
<1>2. waiting' \subseteq {i \in DOMAIN rows' : rows'[i].status \in Pending}
    BY <1>1 DEF IInv, TypeOK
<1>3. \A i \in DOMAIN rows' :
         /\ rows'[i] \in Row
         /\ rows'[i].status \in Pending => rows'[i].attempt_count <= MaxRetries
    BY <1>1 DEF IInv, TypeOK
<1>4. TypeOK'
    BY <1>1, <1>2, <1>3 DEF IInv, TypeOK
<1> QED
    BY <1>1, <1>4, WorkerStep DEF requests

\* Messages come and go; a job that is claimed was due.
LEMMA MessageStep ==
    ASSUME IInv, NEW id \in Request, Deliver(id) \/ LoseMessage(id) PROVE IInv'
<1>1. UNCHANGED <<stage, body, answer, waiting, created, batch, drain>> /\ id \in DOMAIN rows
    BY DEF Deliver, LoseMessage, requests, table, IInv, TypeOK
<1>2. topic' \subseteq DOMAIN rows
    BY DEF Deliver, LoseMessage, IInv, TypeOK
<1>3. CASE rows' = rows
    <2>1. TypeOK'
        BY <1>1, <1>2, <1>3 DEF IInv, TypeOK
    <2> QED
        BY <1>1, <1>3, <2>1, WorkerStep DEF requests
<1>4. CASE id \in Due /\ rows' = [rows EXCEPT ![id] = Running(id)]
    <2>1. rows[id] \in Row /\ rows[id].attempt_count <= MaxRetries /\ id \notin waiting
        BY <1>1, <1>4 DEF Due, IInv, TypeOK
    <2>2. Running(id) \in Row /\ Running(id).status \notin Pending
        BY <2>1, SubmissionAssumption DEF Running, Row, Status, Pending
    <2> QED
        BY <1>1, <1>2, <1>4, <2>1, <2>2, RowStep
<1> QED
    BY <1>3, <1>4 DEF Deliver, LoseMessage, table

\* An attempt that fails makes its job wait, unless it was the last one.
LEMMA AttemptStep == ASSUME IInv, NEW id \in Request, AttemptEnds(id) PROVE IInv'
<1>1. /\ UNCHANGED <<stage, body, answer, created, topic, batch, drain>>
      /\ id \in DOMAIN rows /\ rows[id] \in Row /\ rows[id].status \notin Pending
      /\ id \notin waiting /\ topic \subseteq DOMAIN rows
    BY DEF AttemptEnds, requests, IInv, TypeOK, Pending
<1>2. PICK status \in {"ended", "failed"} :
         /\ rows' = [rows EXCEPT ![id] = [rows[id] EXCEPT !.status = status]]
         /\ status = "failed" => rows[id].attempt_count <= MaxRetries
         /\ waiting' = IF status = "failed" THEN waiting \cup {id} ELSE waiting
    BY DEF AttemptEnds
<1> DEFINE row == [rows[id] EXCEPT !.status = status]
<1>3. /\ row \in Row
      /\ row.status = status /\ row.attempt_count = rows[id].attempt_count
    BY <1>1 DEF Row, Status, Pending
<1>4. /\ row.status \in Pending => row.attempt_count <= MaxRetries
      /\ row.status \notin Pending => id \notin waiting'
    BY <1>1, <1>2, <1>3 DEF Pending
<1> HIDE DEF row
<1>5. rows' = [rows EXCEPT ![id] = row] /\ waiting' \subseteq waiting \cup {id}
    BY <1>2 DEF row
<1> QED
    BY <1>1, <1>3, <1>4, <1>5, RowStep

\* A cancelled job waits no more.
LEMMA CancelStep == ASSUME IInv, NEW id \in Request, Cancel(id) PROVE IInv'
<1>1. /\ UNCHANGED <<stage, body, answer, created, topic, batch, drain>>
      /\ id \in DOMAIN rows /\ rows[id] \in Row /\ topic \subseteq DOMAIN rows
      /\ waiting' \subseteq waiting \cup {id} /\ id \notin waiting'
    BY DEF Cancel, requests, IInv, TypeOK
<1> DEFINE row == [rows[id] EXCEPT !.status = "cancelled"]
<1>2. row \in Row /\ row.status \notin Pending
    BY <1>1 DEF Row, Status, Pending
<1>3. rows' = [rows EXCEPT ![id] = row]
    BY DEF Cancel
<1> HIDE DEF row
<1> QED
    BY <1>1, <1>2, <1>3, RowStep

\* A job that comes due only stops waiting, and drain mode is only switched.
LEMMA ComeDueStep ==
    ASSUME IInv, (\E id \in Request : ComeDue(id)) \/ (\E enabled \in BOOLEAN : SetDrain(enabled))
    PROVE  IInv'
<1>1. UNCHANGED <<stage, body, answer, rows, created, topic, batch>>
    BY DEF ComeDue, SetDrain, requests, table
<1>2. waiting' \subseteq waiting /\ drain' \in BOOLEAN
    BY DEF ComeDue, SetDrain, table, IInv, TypeOK
<1>3. TypeOK'
    BY <1>1, <1>2 DEF IInv, TypeOK
<1> QED
    BY <1>1, <1>3, WorkerStep DEF requests

-----------------------------------------------------------------------------
(* The query of a sweep.                                                   *)

\* A set of natural numbers has a least one.
LEMMA LeastNumber ==
    ASSUME NEW S, S \subseteq Nat, S # {}
    PROVE  \E m \in S : \A n \in S : m <= n
<1>1. PICK m \in S : \A n \in S : <<n, m>> \notin OpToRel(<, Nat)
    BY WFMin, NatLessThanWellFounded, Zenon
<1>2. \A n \in S : ~(n < m)
    BY <1>1, Zenon DEF OpToRel
<1> QED
    BY <1>2

\* The order of due_jobs is a strict one: nothing is before itself, ...
LEMMA BeforeIsStrict ==
    ASSUME IInv, NEW i \in DOMAIN rows
    PROVE  ~Before(i, i)
<1>1. body[i].priority \in Int
    BY SubmissionAssumption DEF IInv, KeysUnique
<1>2. created \in Seq(Request) /\ \A m, n \in DOMAIN created : created[m] = created[n] => m = n
    BY DEF IInv, TypeOK, IsInjective
<1>3. \A m, n \in DOMAIN created : m < n => m # n
    BY <1>2
<1> QED
    BY <1>1, <1>2, <1>3 DEF Before

\* ... and what is before a job is before all that the job is before.
LEMMA BeforeIsTransitive ==
    ASSUME IInv, NEW i \in DOMAIN rows, NEW j \in DOMAIN rows, NEW k \in DOMAIN rows,
           Before(i, j), Before(j, k)
    PROVE  Before(i, k)
<1>1. /\ body[i].priority \in Int /\ body[j].priority \in Int /\ body[k].priority \in Int
    BY SubmissionAssumption DEF IInv, KeysUnique
<1>2. created \in Seq(Request) /\ \A m, n \in DOMAIN created : created[m] = created[n] => m = n
    BY DEF IInv, TypeOK, IsInjective
<1>3. CASE body[i].priority = body[j].priority /\ body[j].priority = body[k].priority
    <2>1. PICK m \in DOMAIN created, n \in DOMAIN created :
             m < n /\ created[m] = i /\ created[n] = j
        BY <1>1, <1>3 DEF Before
    <2>2. PICK p \in DOMAIN created, q \in DOMAIN created :
             p < q /\ created[p] = j /\ created[q] = k
        BY <1>1, <1>3 DEF Before
    <2>3. n = p /\ m < q
        BY <1>2, <2>1, <2>2
    <2> QED
        BY <1>3, <2>1, <2>2, <2>3 DEF Before
<1> QED
    BY <1>1, <1>3 DEF Before

\* Some job of a finite set comes first.
LEMMA FirstJob ==
    ASSUME IInv, NEW S \in SUBSET Due, S # {}
    PROVE  \E k \in S : \A i \in S : ~Before(i, k)
<1> DEFINE HasFirst(R) == \E k \in R : \A i \in R : ~Before(i, k)
           Bad == {n \in Nat : \E R \in SUBSET Due :
                                  R # {} /\ ~HasFirst(R) /\ Cardinality(R) = n}
<1>1. IsFiniteSet(Due) /\ Due \subseteq DOMAIN rows
    BY SubmissionAssumption, FS_Subset DEF Due, IInv, TypeOK
<1>2. \A R \in SUBSET Due : IsFiniteSet(R) /\ Cardinality(R) \in Nat
    BY <1>1, FS_Subset, FS_CardinalityType
<1>3. SUFFICES ASSUME Bad # {} PROVE FALSE
    BY <1>2
<1>4. PICK least \in Bad : \A n \in Bad : least <= n
    <2> HIDE DEF Bad
    <2>1. Bad \subseteq Nat
        BY DEF Bad
    <2> QED
        BY <1>3, <2>1, LeastNumber
<1>5. PICK R \in SUBSET Due : R # {} /\ ~HasFirst(R) /\ Cardinality(R) = least
    OBVIOUS
<1>6. PICK x \in R : TRUE
    BY <1>5
<1>7. Cardinality(R \ {x}) = Cardinality(R) - 1
    BY <1>2, <1>6, FS_RemoveElement
<1>8. R \ {x} # {}
    BY <1>1, <1>5, <1>6, BeforeIsStrict
<1>9. HasFirst(R \ {x})
    <2>1. Cardinality(R \ {x}) \in Nat /\ Cardinality(R \ {x}) < least
        BY <1>2, <1>5, <1>7
    <2>2. Cardinality(R \ {x}) \notin Bad
        <3> HIDE DEF Bad
        <3> QED
            BY <1>2, <1>4, <1>5, <2>1
    <2> QED
        BY <1>8, <2>1, <2>2
<1>10. PICK k \in R \ {x} : \A i \in R \ {x} : ~Before(i, k)
    BY <1>9
<1>11. CASE Before(x, k)
    <2>1. \A i \in R : ~Before(i, x)
        BY <1>1, <1>5, <1>6, <1>10, <1>11, BeforeIsStrict, BeforeIsTransitive
    <2> QED
        BY <1>5, <1>6, <2>1
<1>12. CASE ~Before(x, k)
    BY <1>5, <1>10, <1>12
<1> QED
    BY <1>11, <1>12

\* There are n first jobs if n are due.
LEMMA FirstDueExists ==
    ASSUME IInv, NEW n \in Nat, n <= Cardinality(Due)
    PROVE  FirstDue(n) # {}
<1> DEFINE Left(m, jobs) == Due \ {jobs[k] : k \in 1 .. m}
           Reached(m) == \E jobs \in FirstDue(m) :
                            Cardinality(Left(m, jobs)) = Cardinality(Due) - m
           Bad == {m \in Nat : m <= Cardinality(Due) /\ ~Reached(m)}
<1>1. IsFiniteSet(Due) /\ Due \subseteq DOMAIN rows /\ Cardinality(Due) \in Nat
    BY SubmissionAssumption, FS_Subset, FS_CardinalityType DEF Due, IInv, TypeOK
<1>2. SUFFICES ASSUME Bad # {} PROVE FALSE
    OBVIOUS
<1>3. PICK least \in Bad : \A m \in Bad : least <= m
    <2> HIDE DEF Bad
    <2>1. Bad \subseteq Nat
        BY DEF Bad
    <2> QED
        BY <1>2, <2>1, LeastNumber
<1>4. least # 0
    <2>1. << >> \in [1 .. 0 -> Due] /\ IsInjective(<< >>)
        BY DEF IsInjective
    <2>2. << >> \in FirstDue(0)
        BY <2>1 DEF FirstDue
    <2>3. Left(0, << >>) = Due
        OBVIOUS
    <2>4. Cardinality(Left(0, << >>)) = Cardinality(Due) - 0
        <3> HIDE DEF Left
        <3> QED
            BY <1>1, <2>3
    <2>5. Reached(0)
        <3> HIDE DEF Left
        <3> QED
            BY <2>2, <2>4
    <2> HIDE DEF Reached
    <2> QED
        BY <2>5
<1>5. PICK m \in Nat : least = m + 1
    <2>1. least - 1 \in Nat /\ least = (least - 1) + 1
        BY <1>4
    <2> QED
        BY <2>1
<1>6. m < Cardinality(Due) /\ Reached(m)
    <2> HIDE DEF Reached
    <2>1. m < Cardinality(Due)
        BY <1>1, <1>5
    <2>2. m \notin Bad
        <3> HIDE DEF Bad
        <3> QED
            BY <1>3, <1>5
    <2> QED
        BY <1>1, <2>1, <2>2
<1>7. PICK jobs \in FirstDue(m) : Cardinality(Left(m, jobs)) = Cardinality(Due) - m
    BY <1>1, <1>6
<1>8. /\ jobs \in [1 .. m -> Due] /\ IsInjective(jobs)
      /\ \A k \in 1 .. m : \A i \in Due : Before(i, jobs[k]) => \E l \in 1 .. k : jobs[l] = i
    BY <1>7 DEF FirstDue
<1>9. Left(m, jobs) \in SUBSET Due /\ Left(m, jobs) # {}
    <2>1. Cardinality(Left(m, jobs)) # 0
        BY <1>1, <1>6, <1>7
    <2> QED
        BY <2>1, FS_EmptySet
<1>10. PICK next \in Left(m, jobs) : \A i \in Left(m, jobs) : ~Before(i, next)
    <2> HIDE DEF Left
    <2> QED
        BY <1>9, FirstJob
<1> DEFINE more == [k \in 1 .. m + 1 |-> IF k = m + 1 THEN next ELSE jobs[k]]
<1>11. more \in [1 .. m + 1 -> Due] /\ more[m + 1] = next /\ \A k \in 1 .. m : more[k] = jobs[k]
    BY <1>8, <1>10
<1>12. \A k \in 1 .. m + 1 : k \in 1 .. m \/ k = m + 1
    OBVIOUS
<1>13. IsInjective(more)
    <2>1. \A k \in 1 .. m : jobs[k] # next
        BY <1>10
    <2> QED
        BY <1>8, <1>11, <1>12, <2>1 DEF IsInjective
<1>14. ASSUME NEW k \in 1 .. m + 1, NEW i \in Due, Before(i, more[k])
       PROVE  \E l \in 1 .. k : more[l] = i
    <2>1. CASE k \in 1 .. m
        <3>1. PICK l \in 1 .. k : jobs[l] = i
            BY <1>8, <1>11, <1>14, <2>1
        <3>2. l \in 1 .. m
            BY <2>1
        <3> QED
            BY <1>11, <3>1, <3>2
    <2>2. CASE k = m + 1
        <3>1. i \notin Left(m, jobs)
            BY <1>10, <1>11, <1>14, <2>2
        <3>2. PICK l \in 1 .. m : jobs[l] = i
            BY <3>1
        <3>3. l \in 1 .. k
            BY <2>2
        <3> QED
            BY <1>11, <3>2, <3>3
    <2> QED
        BY <1>12, <2>1, <2>2
<1>15. more \in FirstDue(m + 1)
    BY <1>11, <1>13, <1>14 DEF FirstDue
<1>16. Left(m + 1, more) = Left(m, jobs) \ {next}
    BY <1>11, <1>12
<1>17. Cardinality(Left(m + 1, more)) = Cardinality(Due) - (m + 1)
    <2>1. IsFiniteSet(Left(m, jobs))
        BY <1>1, FS_Subset
    <2>2. Cardinality(Left(m, jobs) \ {next}) = Cardinality(Left(m, jobs)) - 1
        BY <1>10, <2>1, FS_RemoveElement
    <2> HIDE DEF Left, more
    <2> QED
        BY <1>1, <1>7, <1>16, <2>2
<1> QED
    BY <1>5, <1>15, <1>17

-----------------------------------------------------------------------------
\* The invariant is inductive.
THEOREM SubmissionInvariant == Spec => []IInv
<1>1. IInv /\ [Next]_vars => IInv'
    <2> SUFFICES ASSUME IInv, [Next]_vars PROVE IInv'
        OBVIOUS
    <2>1. ASSUME NEW r \in Request, NEW read \in Body, Lookup(r, read)
          PROVE  IInv'
        BY <2>1, LookupStep
    <2>2. ASSUME NEW r \in Request,
                 Refuse(r) \/ Insert(r) \/ Recover(r) \/ Publish(r) \/ Lose(r)
          PROVE  IInv'
        BY <2>2, RefuseStep, InsertStep, RecoverStep, PublishStep, LoseStep
    <2>3. ASSUME NEW w \in Sweeper, SweepLoad(w) \/ SweepPublish(w) \/ SweepFail(w)
          PROVE  IInv'
        BY <2>3, SweepLoadStep, SweepStep
    <2>4. ASSUME NEW id \in Request,
                 Deliver(id) \/ LoseMessage(id) \/ AttemptEnds(id) \/ Cancel(id)
          PROVE  IInv'
        BY <2>4, MessageStep, AttemptStep, CancelStep
    <2>5. CASE \/ \E id \in Request : ComeDue(id)
               \/ \E enabled \in BOOLEAN : SetDrain(enabled)
        BY <2>5, ComeDueStep
    <2>6. CASE UNCHANGED vars
        BY <2>6 DEF vars, requests, table, IInv, TypeOK, KeysUnique, RequestOK, WithKey
    <2> QED
        BY <2>1, <2>2, <2>3, <2>4, <2>5, <2>6 DEF Next
<1> QED
    BY <1>1, InitIInv, PTL DEF Spec

\* Type correctness, with the bound on a sweep: see TypeOK.
THEOREM SubmissionTypeOK == Spec => []TypeOK
<1>1. IInv => TypeOK
    BY DEF IInv
<1> QED
    BY <1>1, SubmissionInvariant, PTL

\* Durability: a refused request has read nothing and has no row, any other
\* answer names a committed row with the request's key, so that no loser of a race
\* gets an internal error.
THEOREM AnswersAreDurable == Spec => []AnswerIsDurable
<1>1. IInv => AnswerIsDurable
    BY DEF IInv, RequestOK, AnswerIsDurable, Refused
<1> QED
    BY <1>1, SubmissionInvariant, PTL

\* Idempotency: answers under one key name one job, and one of them created it.
THEOREM IdempotentAnswers == Spec => []AnswersAgree
<1>1. ASSUME IInv, NEW q \in Request, NEW r \in Request,
             answer[q] # None, answer[q].id # None, answer[r] # None, answer[r].id # None,
             body[q].key = body[r].key, body[q].key # None
      PROVE  /\ answer[q].id = answer[r].id
             /\ answer[q].code = 201 /\ answer[r].code = 201 => q = r
    <2>1. /\ answer[q].id \in DOMAIN rows /\ body[answer[q].id].key = body[q].key
          /\ answer[q].code # 200 => answer[q].id = q
        BY <1>1 DEF IInv, RequestOK
    <2>2. /\ answer[r].id \in DOMAIN rows /\ body[answer[r].id].key = body[r].key
          /\ answer[r].code # 200 => answer[r].id = r
        BY <1>1 DEF IInv, RequestOK
    <2>3. answer[q].id = answer[r].id
        BY <1>1, <2>1, <2>2 DEF IInv, KeysUnique
    <2> QED
        BY <2>1, <2>2, <2>3
<1>2. IInv => AnswersAgree
    BY <1>1 DEF AnswersAgree
<1> QED
    BY <1>2, SubmissionInvariant, PTL

\* A sweep is never stuck: as long as a job is due, the query of publish_due_jobs
\* has a result, whatever the backlog and the limit.  The fairness that
\* EveryJobTaken asks of SweepLoad is therefore asked only of what a worker can do.
THEOREM SweepsFindTheDueJobs == Spec => [](Due # {} => DueJobs # {})
<1>1. ASSUME IInv, Due # {} PROVE DueJobs # {}
    <2>1. IsFiniteSet(Due)
        BY <1>1, SubmissionAssumption, FS_Subset DEF Due, IInv, TypeOK
    <2>2. Cardinality(Due) \in Nat
        BY <2>1, FS_CardinalityType
    <2> QED
        BY <1>1, <2>2, FirstDueExists, SubmissionAssumption DEF DueJobs
<1> QED
    BY <1>1, SubmissionInvariant, PTL

-----------------------------------------------------------------------------
(* Submission as JobIntake promises it.                                    *)

Views == <<Keys, Standing, waiting, drain, Told>>

\* Nothing that clients and workers see has changed.
LEMMA SeenSame ==
    ASSUME UNCHANGED <<rows, waiting, drain, answer>>,
           \A id \in DOMAIN rows : body'[id] = body[id],
           \A q \in Request : answer[q] # None => body'[q] = body[q]
    PROVE  UNCHANGED Views
    BY DEF Views, Keys, Standing, Told

\* What a reply shows, and that it shows nothing else.
LEMMA ReplySeen ==
    ASSUME IInv, NEW r \in Request, NEW code \in {200, 201, 503} \cup Refused,
           NEW id \in Request \cup {None}, NEW key, answer[r] = None, Reply(r, code, id),
           UNCHANGED <<rows, waiting, drain>>,
           \A q \in Request \ {r} : body'[q] = body[q],
           r \in DOMAIN rows => body'[r] = body[r],
           key = IF body'[r] = None THEN None ELSE body'[r].key
    PROVE  /\ Told[r] = None
           /\ Told' = [Told EXCEPT ![r] = [key |-> key, code |-> code, id |-> id]]
           /\ UNCHANGED <<Keys, Standing, waiting, drain>>
<1>1. [code |-> code, id |-> id] # None
    BY SubmissionAssumption DEF Answer
<1>2. /\ answer'[r] = [code |-> code, id |-> id]
      /\ \A q \in Request \ {r} : answer'[q] = answer[q]
    BY DEF Reply, IInv, TypeOK
<1>3. DOMAIN rows \subseteq Request
    BY DEF IInv, TypeOK
<1>4. Told' = [Told EXCEPT ![r] = [key |-> key, code |-> code, id |-> id]]
    <2> DEFINE told == [key |-> key, code |-> code, id |-> id]
    <2>1. Told' = [q \in Request |-> Told'[q]] /\ Told = [q \in Request |-> Told[q]]
        BY DEF Told
    <2>2. Told'[r] = [key |-> IF body'[r] = None THEN None ELSE body'[r].key,
                      code |-> answer'[r].code, id |-> answer'[r].id]
        BY <1>1, <1>2 DEF Told
    <2>3. Told'[r] = told
        BY <1>2, <2>2
    <2>4. ASSUME NEW q \in Request \ {r} PROVE Told'[q] = Told[q]
        BY <1>2 DEF Told
    <2>5. Told' = [Told EXCEPT ![r] = told]
        <3> HIDE DEF told
        <3> QED
            BY <2>1, <2>3, <2>4
    <2> QED
        BY <2>5
<1> QED
    BY <1>3, <1>4 DEF Told, Keys, Standing

\* A request that finds the job of its key is answered with it.
LEMMA ReplaySeen ==
    ASSUME IInv, NEW r \in Request, r \notin DOMAIN rows, answer[r] = None,
           NEW id \in DOMAIN rows, NEW key, body[id].key = key, key # None,
           Reply(r, 200, id), UNCHANGED <<rows, waiting, drain>>,
           \A q \in Request \ {r} : body'[q] = body[q],
           body'[r] # None, body'[r].key = key
    PROVE  Intake!Next
<1>1. id \in Request
    BY DEF IInv, TypeOK
<1>2. /\ Told[r] = None
      /\ Told' = [Told EXCEPT ![r] = [key |-> key, code |-> 200, id |-> id]]
      /\ UNCHANGED <<Keys, Standing, waiting, drain>>
    BY <1>1, ReplySeen
<1>3. DOMAIN Keys = DOMAIN rows /\ Keys[id] = key
    BY DEF Keys
<1>4. Intake!Replay(r, id)
    BY <1>2, <1>3 DEF Intake!Replay, Intake!Reply
<1> QED
    BY <1>3, <1>4 DEF Intake!Next

\* The commit of an INSERT is the one step that makes a job.
LEMMA InsertSeen ==
    ASSUME IInv, NEW r \in Request, Insert(r) PROVE [Intake!Next]_Views
<1>1. /\ r \notin DOMAIN rows /\ answer[r] = None /\ body[r] \in Body /\ body' = body
      /\ DOMAIN rows \subseteq Request /\ drain' = drain
    BY DEF Insert, IInv, TypeOK, RequestOK
<1>2. CASE KeyFree(body[r].key) /\ Goto(r, "publishing") /\ waiting' \in {waiting, waiting \cup {r}}
           /\ rows' = [id \in DOMAIN rows \cup {r} |-> IF id = r THEN Submitted ELSE rows[id]]
    <2>1. DOMAIN Keys = DOMAIN rows /\ body[r].key \in Key \cup {None}
        BY <1>1, SubmissionAssumption DEF Keys
    <2>2. body[r].key = None \/ \A id \in DOMAIN Keys : Keys[id] # body[r].key
        BY <1>2 DEF KeyFree, WithKey, Keys
    <2>3. Keys' = [id \in DOMAIN Keys \cup {r} |-> IF id = r THEN body[r].key ELSE Keys[id]]
        BY <1>1, <1>2, <2>1 DEF Keys
    <2>4. /\ DOMAIN Standing = DOMAIN rows
          /\ Standing' = [id \in DOMAIN Keys \cup {r} |->
                            IF id = r THEN "open" ELSE Standing[id]]
        BY <1>1, <1>2, <2>1 DEF Standing, Submitted, Pending
    <2>5. Told' = Told /\ Told[r] = None
        BY <1>1, <1>2 DEF Told, Goto
    <2>6. Intake!Accept(r, body[r].key)
        BY <1>1, <1>2, <2>1, <2>2, <2>3, <2>4, <2>5 DEF Intake!Accept
    <2> QED
        BY <2>1, <2>6 DEF Intake!Next
<1>3. CASE Goto(r, "conflict") /\ UNCHANGED table
    BY <1>1, <1>3, SeenSame DEF Goto, table
<1> QED
    BY <1>2, <1>3 DEF Insert

\* What a changed row shows of its job, and that it shows nothing else.
LEMMA RowSeen ==
    ASSUME IInv, NEW id \in DOMAIN rows, NEW row,
           rows' = [rows EXCEPT ![id] = row], UNCHANGED <<body, answer>>,
           NEW where,
           row.status \in Pending => where = "open",
           row.status = "running" => where = "taken",
           row.status \notin Pending \cup {"running"} => where = "closed"
    PROVE  /\ Standing' = [Standing EXCEPT ![id] = where]
           /\ DOMAIN Keys = DOMAIN rows /\ UNCHANGED <<Keys, Told>>
<1>1. /\ DOMAIN rows' = DOMAIN rows /\ rows'[id] = row
      /\ \A i \in DOMAIN rows \ {id} : rows'[i] = rows[i]
    BY DEF IInv, TypeOK
<1>2. where = IF row.status \in Pending THEN "open"
              ELSE IF row.status = "running" THEN "taken" ELSE "closed"
    BY DEF Pending
<1>3. Standing' = [i \in DOMAIN rows |-> Standing'[i]] /\ Standing = [i \in DOMAIN rows |-> Standing[i]]
    BY <1>1 DEF Standing
<1>4. Standing'[id] = where /\ \A i \in DOMAIN rows \ {id} : Standing'[i] = Standing[i]
    BY <1>1, <1>2 DEF Standing
<1> QED
    BY <1>1, <1>3, <1>4 DEF Keys, Told

\* A message takes a job whose time has come, or has no effect.
LEMMA DeliverSeen ==
    ASSUME IInv, NEW id \in Request, Deliver(id) PROVE [Intake!Next]_Views
<1>1. UNCHANGED <<body, answer, waiting, drain>> /\ id \in DOMAIN rows
    BY DEF Deliver, requests, IInv, TypeOK
<1>2. CASE rows' = rows
    BY <1>1, <1>2, SeenSame
<1>3. CASE ~drain /\ id \in Due /\ rows' = [rows EXCEPT ![id] = Running(id)]
    <2>1. id \notin waiting /\ Standing[id] = "open"
        BY <1>1, <1>3 DEF Due, Standing
    <2>2. Running(id).status = "running"
        BY DEF Running
    <2>3. /\ Standing' = [Standing EXCEPT ![id] = "taken"]
          /\ DOMAIN Keys = DOMAIN rows /\ UNCHANGED <<Keys, Told>>
        BY <1>1, <1>3, <2>2, RowSeen DEF Pending
    <2>4. Intake!Take(id)
        BY <1>1, <1>3, <2>1, <2>3 DEF Intake!Take, Intake!Is
    <2> QED
        BY <2>4 DEF Intake!Next
<1> QED
    BY <1>2, <1>3 DEF Deliver

\* An attempt closes its job or puts it back.
LEMMA AttemptSeen ==
    ASSUME IInv, NEW id \in Request, AttemptEnds(id) PROVE Intake!Next
<1>1. /\ UNCHANGED <<body, answer, drain>> /\ id \in DOMAIN rows
      /\ Standing[id] = "taken" /\ rows[id] \in Row
    BY DEF AttemptEnds, requests, Standing, Pending, IInv, TypeOK
<1>2. PICK status \in {"ended", "failed"} :
         /\ rows' = [rows EXCEPT ![id] = [rows[id] EXCEPT !.status = status]]
         /\ waiting' = IF status = "failed" THEN waiting \cup {id} ELSE waiting
    BY DEF AttemptEnds
<1>3. [rows[id] EXCEPT !.status = status].status = status
    BY <1>1 DEF Row
<1> DEFINE row == [rows[id] EXCEPT !.status = status]
           where == IF status = "failed" THEN "open" ELSE "closed"
<1>4. /\ Standing' = [Standing EXCEPT ![id] = where]
      /\ DOMAIN Keys = DOMAIN rows /\ UNCHANGED <<Keys, Told>>
    <2>1. /\ row.status \in Pending => where = "open"
          /\ row.status = "running" => where = "taken"
          /\ row.status \notin Pending \cup {"running"} => where = "closed"
        BY <1>3 DEF Pending
    <2>2. rows' = [rows EXCEPT ![id] = row]
        BY <1>2
    <2> HIDE DEF row, where
    <2> QED
        BY <1>1, <2>1, <2>2, RowSeen
<1>5. Intake!Close(id) \/ Intake!PutBack(id)
    BY <1>1, <1>2, <1>4 DEF Intake!Close, Intake!PutBack, Intake!Is
<1> QED
    BY <1>5 DEF Intake!Next

\* A cancellation closes a job that nobody has.
LEMMA CancelSeen ==
    ASSUME IInv, NEW id \in Request, Cancel(id) PROVE Intake!Next
<1>1. /\ UNCHANGED <<body, answer, drain>> /\ id \in DOMAIN rows /\ Standing[id] = "open"
      /\ rows[id] \in Row /\ waiting' = waiting \ {id}
      /\ rows' = [rows EXCEPT ![id] = [rows[id] EXCEPT !.status = "cancelled"]]
    BY DEF Cancel, requests, Standing, IInv, TypeOK
<1>2. [rows[id] EXCEPT !.status = "cancelled"].status = "cancelled"
    BY <1>1 DEF Row
<1>3. /\ Standing' = [Standing EXCEPT ![id] = "closed"]
      /\ DOMAIN Keys = DOMAIN rows /\ UNCHANGED <<Keys, Told>>
    BY <1>1, <1>2, RowSeen DEF Pending
<1>4. Intake!Cancel(id)
    BY <1>1, <1>3 DEF Intake!Cancel, Intake!Is
<1> QED
    BY <1>4 DEF Intake!Next

\* Every step is one of JobIntake, or is not seen.
LEMMA IntakeStep == IInv /\ [Next]_vars => [Intake!Next]_Views
<1> SUFFICES ASSUME IInv, [Next]_vars PROVE [Intake!Next]_Views
    OBVIOUS
<1>1. DOMAIN rows \subseteq Request /\ 200 \notin Refused
    BY DEF IInv, TypeOK, Refused
<1>2. ASSUME NEW r \in Request, NEW read \in Body, Lookup(r, read)
      PROVE  [Intake!Next]_Views
    <2> DEFINE key == read.key
    <2>1. /\ r \notin DOMAIN rows /\ answer[r] = None /\ UNCHANGED <<rows, waiting, drain>>
          /\ body' = [body EXCEPT ![r] = read]
        BY <1>2 DEF Lookup, table, IInv, TypeOK, RequestOK
    <2>2. read \in Body /\ read # None
        BY SubmissionAssumption
    <2>3. body'[r] = read /\ \A q \in Request \ {r} : body'[q] = body[q]
        BY <2>1 DEF IInv, TypeOK
    <2>4. ASSUME key # None, NEW id \in WithKey(key), Reply(r, 200, id) PROVE Intake!Next
        <3>1. id \in DOMAIN rows /\ body[id].key = key
            BY <2>4 DEF WithKey
        <3> QED
            BY <2>1, <2>2, <2>3, <2>4, <3>1, ReplaySeen
    <2>5. ASSUME Goto(r, "inserting") PROVE UNCHANGED Views
        BY <1>1, <2>1, <2>3, <2>5, SeenSame DEF Goto
    <2> QED
        BY <1>2, <2>4, <2>5 DEF Lookup
<1>3. ASSUME NEW r \in Request, Refuse(r) PROVE Intake!Next
    <2>1. PICK code \in Refused : Reply(r, code, None)
        BY <1>3 DEF Refuse
    <2>2. /\ r \notin DOMAIN rows /\ answer[r] = None /\ body[r] = None
          /\ UNCHANGED <<body, rows, waiting, drain>>
        BY <1>3 DEF Refuse, table, IInv, TypeOK, RequestOK
    <2>3. /\ Told[r] = None
          /\ Told' = [Told EXCEPT ![r] = [key |-> None, code |-> code, id |-> None]]
          /\ UNCHANGED <<Keys, Standing, waiting, drain>>
        BY <2>1, <2>2, ReplySeen
    <2>4. r \notin DOMAIN Keys /\ code \in {400, 422, 500}
        BY <2>2 DEF Keys, Refused
    <2>5. Intake!Reply(r, None, code, None)
        BY <2>3 DEF Intake!Reply
    <2>6. Intake!Refuse(r)
        BY <2>4, <2>5 DEF Intake!Refuse
    <2> QED
        BY <2>6 DEF Intake!Next
<1>4. ASSUME NEW r \in Request, Recover(r) PROVE Intake!Next
    <2>1. /\ r \notin DOMAIN rows /\ answer[r] = None /\ body[r] \in Body
          /\ body[r].key # None /\ WithKey(body[r].key) # {} /\ UNCHANGED <<body, rows, waiting, drain>>
        BY <1>4 DEF Recover, table, IInv, TypeOK, RequestOK
    <2>2. PICK id \in WithKey(body[r].key) : Reply(r, 200, id)
        BY <1>4, <2>1 DEF Recover
    <2>3. id \in DOMAIN rows /\ body[id].key = body[r].key /\ body[r] # None
        BY <2>1, SubmissionAssumption DEF WithKey
    <2> QED
        BY <2>1, <2>2, <2>3, ReplaySeen
<1>5. ASSUME NEW r \in Request, Publish(r) PROVE Intake!Next
    <2>1. PICK code \in {201, 503} : Reply(r, code, r)
        BY <1>5 DEF Publish
    <2>2. /\ r \in DOMAIN rows /\ answer[r] = None /\ body[r] \in Body /\ body[r] # None
          /\ UNCHANGED <<body, rows, waiting, drain>>
        BY <1>5, SubmissionAssumption DEF Publish, table, IInv, TypeOK, RequestOK
    <2>3. /\ Told[r] = None
          /\ Told' = [Told EXCEPT ![r] = [key |-> body[r].key, code |-> code, id |-> r]]
          /\ UNCHANGED <<Keys, Standing, waiting, drain>>
        BY <2>1, <2>2, ReplySeen
    <2>4. DOMAIN Keys = DOMAIN rows /\ Keys[r] = body[r].key
        BY <2>2 DEF Keys
    <2>5. Intake!Confirm(r)
        BY <2>2, <2>3, <2>4 DEF Intake!Confirm, Intake!Reply
    <2> QED
        BY <2>5 DEF Intake!Next
<1>6. ASSUME NEW r \in Request, Lose(r) PROVE UNCHANGED Views
    BY <1>6, SeenSame DEF Lose, Goto, table
<1>7. ASSUME NEW w \in Sweeper, SweepLoad(w) \/ SweepPublish(w) \/ SweepFail(w)
      PROVE  UNCHANGED Views
    BY <1>7, SeenSame DEF SweepLoad, SweepPublish, SweepFail, requests, table
<1>8. ASSUME NEW id \in Request, LoseMessage(id) PROVE UNCHANGED Views
    BY <1>8, SeenSame DEF LoseMessage, requests, table
<1>9. ASSUME NEW id \in Request, ComeDue(id) PROVE Intake!Next
    <2>1. UNCHANGED <<Keys, Standing, drain, Told>>
        BY <1>9 DEF ComeDue, requests, Keys, Standing, Told
    <2>2. Intake!ComeDue(id)
        BY <1>9, <2>1 DEF ComeDue, Intake!ComeDue
    <2> QED
        BY <2>2 DEF Intake!Next
<1>10. ASSUME NEW enabled \in BOOLEAN, SetDrain(enabled) PROVE [Intake!Next]_Views
    <2>1. UNCHANGED <<Keys, Standing, waiting, Told>>
        BY <1>10 DEF SetDrain, requests, table, Keys, Standing, Told
    <2>2. CASE drain' = drain
        BY <2>1, <2>2 DEF Views
    <2>3. CASE drain' # drain
        <3>1. drain' = ~drain
            BY <1>10, <2>3 DEF SetDrain, IInv, TypeOK
        <3> QED
            BY <2>1, <3>1 DEF Intake!SwitchDrain, Intake!Next
    <2> QED
        BY <2>2, <2>3
<1>11. CASE UNCHANGED vars
    BY <1>11, SeenSame DEF vars, requests, table
<1> QED
    BY <1>2, <1>3, <1>4, <1>5, <1>6, <1>7, <1>8, <1>9, <1>10, <1>11,
       InsertSeen, DeliverSeen, AttemptSeen, CancelSeen DEF Next

\* Submission implements JobIntake: however the statements of requests, sweeps and
\* deliveries interleave, clients and workers see jobs that are accepted, confirmed,
\* replayed and taken one step each.
THEOREM SubmissionImplementsIntake == Spec => ImplementsIntake
<1>1. Init => Intake!Init
    BY DEF Init, Intake!Init, Keys, Standing, Told
<1> QED
    BY <1>1, IntakeStep, SubmissionInvariant, PTL
    DEF Spec, ImplementsIntake, Intake!Spec, Intake!vars, Views
=============================================================================
