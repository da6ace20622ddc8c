--------------------------- MODULE SubmissionProofs ---------------------------
(***************************************************************************)
(* Theorems about the submission API in front of the workers, for any      *)
(* number of requests, workers, messages and faults.                       *)
(***************************************************************************)
EXTENDS Submission, WorkerProofs

(* What the requests leave of the types and of the workers.                 *)

LEMMA SubmitTypes ==
    ASSUME TypeOK, NEW j \in Jobs, Submit(j)
    PROVE  TypeOK' /\ UNCHANGED <<workerVars, scored>>
<1> USE DEF TypeOK, StoreTypeOK, QueueTypeOK, MetricTypeOK, metricVars
<1>1. CASE Create(j) \/ Accept(j) \/ Sorry(j)
  BY <1>1 DEF Create, Accept, Sorry, vars, storeVars, queueVars, workerVars, WorkerTypeOK, JobAt
<1>2. CASE Publish(j)
  <2>1. PICK sent \in SUBSET Messages : SendMessages(sent)
    BY <1>2 DEF Publish
  <2> QED
    BY <1>2, <2>1 DEF Publish, SendMessages, storeVars, workerVars, Places, WorkerTypeOK, JobAt
<1>3. CASE Commit(j)
  BY <1>3 DEF Commit, InsertJob, queueVars, workerVars, JobStatus, Unfinished, WorkerTypeOK, JobAt
<1>4. CASE Refuse(j)
  BY <1>4
  DEF Refuse, InsertJob, queueVars, workerVars, JobStatus, TERMINAL_STATUSES, ErrorType,
      WorkerTypeOK, JobAt
<1>5. CASE ApiCrash(j)
  BY <1>5, WorkerAssumption
  DEF ApiCrash, Fault, storeVars, queueVars, workerVars, WorkerTypeOK, JobAt
<1> QED
  BY <1>1, <1>2, <1>3, <1>4, <1>5 DEF Submit

------------------------------------------------------------------------------
(* A refused job.  Until its row is committed no worker can claim it, and a *)
(* row that was first committed as failed is never claimed either.          *)

BeforeCommit == {"create", "publish", "accept", "commit", "refuse"}

NeverWorkedOn(j) ==
    /\ status[j] \in {"absent", "failed"} /\ scored[j] = 0
    /\ \A w \in Workers : pc[w] \in Engaged => JobAt(w) # j

RequestTypeOK == api \in [Jobs -> ApiSteps] /\ client \in [Jobs -> Answers]

RequestInv ==
    /\ TypeOK /\ RequestTypeOK
    /\ \A j \in Jobs :
          /\ api[j] \in BeforeCommit => status[j] = "absent"
          /\ client[j] = "refused" => api[j] = "over"
          /\ status[j] = "absent" \/ api[j] = "sorry" \/ client[j] = "refused"
                => NeverWorkedOn(j)

\* The workers leave such a job alone.
LEMMA WorkersLeaveItAlone ==
    ASSUME TypeOK, Next, NEW j \in Jobs, NeverWorkedOn(j)
    PROVE  NeverWorkedOn(j)' /\ status'[j] = status[j]
<1> DEFINE Left == NeverWorkedOn(j)' /\ status'[j] = status[j]
<1> USE DEF TypeOK, StoreTypeOK, WorkerTypeOK, MetricTypeOK, NeverWorkedOn, Engaged
<1>1. ASSUME NEW w \in Workers, Claim(w) PROVE Left
  <2>1. JobAt(w) # j \/ ~Claimable(JobAt(w))
    BY DEF Claimable, Unfinished
  <2> QED
    BY <1>1, <2>1, TaskFields DEF Claim, claim_job, Goto, JobAt, storeVars, metricVars
<1>2. ASSUME NEW w \in Workers, NEW m \in Messages, Receive(w, m) PROVE Left
  BY <1>2 DEF Receive, JobAt, storeVars, metricVars
<1>3. ASSUME NEW w \in Workers, Load(w) \/ Scored(w) \/ \E error \in LLMErrors : NotScored(w, error)
      PROVE  Left
  <2>1. JobAt(w) \in Jobs /\ JobAt(w) # j /\ pc[w] \in Engaged
    BY <1>3, TaskFields DEF Load, Scored, NotScored
  <2>2. \A v \in Workers : JobAt(v)' = JobAt(v) /\ (v # w => pc'[v] = pc[v])
    BY <1>3 DEF Load, Scored, NotScored, Goto, JobAt, Tasks
  <2>3. status'[j] = status[j] /\ scored'[j] = scored[j]
    BY <1>3, <2>1 DEF Load, Scored, NotScored, storeVars, metricVars
  <2> QED
    BY <2>1, <2>2, <2>3
<1>4. ASSUME NEW w \in Workers, Persist(w) \/ Release(w) \/ Fail(w) PROVE Left
  <2>1. JobAt(w) \in Jobs /\ JobAt(w) # j /\ pc[w] \in Engaged
    BY <1>4, TaskFields DEF Persist, Release, Fail
  <2>2. status'[j] = status[j] /\ scored'[j] = scored[j]
    BY <1>4, <2>1 DEF Persist, complete_job, Release, release_job_for_retry, Fail, fail_job,
        RecordError, storeVars, metricVars
  <2>3. \A v \in Workers : JobAt(v)' = JobAt(v) /\ (pc'[v] = pc[v] \/ pc'[v] \notin Engaged)
    BY <1>4 DEF Persist, Release, Fail, Goto, JobAt
  <2> QED
    BY <2>2, <2>3
<1>5. ASSUME NEW w \in Workers,
             Malformed(w) \/ Classify(w) \/ Backoff(w) \/ Acknowledge(w) \/ Faulty(w)
      PROVE  Left
  <2>1. status' = status /\ scored' = scored
    BY <1>5 DEF Malformed, Classify, Backoff, Acknowledge, Faulty, Crash, DatabaseError,
        QueueError, UnexpectedError, storeVars, metricVars
  <2>2. Goto(w, "drop") \/ NextMessage(w)
    BY <1>5 DEF Malformed, Classify, Backoff, Acknowledge, Faulty, Crash, DatabaseError,
        QueueError, UnexpectedError
  <2> QED
    BY <2>1, <2>2 DEF Goto, NextMessage, JobAt
<1>6. CASE Tick \/ \E m \in Messages : DeadLetter(m) \/ EarlyRedelivery(m)
  BY <1>6 DEF Tick, StoreTick, DeadLetter, EarlyRedelivery, storeVars, workerVars, metricVars, JobAt
<1> QED
  BY <1>1, <1>2, <1>3, <1>4, <1>5, <1>6 DEF Next, Process, Score

\* The requests of other jobs too; what its own request does is in the next lemma.
\* Only a request makes a row, and no worker counts an attempt of none.
LEMMA WorkersInsertNothing ==
    ASSUME TypeOK, Next, NEW j \in Jobs
    PROVE  /\ status'[j] = "absent" => status[j] = "absent"
           /\ status[j] = "absent" => attempts'[j] = attempts[j]
<1> USE DEF TypeOK, StoreTypeOK, Next, Process, Score, Faulty, Receive, Malformed, Classify,
        Load, Scored, NotScored, Backoff, Acknowledge, Crash, DatabaseError, QueueError,
        UnexpectedError, EarlyRedelivery, DeadLetter, Tick, StoreTick, storeVars
<1>1. status'[j] = "absent" => status[j] = "absent"
  BY DEF Claim, claim_job, Persist, complete_job, Release, Fail, release_job_for_retry, fail_job,
      RecordError
<1>2. status[j] = "absent" => attempts'[j] = attempts[j]
  BY DEF Claim, Claimable, Unfinished, claim_job, Persist, complete_job, Release, Fail,
      release_job_for_retry, fail_job, RecordError
<1> QED
  BY <1>1, <1>2

LEMMA RequestsLeaveItAlone ==
    ASSUME RequestInv, NEW j \in Jobs, Submit(j), NEW k \in Jobs, k # j
    PROVE  /\ api'[k] = api[k] /\ client'[k] = client[k] /\ status'[k] = status[k]
           /\ NeverWorkedOn(k) => NeverWorkedOn(k)'
<1>1. api'[k] = api[k] /\ client'[k] = client[k]
  BY DEF Submit, Create, Publish, Accept, Commit, Refuse, Sorry, ApiCrash, Then, Answer,
      RequestInv, RequestTypeOK
<1>2. status'[k] = status[k]
  BY DEF Submit, Create, Publish, Accept, Commit, Refuse, Sorry, ApiCrash, InsertJob,
      vars, storeVars, RequestInv, TypeOK, StoreTypeOK
<1>3. UNCHANGED <<workerVars, scored>>
  BY SubmitTypes DEF RequestInv
<1> QED
  BY <1>1, <1>2, <1>3 DEF NeverWorkedOn, workerVars, JobAt

LEMMA RequestStep ==
    ASSUME RequestInv, [SubmissionNext]_submissionVars
    PROVE  RequestInv'
<1> DEFINE Right(j) ==
        /\ api[j] \in BeforeCommit => status[j] = "absent"
        /\ client[j] = "refused" => api[j] = "over"
        /\ status[j] = "absent" \/ api[j] = "sorry" \/ client[j] = "refused"
              => NeverWorkedOn(j)
<1>1. TypeOK /\ RequestTypeOK /\ \A j \in Jobs : Right(j)
  BY DEF RequestInv
<1>2. CASE UNCHANGED submissionVars
  BY <1>1, <1>2, TypeStep
  DEF submissionVars, RequestInv, RequestTypeOK, vars, storeVars, workerVars, metricVars,
      NeverWorkedOn, JobAt
<1>3. CASE Next /\ UNCHANGED <<api, client>>
  <2>1. TypeOK'
    BY <1>1, <1>3, TypeStep
  <2>2. ASSUME NEW j \in Jobs PROVE status'[j] = "absent" <=> status[j] = "absent"
    BY <1>1, <1>3, WorkersInsertNothing, WorkersLeaveItAlone
  <2>3. ASSUME NEW j \in Jobs PROVE Right(j)'
    BY <1>1, <1>3, <2>2, WorkersLeaveItAlone
  <2> QED
    BY <1>1, <1>3, <2>1, <2>3 DEF RequestInv, RequestTypeOK
<1>4. ASSUME NEW j \in Jobs, Submit(j) PROVE RequestInv'
  <2>1. TypeOK' /\ UNCHANGED <<workerVars, scored>>
    BY <1>1, <1>4, SubmitTypes
  <2>2. RequestTypeOK'
    BY <1>1, <1>4 DEF RequestTypeOK, Submit, Create, Publish, Accept, Commit, Refuse, Sorry,
        ApiCrash, Then, Answer, ApiSteps, Answers
  <2>3. \A k \in Jobs : k # j => Right(k)'
    BY <1>1, <1>4, RequestsLeaveItAlone
  <2>4. Right(j)'
    <3> USE <1>1, <2>1
        DEF RequestTypeOK, BeforeCommit, Then, Answer, TypeOK, StoreTypeOK
    <3>1. NeverWorkedOn(j) /\ status'[j] \in {"absent", "failed"} => NeverWorkedOn(j)'
      BY DEF NeverWorkedOn, workerVars, JobAt
    <3>2. CASE Create(j) \/ Accept(j) \/ ApiCrash(j) \/ Sorry(j)
      BY <3>1, <3>2 DEF Create, Accept, ApiCrash, Sorry, vars, storeVars, NeverWorkedOn
    <3>3. CASE Publish(j)
      BY <3>1, <3>3 DEF Publish, storeVars, NeverWorkedOn
    <3>4. CASE Commit(j)
      BY <3>1, <3>4 DEF Commit, InsertJob, NeverWorkedOn
    <3>5. CASE Refuse(j)
      BY <3>1, <3>5 DEF Refuse, InsertJob, NeverWorkedOn
    <3> QED
      BY <1>4, <3>2, <3>3, <3>4, <3>5 DEF Submit
  <2> QED
    BY <2>1, <2>2, <2>3, <2>4 DEF RequestInv
<1> QED
  BY <1>2, <1>3, <1>4 DEF SubmissionNext

LEMMA RequestStarts == SubmissionInit => RequestInv
BY VisibilityAssumption, QueueAssumption, WorkerAssumption
DEF SubmissionInit, StoreInit, QueueInit, WorkersInit, RequestInv, RequestTypeOK, ApiSteps,
    Answers, NeverWorkedOn, TypeOK, StoreTypeOK, QueueTypeOK, WorkerTypeOK, MetricTypeOK,
    JobStatus, Unfinished, Places, Steps, Tasks, NoTask, Engaged

(* Whatever the timeouts, the faults and the speed of the workers: a client  *)
(* that was told 503 never pays for a score of that job.                     *)
THEOREM RefusalIsSafe == SubmissionSpec => []RefusedIsNeverScored
<1>1. RequestInv => RefusedIsNeverScored
  BY DEF RequestInv, RefusedIsNeverScored, NeverWorkedOn
<1>2. RequestInv /\ [SubmissionNext]_submissionVars => RequestInv'
  BY RequestStep
<1> QED
  BY <1>1, <1>2, RequestStarts, PTL DEF SubmissionSpec

------------------------------------------------------------------------------
(* The rows that requests commit are as good as those the workers find: a   *)
(* row is inserted once, and nobody has worked on it before.                *)

InsertedFresh ==
    \A j \in Jobs :
        status[j] = "absent" =>
            /\ attempts[j] = 0 /\ lastError[j] = NoError
            /\ \A w \in Workers : pc[w] \in Engaged => JobAt(w) # j

RequestRowInv == RequestInv /\ RowInv /\ InsertedFresh

LEMMA InsertedStep ==
    ASSUME RequestRowInv, NEW j \in Jobs, Submit(j)
    PROVE  RowInv' /\ InsertedFresh'
<1>1. TypeOK /\ TypeOK' /\ UNCHANGED <<workerVars, scored>>
  BY SubmitTypes DEF RequestRowInv, RequestInv
<1>2. \A w \in Workers : JobAt(w)' = JobAt(w) /\ pc'[w] = pc[w] /\ task'[w] = task[w]
  BY <1>1 DEF workerVars, JobAt
<1>3. CASE UNCHANGED storeVars
  BY <1>1, <1>2, <1>3, RowsLeftAlone
  DEF RequestRowInv, InsertedFresh, storeVars, TypeOK, StoreTypeOK
<1>4. ASSUME NEW s \in {"pending", "failed"}, NEW e,
             InsertJob(j, s, e),
             e = (IF s = "pending" THEN NoError ELSE "enqueue_failed")
      PROVE  RowInv' /\ InsertedFresh'
  <2>1. /\ status[j] = "absent"
        /\ \A k \in Jobs : /\ status'[k] = (IF k = j THEN s ELSE status[k])
                            /\ lastError'[k] = (IF k = j THEN e ELSE lastError[k])
        /\ UNCHANGED <<attempts, lock, result>>
    BY <1>1, <1>4 DEF InsertJob, TypeOK, StoreTypeOK
  <2>2. /\ attempts[j] = 0 /\ result[j] = 0 /\ lock[j] = 0
        /\ \A w \in Workers : pc[w] \in Engaged => JobAt(w) # j
    BY <1>1, <2>1 DEF RequestRowInv, InsertedFresh, RowInv, RowConsistent, TypeOK, StoreTypeOK
  <2>3. RowConsistent'
    BY <1>4, <2>1, <2>2 DEF RequestRowInv, RowInv, RowConsistent, NoError
  <2>4. AttemptIsCounted'
    BY <1>2, <1>4, <2>1, <2>2 DEF RequestRowInv, RowInv, AttemptIsCounted
  <2>5. ErrorIsSorted'
    BY <1>2 DEF RequestRowInv, RowInv, ErrorIsSorted
  <2>6. InsertedFresh'
    BY <1>2, <1>4, <2>1 DEF RequestRowInv, InsertedFresh
  <2> QED
    BY <2>3, <2>4, <2>5, <2>6 DEF RowInv
<1>5. CASE Commit(j)
  BY <1>4, <1>5 DEF Commit
<1>6. CASE Refuse(j)
  BY <1>4, <1>6 DEF Refuse, NoError
<1> QED
  BY <1>3, <1>5, <1>6 DEF Submit, Create, Publish, Accept, Sorry, ApiCrash, vars

LEMMA RequestRowsInvariant == SubmissionSpec => []RequestRowInv
<1>1. SubmissionInit => RequestRowInv
  <2> SUFFICES ASSUME SubmissionInit PROVE RowInv /\ InsertedFresh
    BY RequestStarts DEF RequestRowInv
  <2> QED
    BY DEF SubmissionInit, StoreInit, WorkersInit, RowInv, RowConsistent, AttemptIsCounted,
        ErrorIsSorted, InsertedFresh, Engaged
<1>2. RequestRowInv /\ [SubmissionNext]_submissionVars => RequestRowInv'
  <2> SUFFICES ASSUME RequestRowInv, [SubmissionNext]_submissionVars
               PROVE  RowInv' /\ InsertedFresh'
    BY RequestStep DEF RequestRowInv
  <2> USE DEF RequestRowInv
  <2>1. CASE UNCHANGED submissionVars
    BY <2>1, RowStep
    DEF submissionVars, vars, storeVars, workerVars, InsertedFresh, JobAt, RequestInv
  <2>2. CASE Next /\ UNCHANGED <<api, client>>
    <3>1. RowInv'
      BY <2>2, RowStep DEF RequestInv
    <3>2. ASSUME NEW j \in Jobs, status'[j] = "absent"
          PROVE  /\ attempts'[j] = 0 /\ lastError'[j] = NoError
                 /\ \A w \in Workers : pc'[w] \in Engaged => JobAt(w)' # j
      <4>1. status[j] = "absent" /\ attempts'[j] = attempts[j]
        BY <2>2, <3>2, WorkersInsertNothing DEF RequestInv
      <4>2. NeverWorkedOn(j)'
        BY <2>2, <4>1, WorkersLeaveItAlone DEF RequestInv
      <4>3. lastError'[j] = lastError[j]
        BY <2>2, <3>2, <4>1
        DEF RequestInv, TypeOK, StoreTypeOK, Next, Process, Score, Faulty, Receive, Malformed,
            Claim, claim_job, Classify, Load, Scored, NotScored, Persist, complete_job, Release,
            Backoff, Fail, release_job_for_retry, fail_job, Releasable, Failable, Unfinished,
            RecordError, Acknowledge, Crash, DatabaseError, QueueError, UnexpectedError,
            EarlyRedelivery, DeadLetter, Tick, StoreTick, storeVars
      <4> QED
        BY <4>1, <4>2, <4>3 DEF InsertedFresh, NeverWorkedOn
    <3> QED
      BY <3>1, <3>2 DEF InsertedFresh
  <2>3. ASSUME NEW j \in Jobs, Submit(j) PROVE RowInv' /\ InsertedFresh'
    BY <2>3, InsertedStep
  <2> QED
    BY <2>1, <2>2, <2>3 DEF SubmissionNext
<1> QED
  BY <1>1, <1>2, PTL DEF SubmissionSpec

(* However requests commit, fail and die in front of workers of any speed,   *)
(* the columns of every row agree, rows committed as failed included.        *)
THEOREM SubmittedRowsAgree == SubmissionSpec => []RowConsistent
<1>1. RequestRowInv => RowConsistent
  BY DEF RequestRowInv, RowInv
<1> QED
  BY <1>1, RequestRowsInvariant, PTL

(* No request, no worker and no fault changes an outcome once it is in the   *)
(* row: neither a late commit nor a late 503 overwrites what a worker wrote. *)
THEOREM SubmittedOutcomesAreFinal == SubmissionSpec => OutcomeIsFinal
<1> DEFINE Final ==
      \A j \in Jobs :
        status[j] \in TERMINAL_STATUSES
            => status'[j] = status[j]
               /\ result'[j] = result[j] /\ lastError'[j] = lastError[j]
<1>1. RequestRowInv /\ [SubmissionNext]_submissionVars => [Final]_vars
  <2> SUFFICES ASSUME RequestRowInv, [SubmissionNext]_submissionVars PROVE Final
    OBVIOUS
  <2>1. TypeOK
    BY DEF RequestRowInv, RequestInv
  <2>2. CASE UNCHANGED submissionVars
    BY <2>2 DEF submissionVars, vars, storeVars
  <2>3. CASE Next
    BY <2>1, <2>3, FinalStep
  <2>4. ASSUME NEW j \in Jobs, Submit(j) PROVE Final
    BY <2>1, <2>4
    DEF Submit, Create, Publish, Accept, Commit, Refuse, Sorry, ApiCrash, InsertJob, vars,
        storeVars, TypeOK, StoreTypeOK, TERMINAL_STATUSES
  <2> QED
    BY <2>2, <2>3, <2>4 DEF SubmissionNext
<1> QED
  BY <1>1, RequestRowsInvariant, PTL DEF SubmissionSpec, OutcomeIsFinal

------------------------------------------------------------------------------
(* A claimed job keeps a message.  While workers are faster than both the   *)
(* claim and the message's visibility, and SQS does not deliver a message   *)
(* early, each message has one holder, who alone can delete it; and a holder*)
(* is on the way to delete it only when its job has ended.                  *)

Busy(w) == pc[w] # "idle"

Held ==
    /\ \A w \in Workers :
          Busy(w) => /\ place[task[w].message] = "queue"
                     /\ hidden[task[w].message] + busy[w] >= QueueVisibility
    /\ \A v, w \in Workers :
          Busy(v) /\ Busy(w) /\ task[v].message = task[w].message => v = w

Safe(m) ==
    /\ place[m] \in {"queue", "dlq"}
    /\ \A w \in Workers : pc[w] \in Acknowledging => task[w].message # m

HasMessage(j) == \E m \in Messages : JobOf[m] = j /\ Safe(m)

Claimed(j) == attempts[j] > 0 /\ status[j] \in Unfinished

ClaimedInv ==
    /\ TypeOK /\ ClaimIsLive /\ Exclusive /\ Held
    /\ \A j \in Jobs : /\ status[j] = "absent" => attempts[j] = 0
                       /\ Claimed(j) => HasMessage(j)

Assumed == MaxBusy <= Visibility /\ MaxBusy < QueueVisibility /\ "redelivery" \notin FaultKinds

\* A worker moves on with its message, or returns; it may have recorded an outcome
\* of the job it is engaged with, and touched its message if it returns.
LEMMA HolderMoves ==
    ASSUME Assumed, ClaimedInv, NEW w \in Workers, Busy(w),
           \A v \in Workers : v # w => pc'[v] = pc[v] /\ task'[v] = task[v] /\ busy'[v] = busy[v],
           pc'[w] # "idle" => task'[w].message = task[w].message /\ busy'[w] = busy[w]
                              /\ UNCHANGED queueVars,
           pc'[w] \in Engaged => pc[w] \in Engaged /\ UNCHANGED <<status, lock>>,
           pc'[w] \in Acknowledging /\ JobAt(w) \in Jobs =>
               status'[JobAt(w)] \notin Unfinished,
           \/ UNCHANGED <<status, lock>>
           \/ /\ pc[w] \in Engaged
              /\ \E s \in {"completed", "failed", "pending"} :
                     /\ status' = [status EXCEPT ![JobAt(w)] = s]
                     /\ lock' = [lock EXCEPT ![JobAt(w)] = 0],
           UNCHANGED attempts,
           \A m \in Messages : m # task[w].message => place'[m] = place[m] /\ hidden'[m] = hidden[m],
           pc[w] \in Acknowledging \/ UNCHANGED place,
           TypeOK'
    PROVE  ClaimedInv'
<1> USE DEF ClaimedInv, Busy
<1>1. \A v \in Workers : v # w => JobAt(v)' = JobAt(v)
  BY DEF JobAt
<1>2. pc'[w] # "idle" => JobAt(w)' = JobAt(w)
  BY DEF JobAt
<1>3. \A v \in Workers : pc[v] \in Engaged => JobAt(v) \in Jobs /\ status[JobAt(v)] = "processing"
  BY LeaseHolds DEF Assumed
<1>4. \A v \in Workers : pc'[v] \in Engaged =>
          /\ pc[v] \in Engaged /\ JobAt(v)' = JobAt(v) /\ busy'[v] = busy[v]
          /\ status'[JobAt(v)] = status[JobAt(v)] /\ lock'[JobAt(v)] = lock[JobAt(v)]
  <2> SUFFICES ASSUME NEW v \in Workers, pc'[v] \in Engaged
               PROVE  /\ pc[v] \in Engaged /\ JobAt(v)' = JobAt(v) /\ busy'[v] = busy[v]
                      /\ status'[JobAt(v)] = status[JobAt(v)]
                      /\ lock'[JobAt(v)] = lock[JobAt(v)]
    OBVIOUS
  <2>1. CASE v = w
    BY <1>2, <2>1 DEF Engaged
  <2>2. CASE v # w
    <3>1. pc[v] \in Engaged /\ JobAt(v)' = JobAt(v) /\ busy'[v] = busy[v]
      BY <1>1, <2>2
    <3>2. pc[w] \in Engaged => JobAt(w) # JobAt(v)
      BY <2>2, <3>1 DEF Exclusive
    <3>3. status'[JobAt(v)] = status[JobAt(v)] /\ lock'[JobAt(v)] = lock[JobAt(v)]
      BY <1>3, <3>1, <3>2 DEF TypeOK, StoreTypeOK
    <3> QED
      BY <3>1, <3>3
  <2> QED
    BY <2>1, <2>2
<1>5. ClaimIsLive' /\ Exclusive'
  BY <1>4 DEF ClaimIsLive, Exclusive
<1>6. Held'
  BY TaskFields DEF Held, TypeOK, queueVars
<1>7. \A j \in Jobs : /\ attempts'[j] = attempts[j]
                      /\ status'[j] # status[j] => status[j] = "processing"
                                                   /\ status'[j] # "absent"
  BY <1>3 DEF TypeOK, StoreTypeOK
<1>8. ASSUME NEW j \in Jobs, Claimed(j)' PROVE HasMessage(j)'
  <2>1. Claimed(j)
    BY <1>7, <1>8 DEF Claimed, Unfinished
  <2>2. PICK m \in Messages : JobOf[m] = j /\ Safe(m)
    BY <2>1 DEF HasMessage
  <2>3. place'[m] \in {"queue", "dlq"}
    BY <2>2 DEF Safe
  <2>4. pc'[w] \in Acknowledging => task'[w].message # m
    BY <1>2, <1>8, <2>2 DEF Claimed, JobAt, Acknowledging
  <2>5. Safe(m)'
    BY <2>2, <2>3, <2>4 DEF Safe
  <2> QED
    BY <2>2, <2>5 DEF HasMessage
<1> QED
  BY <1>5, <1>6, <1>7, <1>8

LEMMA ClaimedStep ==
    ASSUME Assumed, ClaimedInv, [Next]_vars
    PROVE  ClaimedInv'
<1> USE DEF ClaimedInv
<1>1. TypeOK'
  BY TypeStep
<1> USE DEF TypeOK, WorkerTypeOK, QueueTypeOK
<1>2. ASSUME UNCHANGED <<status, attempts, lock, place, hidden, pc, task, busy>>
      PROVE  ClaimedInv'
  BY <1>1, <1>2 DEF ClaimIsLive, Exclusive, Held, Busy, JobAt, Claimed, HasMessage, Safe
<1>3. ASSUME NEW w \in Workers, NEW m \in Messages, Receive(w, m) PROVE ClaimedInv'
  <2>1. /\ pc[w] = "idle" /\ pc'[w] = "claim" /\ busy'[w] = busy[w] /\ busy[w] \in Nat
        /\ task'[w].message = m /\ place[m] = "queue" /\ hidden[m] = 0
        /\ place' = place /\ hidden'[m] = QueueVisibility
        /\ \A k \in Messages : k # m => hidden'[k] = hidden[k]
        /\ UNCHANGED <<status, attempts, lock>>
    BY <1>3, WorkerAssumption DEF Receive, ReceiveMessage, Visible, storeVars
  <2>2. \A v \in Workers : v # w => /\ pc'[v] = pc[v] /\ task'[v] = task[v]
                                    /\ busy'[v] = busy[v] /\ JobAt(v)' = JobAt(v)
    BY <1>3 DEF Receive, JobAt
  <2>3. \A v \in Workers : Busy(v) => task[v].message # m
    BY <2>1, WorkerAssumption, QueueAssumption DEF Assumed, Held, Busy
  <2>4. ClaimIsLive' /\ Exclusive'
    BY <2>1, <2>2 DEF ClaimIsLive, Exclusive, Engaged
  <2>5. Held'
    BY <2>1, <2>2, <2>3, QueueAssumption, TaskFields DEF Held, Busy
  <2>6. \A k \in Messages : Safe(k) => Safe(k)'
    BY <2>1, <2>2 DEF Safe, Acknowledging
  <2> QED
    BY <1>1, <2>1, <2>4, <2>5, <2>6 DEF Claimed, HasMessage
<1>4. ASSUME NEW w \in Workers, Malformed(w) PROVE ClaimedInv'
  BY <1>1, <1>4, HolderMoves, WorkerAssumption
  DEF Malformed, Goto, storeVars, queueVars, Busy, Engaged, Acknowledging
<1>5. ASSUME NEW w \in Workers, Claim(w) PROVE ClaimedInv'
  <2>1. CASE ~Claimable(JobAt(w))
    BY <1>1, <1>5, <2>1, HolderMoves
    DEF Claim, Goto, storeVars, queueVars, Busy, Engaged, Acknowledging
  <2>2. CASE Claimable(JobAt(w))
    <3> DEFINE j == JobAt(w)
    <3>1. j \in Jobs /\ lock[j] = 0 /\ status[j] \in Unfinished /\ task[w].message \in Messages
      BY <1>5, <2>2, TaskFields DEF Claim, Claimable
    <3>2. \A v \in Workers : pc[v] \in Engaged => JobAt(v) # j /\ JobAt(v) \in Jobs
      BY <3>1, LeaseHolds DEF Assumed
    <3>3. \A v \in Workers : /\ JobAt(v)' = JobAt(v) /\ task'[v] = task[v] /\ busy'[v] = busy[v]
                             /\ busy[v] \in Nat
                             /\ pc'[v] = IF v = w THEN "load" ELSE pc[v]
      BY <1>5, <2>2, WorkerAssumption DEF Claim, Goto, JobAt
    <3>4. \A k \in Jobs : /\ status'[k] = (IF k = j THEN "processing" ELSE status[k])
                          /\ attempts'[k] = (IF k = j THEN attempts[k] + 1 ELSE attempts[k])
                          /\ lock'[k] = (IF k = j THEN Visibility + 1 ELSE lock[k])
      BY <1>5, <2>2 DEF Claim, claim_job, StoreTypeOK
    <3>5. UNCHANGED <<place, hidden>> /\ pc[w] = "claim"
      BY <1>5 DEF Claim, queueVars
    <3>6. ClaimIsLive' /\ Exclusive'
      <4>1. Exclusive'
        BY <3>2, <3>3 DEF Exclusive
      <4>2. ClaimIsLive'
        BY <3>1, <3>2, <3>3, <3>4, VisibilityAssumption DEF ClaimIsLive
      <4> QED
        BY <4>1, <4>2
    <3>7. Held'
      BY <3>3, <3>5 DEF Held, Busy
    <3>8. \A k \in Messages : Safe(k) => Safe(k)'
      BY <3>3, <3>5 DEF Safe, Acknowledging
    <3>9. Safe(task[w].message)'
      BY <3>3, <3>5 DEF Safe, Held, Busy, Acknowledging
    <3>10. ASSUME NEW k \in Jobs
           PROVE  /\ status'[k] = "absent" => attempts'[k] = 0
                  /\ Claimed(k)' => HasMessage(k)'
      <4>1. CASE k = j
        <5>1. JobOf[task[w].message] = k /\ status'[k] # "absent"
          BY <3>4, <4>1 DEF JobAt
        <5>2. task'[w].message = task[w].message
          BY <3>3
        <5>3. HasMessage(k)'
          BY <3>1, <3>9, <5>1, <5>2 DEF HasMessage
        <5> QED
          BY <5>1, <5>3
      <4>2. CASE k # j
        BY <3>4, <3>8, <4>2 DEF Claimed, HasMessage
      <4> QED
        BY <4>1, <4>2
    <3> QED
      BY <1>1, <3>6, <3>7, <3>10
  <2> QED
    BY <2>1, <2>2
<1>6. ASSUME NEW w \in Workers, Classify(w) PROVE ClaimedInv'
  BY <1>1, <1>6, HolderMoves
  DEF Classify, Goto, NextMessage, storeVars, queueVars, Busy, Engaged, Acknowledging,
      TERMINAL_STATUSES, Unfinished
<1>7. ASSUME NEW w \in Workers, Load(w) \/ \E error \in LLMErrors : NotScored(w, error)
      PROVE  ClaimedInv'
  <2>1. /\ pc[w] \in {"load", "score"} /\ pc'[w] \in {"score", "release", "fail"}
        /\ task'[w].message = task[w].message
        /\ \A v \in Workers : v # w => pc'[v] = pc[v] /\ task'[v] = task[v]
    BY <1>7 DEF Load, NotScored, Tasks
  <2>2. UNCHANGED <<storeVars, queueVars, busy>>
    BY <1>7 DEF Load, NotScored
  <2> QED
    BY <1>1, <2>1, <2>2, HolderMoves DEF storeVars, queueVars, Busy, Engaged, Acknowledging
<1>8. ASSUME NEW w \in Workers, Scored(w) PROVE ClaimedInv'
  BY <1>1, <1>8, HolderMoves
  DEF Scored, Goto, storeVars, queueVars, Busy, Engaged, Acknowledging
<1>9. ASSUME NEW w \in Workers, Persist(w) \/ Release(w) \/ Fail(w) PROVE ClaimedInv'
  <2>1. pc[w] \in Engaged /\ JobAt(w) \in Jobs /\ status[JobAt(w)] = "processing"
    BY <1>9, LeaseHolds DEF Persist, Release, Fail, Engaged, Assumed
  <2>2. /\ \A v \in Workers : v # w => pc'[v] = pc[v]
        /\ pc'[w] \in {"finish", "failed", "backoff"}
        /\ pc'[w] = "backoff" <=> Release(w)
        /\ UNCHANGED <<task, busy, queueVars>>
    BY <1>9, <2>1
    DEF Persist, Completable, Release, Fail, Goto
  <2>3. \E s \in {"completed", "failed", "pending"} :
            /\ status' = [status EXCEPT ![JobAt(w)] = s]
            /\ lock' = [lock EXCEPT ![JobAt(w)] = 0]
            /\ s = "pending" => Release(w)
    BY <1>9, <2>1
    DEF Persist, Completable, complete_job, Release, release_job_for_retry, Releasable,
        Fail, fail_job, Failable, Unfinished, RecordError
  <2>4. UNCHANGED attempts
    BY <1>9 DEF Persist, complete_job, Release, release_job_for_retry, Fail, fail_job,
        RecordError, storeVars
  <2>5. pc'[w] \in Acknowledging => status'[JobAt(w)] \notin Unfinished
    BY <2>1, <2>2, <2>3 DEF Acknowledging, Unfinished, StoreTypeOK
  <2> QED
    BY <1>1, <2>1, <2>2, <2>3, <2>4, <2>5, HolderMoves DEF queueVars, Busy, Engaged
<1>10. ASSUME NEW w \in Workers, Backoff(w) PROVE ClaimedInv'
  BY <1>1, <1>10, HolderMoves
  DEF Backoff, NextMessage, ChangeMessageVisibility, storeVars, queueVars, Busy, Engaged,
      Acknowledging
<1>11. ASSUME NEW w \in Workers, Acknowledge(w) PROVE ClaimedInv'
  BY <1>1, <1>11, HolderMoves
  DEF Acknowledge, NextMessage, DeleteMessage, storeVars, queueVars, Busy, Engaged,
      Acknowledging
<1>12. ASSUME NEW w \in Workers, Crash(w) \/ DatabaseError(w) \/ UnexpectedError(w)
       PROVE  ClaimedInv'
  BY <1>1, <1>12, HolderMoves
  DEF Crash, DatabaseError, UnexpectedError, NextMessage, storeVars, queueVars, Busy,
      Engaged, Acknowledging
<1>13. ASSUME NEW w \in Workers, QueueError(w) PROVE ClaimedInv'
  BY <1>1, <1>13, HolderMoves
  DEF QueueError, NextMessage, DeleteMessage, storeVars, queueVars, Busy, Engaged,
      Acknowledging
<1>14. ASSUME NEW m \in Messages, DeadLetter(m) PROVE ClaimedInv'
  <2>1. /\ place' = [place EXCEPT ![m] = "dlq"] /\ hidden[m] = 0 /\ UNCHANGED hidden
        /\ UNCHANGED <<storeVars, workerVars>>
    BY <1>14 DEF DeadLetter, Redrive, Visible
  <2>2. \A v \in Workers : Busy(v) => task[v].message # m
    BY <2>1, WorkerAssumption, QueueAssumption DEF Assumed, Held, Busy
  <2>3. Held'
    BY <2>1, <2>2, TaskFields DEF Held, Busy, workerVars
  <2>4. ClaimIsLive' /\ Exclusive'
    BY <2>1 DEF ClaimIsLive, Exclusive, JobAt, storeVars, workerVars
  <2>5. \A k \in Messages : Safe(k) => Safe(k)'
    BY <2>1 DEF Safe, workerVars
  <2> QED
    BY <1>1, <2>1, <2>3, <2>4, <2>5 DEF Claimed, HasMessage, storeVars
<1>15. CASE Tick
  <2>1. ClaimIsLive' /\ Exclusive'
    BY <1>15, LeaseHolds, VisibilityAssumption, WorkerAssumption
    DEF Assumed, Tick, ClaimIsLive, Exclusive, JobAt, StoreTick, Countdown, StoreTypeOK, Engaged
  <2>2. Held'
    BY <1>15, TaskFields, WorkerAssumption, QueueAssumption
    DEF Assumed, Tick, QueueTick, Held, Busy
  <2>3. \A k \in Messages : Safe(k) => Safe(k)'
    BY <1>15 DEF Safe, Tick, QueueTick
  <2> QED
    BY <1>1, <1>15, <2>1, <2>2, <2>3 DEF Tick, StoreTick, Claimed, HasMessage
<1>16. \A m \in Messages : ~EarlyRedelivery(m)
  BY DEF EarlyRedelivery, Fault, Assumed
<1>17. CASE UNCHANGED vars
  BY <1>2, <1>17 DEF vars, storeVars, queueVars, workerVars
<1> QED
  BY <1>3, <1>4, <1>5, <1>6, <1>7, <1>8, <1>9, <1>10, <1>11, <1>12, <1>13, <1>14, <1>15, <1>16,
     <1>17 DEF Next, Process, Score, Faulty

LEMMA ClaimedSubmits ==
    ASSUME Assumed, ClaimedInv, NEW j \in Jobs, Submit(j)
    PROVE  ClaimedInv'
<1> USE DEF ClaimedInv
<1>1. TypeOK' /\ UNCHANGED workerVars
  BY SubmitTypes
<1>2. \A m \in Messages : place'[m] = place[m] \/ (place[m] = "unsent" /\ place'[m] = "queue")
  BY DEF Submit, Create, Publish, SendMessages, Accept, Commit, Refuse, Sorry, ApiCrash, vars,
      queueVars, TypeOK, QueueTypeOK
<1>3. UNCHANGED hidden
  BY DEF Submit, Create, Publish, SendMessages, Accept, Commit, Refuse, Sorry, ApiCrash, vars,
      queueVars
<1>4. UNCHANGED <<attempts, lock>>
      /\ \A k \in Jobs : status'[k] = status[k] \/ (status[k] = "absent" /\ status'[k] # "absent")
  BY DEF Submit, Create, Publish, Accept, Commit, Refuse, Sorry, ApiCrash, InsertJob, vars,
      storeVars, TypeOK, StoreTypeOK
<1>5. ClaimIsLive'
  BY <1>1, <1>4, LeaseHolds DEF Assumed, ClaimIsLive, JobAt, workerVars
<1>6. Exclusive'
  BY <1>1 DEF Exclusive, JobAt, workerVars
<1>7. Held'
  BY <1>1, <1>2, <1>3, TaskFields DEF Held, Busy, workerVars, TypeOK
<1>8. \A m \in Messages : Safe(m) => Safe(m)'
  BY <1>1, <1>2 DEF Safe, workerVars
<1> QED
  BY <1>1, <1>4, <1>5, <1>6, <1>7, <1>8 DEF Claimed, HasMessage

(* With workers faster than the claim and the message's visibility: however  *)
(* its submission, its duplicates and the faults interleave, a job that was  *)
(* claimed keeps a message until it ends.                                    *)
THEOREM ClaimsKeepTheirMessage ==
    ASSUME MaxBusy <= Visibility, MaxBusy < QueueVisibility, "redelivery" \notin FaultKinds
    PROVE  SubmissionSpec => []ClaimedIsNotOrphaned
<1>1. Assumed
  BY DEF Assumed
<1>2. SubmissionInit => ClaimedInv
  BY RequestStarts
  DEF SubmissionInit, StoreInit, QueueInit, WorkersInit, RequestInv, ClaimedInv, ClaimIsLive,
      Exclusive, Held, Busy, Claimed, Unfinished, Engaged
<1>3. ClaimedInv /\ [SubmissionNext]_submissionVars => ClaimedInv'
  BY <1>1, ClaimedStep, ClaimedSubmits DEF SubmissionNext, submissionVars
<1>4. ClaimedInv => ClaimedIsNotOrphaned
  BY DEF ClaimedInv, ClaimedIsNotOrphaned, Claimed, HasMessage, Safe
<1> QED
  BY <1>2, <1>3, <1>4, PTL DEF SubmissionSpec

==============================================================================
