---------------------------- MODULE WorkerProofs ----------------------------
(***************************************************************************)
(* Theorems about the workers, for any number of workers, jobs and messages*)
(* and any timeouts: types and final outcomes; one owner at a time and the *)
(* refinement of ScoringPromise; the columns of a row; what attempts,      *)
(* scores and counters add up to; and that no job is left without a        *)
(* message.                                                                *)
(***************************************************************************)
EXTENDS WorkerProperties, FiniteSetTheorems, TLAPS

(* What a store statement, a queue call and a step of the program counter   *)
(* leave of the types.                                                      *)

LEMMA StoreTypes ==
    ASSUME StoreTypeOK
    PROVE  /\ UNCHANGED storeVars => StoreTypeOK'
           /\ \A j \in Jobs : claim_job(j) => StoreTypeOK'
           /\ \A j \in Jobs, n \in Nat : complete_job(j, n) => StoreTypeOK'
           /\ \A j \in Jobs, e \in ErrorType \cup {NoError} :
                  release_job_for_retry(j, e) \/ fail_job(j, e) => StoreTypeOK'
           /\ StoreTick => StoreTypeOK'
<1> USE VisibilityAssumption
    DEF StoreTypeOK, JobStatus, Unfinished, TERMINAL_STATUSES
<1>1. UNCHANGED storeVars => StoreTypeOK'
  BY DEF storeVars
<1>2. ASSUME NEW j \in Jobs, claim_job(j) PROVE StoreTypeOK'
  BY <1>2 DEF claim_job
<1>3. ASSUME NEW j \in Jobs, NEW n \in Nat, complete_job(j, n) PROVE StoreTypeOK'
  BY <1>3 DEF complete_job
<1>4. ASSUME NEW j \in Jobs, NEW e \in ErrorType \cup {NoError},
             release_job_for_retry(j, e) \/ fail_job(j, e)
      PROVE StoreTypeOK'
  BY <1>4 DEF release_job_for_retry, fail_job, RecordError, storeVars
<1>5. ASSUME StoreTick PROVE StoreTypeOK'
  BY <1>5 DEF StoreTick, Countdown
<1> QED
  BY <1>1, <1>2, <1>3, <1>4, <1>5

LEMMA QueueTypes ==
    ASSUME QueueTypeOK
    PROVE  /\ UNCHANGED queueVars => QueueTypeOK'
           /\ \A m \in Messages : ReceiveMessage(m) \/ Redrive(m) => QueueTypeOK'
           /\ \A m \in Messages, h \in Nat : DeleteMessage(m, h) => QueueTypeOK'
           /\ \A m \in Messages, d \in Nat : ChangeMessageVisibility(m, d) => QueueTypeOK'
           /\ \A m \in Messages : DeliverAgain(m) => QueueTypeOK'
           /\ QueueTick => QueueTypeOK'
<1> USE QueueAssumption DEF QueueTypeOK, Places, queueVars
<1>1. UNCHANGED queueVars => QueueTypeOK'
  OBVIOUS
<1>2. ASSUME NEW m \in Messages, ReceiveMessage(m) \/ Redrive(m) PROVE QueueTypeOK'
  BY <1>2 DEF ReceiveMessage, Redrive
<1>3. ASSUME NEW m \in Messages, NEW h \in Nat, DeleteMessage(m, h) PROVE QueueTypeOK'
  BY <1>3 DEF DeleteMessage
<1>4. ASSUME NEW m \in Messages, NEW d \in Nat, ChangeMessageVisibility(m, d)
      PROVE QueueTypeOK'
  BY <1>4 DEF ChangeMessageVisibility
<1>5. ASSUME NEW m \in Messages, DeliverAgain(m) PROVE QueueTypeOK'
  BY <1>5 DEF DeliverAgain
<1>6. ASSUME QueueTick PROVE QueueTypeOK'
  BY <1>6 DEF QueueTick
<1> QED
  BY <1>1, <1>2, <1>3, <1>4, <1>5, <1>6

LEMMA WorkerTypes ==
    ASSUME WorkerTypeOK
    PROVE  /\ UNCHANGED workerVars => WorkerTypeOK'
           /\ \A w \in Workers : NextMessage(w) => WorkerTypeOK'
           /\ \A w \in Workers, s \in Steps :
                  Goto(w, s) /\ pc[w] # "idle"
                  /\ (s \in {"idle", "claim", "drop"} \/ JobAt(w) \in Jobs) => WorkerTypeOK'
<1> USE WorkerAssumption DEF WorkerTypeOK, JobAt
<1>1. UNCHANGED workerVars => WorkerTypeOK'
  BY DEF workerVars
<1>2. ASSUME NEW w \in Workers, NextMessage(w) PROVE WorkerTypeOK'
  BY <1>2 DEF NextMessage, Steps
<1>3. ASSUME NEW w \in Workers, NEW s \in Steps, Goto(w, s), pc[w] # "idle",
             s \in {"idle", "claim", "drop"} \/ JobAt(w) \in Jobs
      PROVE WorkerTypeOK'
  BY <1>3 DEF Goto
<1> QED
  BY <1>1, <1>2, <1>3

(* The fields of the task in hand. *)
LEMMA TaskFields ==
    ASSUME WorkerTypeOK, NEW w \in Workers, pc[w] # "idle"
    PROVE  /\ task[w].message \in Messages /\ task[w].handle \in Nat
           /\ task[w].attempt \in Nat /\ task[w].error \in LLMErrors \cup {NoError}
           /\ JobAt(w) \in Jobs \cup {NoJob}
           /\ pc[w] \notin {"idle", "claim", "drop"} => JobAt(w) \in Jobs
BY WorkerAssumption DEF WorkerTypeOK, Tasks, JobAt

LEMMA RecordedErrorType ==
    \A e \in LLMErrors \cup {NoError}, n \in Nat : RecordedError(e, n) \in ErrorType \cup {NoError}
BY DEF LLMErrors, NoError, RecordedError, ErrorType

LEMMA DelayType == \A attempt : BackoffDelays(attempt) \subseteq Nat
BY RetryAssumption DEF BackoffDelays

(* Every step of the workers keeps the types.                               *)
LEMMA TypeStep ==
    ASSUME TypeOK, [Next]_vars
    PROVE  TypeOK'
<1> SUFFICES StoreTypeOK' /\ QueueTypeOK' /\ WorkerTypeOK' /\ MetricTypeOK'
  BY DEF TypeOK
<1> USE DEF TypeOK
<1> USE StoreTypes, QueueTypes, WorkerTypes
<1>1. CASE UNCHANGED vars
  BY <1>1 DEF vars, MetricTypeOK, metricVars
<1>2. ASSUME NEW w \in Workers, NEW m \in Messages, Receive(w, m)
      PROVE  StoreTypeOK' /\ QueueTypeOK' /\ WorkerTypeOK' /\ MetricTypeOK'
  <2>1. WorkerTypeOK'
    BY <1>2, WorkerAssumption
    DEF Receive, ReceiveMessage, WorkerTypeOK, Steps, Tasks, JobAt, QueueTypeOK
  <2> QED
    BY <1>2, <2>1 DEF Receive, MetricTypeOK, metricVars
<1>3. ASSUME NEW w \in Workers, Malformed(w)
      PROVE  StoreTypeOK' /\ QueueTypeOK' /\ WorkerTypeOK' /\ MetricTypeOK'
  BY <1>3, TaskFields DEF Malformed, MetricTypeOK, metricVars, Steps, Engaged, Acknowledging
<1>4. ASSUME NEW w \in Workers, Claim(w)
      PROVE  StoreTypeOK' /\ QueueTypeOK' /\ WorkerTypeOK' /\ MetricTypeOK'
  BY <1>4, TaskFields DEF Claim, MetricTypeOK, metricVars, Steps, Engaged, Acknowledging
<1>5. ASSUME NEW w \in Workers, Classify(w)
      PROVE  StoreTypeOK' /\ QueueTypeOK' /\ WorkerTypeOK' /\ MetricTypeOK'
  BY <1>5, TaskFields DEF Classify, MetricTypeOK, metricVars, Steps, Engaged, Acknowledging
<1>6. ASSUME NEW w \in Workers, Load(w)
      PROVE  StoreTypeOK' /\ QueueTypeOK' /\ WorkerTypeOK' /\ MetricTypeOK'
  <2>1. attempts[JobAt(w)] \in Nat
    BY <1>6, TaskFields DEF Load, StoreTypeOK
  <2>2. WorkerTypeOK'
    BY <1>6, <2>1, TaskFields DEF Load, WorkerTypeOK, Steps, Engaged, Tasks, JobAt
  <2> QED
    BY <1>6, <2>2 DEF Load, MetricTypeOK, metricVars
<1>7. ASSUME NEW w \in Workers, Scored(w)
      PROVE  StoreTypeOK' /\ QueueTypeOK' /\ WorkerTypeOK' /\ MetricTypeOK'
  BY <1>7, TaskFields DEF Scored, MetricTypeOK, metricVars, Steps, Engaged, Acknowledging
<1>8. ASSUME NEW w \in Workers, NEW error \in LLMErrors, NotScored(w, error)
      PROVE  StoreTypeOK' /\ QueueTypeOK' /\ WorkerTypeOK' /\ MetricTypeOK'
  <2>1. WorkerTypeOK'
    BY <1>8, TaskFields DEF NotScored, WorkerTypeOK, Steps, Engaged, Tasks, JobAt
  <2> QED
    BY <1>8, <2>1 DEF NotScored, MetricTypeOK, metricVars
<1>9. ASSUME NEW w \in Workers, Persist(w)
      PROVE  StoreTypeOK' /\ QueueTypeOK' /\ WorkerTypeOK' /\ MetricTypeOK'
  BY <1>9, TaskFields DEF Persist, MetricTypeOK, metricVars, Steps, Engaged, Acknowledging
<1>10. ASSUME NEW w \in Workers, Release(w)
      PROVE  StoreTypeOK' /\ QueueTypeOK' /\ WorkerTypeOK' /\ MetricTypeOK'
  BY <1>10, TaskFields, RecordedErrorType DEF Release, MetricTypeOK, metricVars, Steps, Engaged, Acknowledging
<1>11. ASSUME NEW w \in Workers, Backoff(w)
      PROVE  StoreTypeOK' /\ QueueTypeOK' /\ WorkerTypeOK' /\ MetricTypeOK'
  BY <1>11, TaskFields, DelayType DEF Backoff, MetricTypeOK, metricVars, Steps, Engaged, Acknowledging
<1>12. ASSUME NEW w \in Workers, Fail(w)
      PROVE  StoreTypeOK' /\ QueueTypeOK' /\ WorkerTypeOK' /\ MetricTypeOK'
  BY <1>12, TaskFields, RecordedErrorType DEF Fail, MetricTypeOK, metricVars, Steps, Engaged, Acknowledging
<1>13. ASSUME NEW w \in Workers, Acknowledge(w)
      PROVE  StoreTypeOK' /\ QueueTypeOK' /\ WorkerTypeOK' /\ MetricTypeOK'
  BY <1>13, TaskFields DEF Acknowledge, MetricTypeOK, metricVars, Steps, Engaged, Acknowledging
<1>14. ASSUME NEW w \in Workers, Crash(w)
      PROVE  StoreTypeOK' /\ QueueTypeOK' /\ WorkerTypeOK' /\ MetricTypeOK'
  BY <1>14, TaskFields, WorkerAssumption DEF Crash, Fault, MetricTypeOK, metricVars, Steps, Engaged, Acknowledging
<1>15. ASSUME NEW w \in Workers, DatabaseError(w)
      PROVE  StoreTypeOK' /\ QueueTypeOK' /\ WorkerTypeOK' /\ MetricTypeOK'
  BY <1>15, TaskFields, WorkerAssumption DEF DatabaseError, Fault, MetricTypeOK, metricVars, Steps, Engaged, Acknowledging
<1>16. ASSUME NEW w \in Workers, QueueError(w)
      PROVE  StoreTypeOK' /\ QueueTypeOK' /\ WorkerTypeOK' /\ MetricTypeOK'
  BY <1>16, TaskFields, WorkerAssumption DEF QueueError, Fault, MetricTypeOK, metricVars, Steps, Engaged, Acknowledging
<1>17. ASSUME NEW w \in Workers, UnexpectedError(w)
      PROVE  StoreTypeOK' /\ QueueTypeOK' /\ WorkerTypeOK' /\ MetricTypeOK'
  BY <1>17, TaskFields, WorkerAssumption DEF UnexpectedError, Fault, MetricTypeOK, metricVars, Steps, Engaged, Acknowledging
<1>18. ASSUME NEW m \in Messages, EarlyRedelivery(m) \/ DeadLetter(m)
      PROVE  StoreTypeOK' /\ QueueTypeOK' /\ WorkerTypeOK' /\ MetricTypeOK'
  BY <1>18, WorkerAssumption DEF EarlyRedelivery, DeadLetter, Fault, MetricTypeOK, metricVars
<1>19. ASSUME Tick
      PROVE  StoreTypeOK' /\ QueueTypeOK' /\ WorkerTypeOK' /\ MetricTypeOK'
  <2>1. WorkerTypeOK'
    BY <1>19, WorkerAssumption DEF Tick, WorkerTypeOK, JobAt
  <2> QED
    BY <1>19, <2>1 DEF Tick, MetricTypeOK, metricVars
<1> QED
  BY <1>1, <1>2, <1>3, <1>4, <1>5, <1>6, <1>7, <1>8, <1>9, <1>10, <1>11, <1>12, <1>13, <1>14, <1>15, <1>16, <1>17, <1>18, <1>19 DEF Next, Process, Faulty, Score

(* The types hold in every reachable state, whatever the faults and however *)
(* slow a worker is.                                                        *)
THEOREM TypeCorrect == Spec => []TypeOK
<1>1. Init => TypeOK
  BY VisibilityAssumption, QueueAssumption, WorkerAssumption
  DEF Init, StoreInit, QueueInit, WorkersInit, TypeOK, StoreTypeOK, QueueTypeOK,
      WorkerTypeOK, MetricTypeOK, JobStatus, Unfinished, Places, Steps, Tasks, NoTask
<1>2. TypeOK /\ [Next]_vars => TypeOK'
  BY TypeStep
<1> QED
  BY <1>1, <1>2, PTL DEF Spec

------------------------------------------------------------------------------
(* The claim as a lease.  While every worker is done within Visibility ticks *)
(* of its receive, the lease of an engaged worker has not run out, so nobody *)
(* can claim its job, and whoever records an outcome still owns the attempt. *)

LEMMA LeaseHolds ==
    ASSUME MaxBusy <= Visibility, TypeOK, ClaimIsLive, NEW w \in Workers, pc[w] \in Engaged
    PROVE  /\ JobAt(w) \in Jobs /\ status[JobAt(w)] = "processing"
           /\ lock[JobAt(w)] \in 1 .. Visibility + 1 /\ lock[JobAt(w)] + busy[w] >= Visibility + 1
<1>1. JobAt(w) \in Jobs
  BY TaskFields DEF TypeOK, Engaged
<1>2. lock[JobAt(w)] \in 0 .. Visibility + 1 /\ busy[w] \in 0 .. MaxBusy
  BY <1>1 DEF TypeOK, StoreTypeOK, WorkerTypeOK
<1> QED
  BY <1>1, <1>2, VisibilityAssumption, WorkerAssumption DEF ClaimIsLive

LEMMA PromptInit == Init => PromptInv
BY VisibilityAssumption, QueueAssumption, WorkerAssumption
DEF Init, StoreInit, QueueInit, WorkersInit, PromptInv, TypeOK, StoreTypeOK, QueueTypeOK,
    WorkerTypeOK, MetricTypeOK, JobStatus, Unfinished, Places, Steps, Tasks, NoTask,
    Committed, ClaimIsLive, Exclusive, AcknowledgesFinished, DeletedOnlyWhenFinished,
    Engaged, Acknowledging

(* The step of an engaged worker that records an outcome s in its row.        *)
LEMMA RecordOutcome ==
    ASSUME MaxBusy <= Visibility, PromptInv,
           NEW w \in Workers, pc[w] \in Engaged,
           NEW s \in {"completed", "failed", "pending"},
           NEW step \in {"finish", "failed", "backoff"},
           step # "backoff" => s # "pending",
           status' = [status EXCEPT ![JobAt(w)] = s],
           lock' = [lock EXCEPT ![JobAt(w)] = 0],
           Goto(w, step), UNCHANGED queueVars
    PROVE  Committed' /\ ClaimIsLive' /\ Exclusive' /\ AcknowledgesFinished'
           /\ DeletedOnlyWhenFinished'
<1> USE DEF PromptInv
<1>1. JobAt(w) \in Jobs /\ status[JobAt(w)] = "processing"
  BY LeaseHolds
<1>2. \A v \in Workers : v # w /\ pc[v] \in Engaged => JobAt(v) # JobAt(w)
  BY DEF Exclusive
<1>3. \A v \in Workers : JobAt(v)' = JobAt(v) /\ busy'[v] = busy[v]
                       /\ pc'[v] = IF v = w THEN step ELSE pc[v]
  BY DEF Goto, JobAt, TypeOK, WorkerTypeOK
<1>4. \A j \in Jobs : status'[j] = (IF j = JobAt(w) THEN s ELSE status[j])
                    /\ lock'[j] = (IF j = JobAt(w) THEN 0 ELSE lock[j])
  BY DEF TypeOK, StoreTypeOK
<1>5. Committed'
  BY <1>4 DEF Committed
<1>6. \A v \in Workers : pc'[v] \in Engaged => v # w /\ pc[v] \in Engaged /\ JobAt(v) \in Jobs
  BY <1>3, LeaseHolds DEF Engaged
<1>7. ClaimIsLive' /\ Exclusive'
  BY <1>2, <1>3, <1>4, <1>6 DEF ClaimIsLive, Exclusive
<1>8. AcknowledgesFinished'
  <2> SUFFICES ASSUME NEW v \in Workers, pc'[v] \in Acknowledging, JobAt(v) # NoJob
               PROVE  status'[JobAt(v)] \in TERMINAL_STATUSES
    BY <1>3 DEF AcknowledgesFinished
  <2>1. JobAt(v) \in Jobs
    BY <1>1, <1>3, TaskFields DEF TypeOK, Acknowledging
  <2>2. CASE v = w
    BY <2>1, <2>2, <1>3, <1>4 DEF Acknowledging, TERMINAL_STATUSES
  <2>3. CASE v # w
    BY <2>1, <2>3, <1>1, <1>3, <1>4 DEF AcknowledgesFinished, TERMINAL_STATUSES
  <2> QED
    BY <2>2, <2>3
<1>9. DeletedOnlyWhenFinished'
  BY <1>1, <1>4, WorkerAssumption DEF DeletedOnlyWhenFinished, queueVars, TERMINAL_STATUSES
<1> QED
  BY <1>5, <1>7, <1>8, <1>9

LEMMA PromptStep ==
    ASSUME MaxBusy <= Visibility, PromptInv, TypeOK', [Next]_vars
    PROVE  PromptInv'
<1> DEFINE Kept == Committed' /\ ClaimIsLive' /\ Exclusive' /\ AcknowledgesFinished' /\ DeletedOnlyWhenFinished'
<1> SUFFICES Kept
  BY DEF PromptInv
<1> USE DEF PromptInv
<1>1. CASE UNCHANGED vars
  BY <1>1 DEF vars, storeVars, queueVars, workerVars, Committed, ClaimIsLive, Exclusive,
      AcknowledgesFinished, DeletedOnlyWhenFinished, JobAt
<1>2. ASSUME NEW w \in Workers, NEW m \in Messages, Receive(w, m) PROVE Kept
  BY <1>2 DEF Receive, Committed, ClaimIsLive, Exclusive,
      AcknowledgesFinished, DeletedOnlyWhenFinished, JobAt, ReceiveMessage, storeVars, TypeOK, WorkerTypeOK, Engaged, Acknowledging
<1>3. ASSUME NEW w \in Workers, Malformed(w) PROVE Kept
  BY <1>3 DEF Malformed, Committed, ClaimIsLive, Exclusive,
      AcknowledgesFinished, DeletedOnlyWhenFinished, JobAt, Goto, storeVars, queueVars, TypeOK, WorkerTypeOK,
      Engaged, Acknowledging
<1>4. ASSUME NEW w \in Workers, Claim(w) PROVE Kept
  <2>1. CASE ~Claimable(JobAt(w))
    BY <1>4, <2>1 DEF Claim, Goto, storeVars, queueVars, TypeOK, WorkerTypeOK,
        Committed, ClaimIsLive, Exclusive, AcknowledgesFinished, DeletedOnlyWhenFinished,
        JobAt, Engaged, Acknowledging
  <2>2. CASE Claimable(JobAt(w))
    <3> DEFINE j == JobAt(w)
    <3>1. j \in Jobs /\ lock[j] = 0 /\ status[j] \in Unfinished
      BY <1>4, <2>2, TaskFields DEF Claim, Claimable, TypeOK
    <3>2. \A v \in Workers : JobAt(v)' = JobAt(v) /\ busy'[v] = busy[v] /\ busy[v] \in Nat
                           /\ pc'[v] = IF v = w THEN "load" ELSE pc[v]
      BY <1>4, <2>2, WorkerAssumption DEF Claim, Goto, JobAt, TypeOK, WorkerTypeOK
    <3>3. \A k \in Jobs : status'[k] = (IF k = j THEN "processing" ELSE status[k])
                        /\ lock'[k] = (IF k = j THEN Visibility + 1 ELSE lock[k])
      BY <1>4, <2>2 DEF Claim, claim_job, TypeOK, StoreTypeOK
    <3>4. \A v \in Workers : pc[v] \in Engaged => JobAt(v) # j /\ JobAt(v) \in Jobs
      BY <3>1, LeaseHolds
    <3>5. Committed' /\ Exclusive'
      BY <3>2, <3>3, <3>4 DEF Committed, Exclusive
    <3>6. ClaimIsLive'
      BY <3>1, <3>2, <3>3, <3>4, VisibilityAssumption DEF ClaimIsLive
    <3>7. AcknowledgesFinished'
      BY <1>4, <3>1, <3>2, <3>3, TaskFields
      DEF AcknowledgesFinished, Acknowledging, Unfinished, TERMINAL_STATUSES, TypeOK
    <3>8. DeletedOnlyWhenFinished'
      BY <1>4, <3>1, <3>3, WorkerAssumption
      DEF Claim, DeletedOnlyWhenFinished, queueVars, Unfinished, TERMINAL_STATUSES
    <3> QED
      BY <3>5, <3>6, <3>7, <3>8
  <2> QED
    BY <2>1, <2>2
<1>5. ASSUME NEW w \in Workers, Classify(w) PROVE Kept
  BY <1>5 DEF Classify, Committed, ClaimIsLive, Exclusive,
      AcknowledgesFinished, DeletedOnlyWhenFinished, JobAt, Goto, NextMessage, TERMINAL_STATUSES, storeVars, queueVars, TypeOK, WorkerTypeOK,
      Engaged, Acknowledging
<1>6. ASSUME NEW w \in Workers, Load(w) PROVE Kept
  BY <1>6 DEF Load, Committed, ClaimIsLive, Exclusive,
      AcknowledgesFinished, DeletedOnlyWhenFinished, JobAt, storeVars, queueVars, TypeOK, WorkerTypeOK,
      Engaged, Acknowledging
<1>7. ASSUME NEW w \in Workers, Scored(w) PROVE Kept
  BY <1>7 DEF Scored, Committed, ClaimIsLive, Exclusive,
      AcknowledgesFinished, DeletedOnlyWhenFinished, JobAt, Goto, storeVars, queueVars, TypeOK, WorkerTypeOK,
      Engaged, Acknowledging
<1>8. ASSUME NEW w \in Workers, NEW error \in LLMErrors, NotScored(w, error) PROVE Kept
  BY <1>8 DEF NotScored, Committed, ClaimIsLive, Exclusive,
      AcknowledgesFinished, DeletedOnlyWhenFinished, JobAt, storeVars, queueVars, TypeOK, WorkerTypeOK, Engaged, Acknowledging
<1>9. ASSUME NEW w \in Workers, Persist(w) PROVE Kept
  <2>1. status[JobAt(w)] = "processing" /\ pc[w] \in Engaged
    BY <1>9, LeaseHolds DEF Persist, Engaged
  <2> QED
    BY <1>9, <2>1, RecordOutcome DEF Persist, Completable, complete_job
<1>10. ASSUME NEW w \in Workers, Release(w) PROVE Kept
  <2>1. status[JobAt(w)] = "processing" /\ pc[w] \in Engaged
    BY <1>10, LeaseHolds DEF Release, Engaged
  <2> QED
    BY <1>10, <2>1, RecordOutcome DEF Release, release_job_for_retry, Releasable, RecordError
<1>11. ASSUME NEW w \in Workers, Backoff(w) PROVE Kept
  BY <1>11 DEF Backoff, Committed, ClaimIsLive, Exclusive,
      AcknowledgesFinished, DeletedOnlyWhenFinished, JobAt, NextMessage, ChangeMessageVisibility, QueueTypeOK, storeVars, queueVars, TypeOK, WorkerTypeOK,
      Engaged, Acknowledging
<1>12. ASSUME NEW w \in Workers, Fail(w) PROVE Kept
  <2>1. status[JobAt(w)] = "processing" /\ pc[w] \in Engaged
    BY <1>12, LeaseHolds DEF Fail, Engaged
  <2> QED
    BY <1>12, <2>1, RecordOutcome DEF Fail, fail_job, Failable, Unfinished, RecordError
<1>13. ASSUME NEW w \in Workers, Acknowledge(w) PROVE Kept
  BY <1>13, TaskFields DEF Acknowledge, Committed, ClaimIsLive, Exclusive,
      AcknowledgesFinished, DeletedOnlyWhenFinished, JobAt, NextMessage, DeleteMessage, QueueTypeOK, storeVars, queueVars, TypeOK, WorkerTypeOK,
      Engaged, Acknowledging
<1>14. ASSUME NEW w \in Workers, Crash(w) PROVE Kept
  BY <1>14 DEF Crash, Committed, ClaimIsLive, Exclusive,
      AcknowledgesFinished, DeletedOnlyWhenFinished, JobAt, NextMessage, storeVars, queueVars, TypeOK, WorkerTypeOK,
      Engaged, Acknowledging
<1>15. ASSUME NEW w \in Workers, DatabaseError(w) PROVE Kept
  BY <1>15 DEF DatabaseError, Committed, ClaimIsLive, Exclusive,
      AcknowledgesFinished, DeletedOnlyWhenFinished, JobAt, NextMessage, storeVars, queueVars, TypeOK, WorkerTypeOK,
      Engaged, Acknowledging
<1>16. ASSUME NEW w \in Workers, UnexpectedError(w) PROVE Kept
  BY <1>16 DEF UnexpectedError, Committed, ClaimIsLive, Exclusive,
      AcknowledgesFinished, DeletedOnlyWhenFinished, JobAt, NextMessage, storeVars, queueVars, TypeOK, WorkerTypeOK,
      Engaged, Acknowledging
<1>17. ASSUME NEW w \in Workers, QueueError(w) PROVE Kept
  BY <1>17, TaskFields DEF QueueError, Committed, ClaimIsLive, Exclusive,
      AcknowledgesFinished, DeletedOnlyWhenFinished, JobAt, NextMessage, DeleteMessage, QueueTypeOK, storeVars, queueVars, TypeOK, WorkerTypeOK,
      Engaged, Acknowledging
<1>18. ASSUME NEW m \in Messages, EarlyRedelivery(m) \/ DeadLetter(m) PROVE Kept
  BY <1>18 DEF EarlyRedelivery, Committed, ClaimIsLive, Exclusive,
      AcknowledgesFinished, DeletedOnlyWhenFinished, JobAt, DeliverAgain, DeadLetter, Redrive, storeVars, workerVars,
      TypeOK, QueueTypeOK
<1>19. ASSUME Tick PROVE Kept
  BY <1>19, LeaseHolds, VisibilityAssumption, WorkerAssumption
  DEF Tick, Committed, ClaimIsLive, Exclusive,
      AcknowledgesFinished, DeletedOnlyWhenFinished, JobAt, StoreTick, QueueTick, Countdown, TypeOK, StoreTypeOK, WorkerTypeOK, Engaged
<1> QED
  BY <1>1, <1>2, <1>3, <1>4, <1>5, <1>6, <1>7, <1>8, <1>9, <1>10, <1>11, <1>12, <1>13, <1>14, <1>15, <1>16, <1>17, <1>18, <1>19 DEF Next, Process, Faulty, Score

(* With workers faster than their claims, no two score the same job, and a    *)
(* message leaves the queue only when its job has ended.                      *)
THEOREM PromptSafety ==
    ASSUME MaxBusy <= Visibility
    PROVE  Spec => []Exclusive /\ []DeletedOnlyWhenFinished
<1>1. PromptInv /\ TypeOK' /\ [Next]_vars => PromptInv'
  BY PromptStep
<1>2. PromptInv => Exclusive /\ DeletedOnlyWhenFinished
  BY DEF PromptInv
<1> QED
  BY PromptInit, TypeCorrect, <1>1, <1>2, PTL DEF Spec

\* No step changes the outcome of a row.
LEMMA FinalStep ==
    ASSUME TypeOK, [Next]_vars
    PROVE  \A j \in Jobs :
             status[j] \in TERMINAL_STATUSES
                 => status'[j] = status[j]
                    /\ result'[j] = result[j] /\ lastError'[j] = lastError[j]
<1> DEFINE Final ==
      \A j \in Jobs :
        status[j] \in TERMINAL_STATUSES
            => status'[j] = status[j]
               /\ result'[j] = result[j] /\ lastError'[j] = lastError[j]
<1> SUFFICES Final
  OBVIOUS
<1> USE DEF TypeOK, StoreTypeOK, TERMINAL_STATUSES
<1>1. ASSUME UNCHANGED storeVars PROVE Final
  BY <1>1 DEF storeVars
<1>2. ASSUME NEW w \in Workers, Claim(w) PROVE Final
  BY <1>2, <1>1 DEF Claim, Claimable, claim_job, Unfinished
<1>3. ASSUME NEW w \in Workers, Persist(w) PROVE Final
  BY <1>3, <1>1 DEF Persist, Completable, complete_job
<1>4. ASSUME NEW w \in Workers, Release(w) PROVE Final
  BY <1>4, <1>1 DEF Release, release_job_for_retry, Releasable, RecordError
<1>5. ASSUME NEW w \in Workers, Fail(w) PROVE Final
  BY <1>5, <1>1 DEF Fail, fail_job, Failable, RecordError, Unfinished
<1>6. ASSUME Tick PROVE Final
  BY <1>6 DEF Tick, StoreTick
<1>7. CASE UNCHANGED vars
  BY <1>1, <1>7 DEF vars
<1> QED
  BY <1>1, <1>2, <1>3, <1>4, <1>5, <1>6, <1>7
  DEF Next, Process, Faulty, Score, Receive, Malformed, Classify, Load, Scored, NotScored,
      Backoff, Acknowledge, Crash, DatabaseError, QueueError, UnexpectedError,
      EarlyRedelivery, DeadLetter

(* An outcome, once recorded, stays: for any timeouts and any slow worker.    *)
THEOREM OutcomesAreFinal == Spec => OutcomeIsFinal
<1> DEFINE Final ==
      \A j \in Jobs :
        status[j] \in TERMINAL_STATUSES
            => status'[j] = status[j]
               /\ result'[j] = result[j] /\ lastError'[j] = lastError[j]
<1>1. TypeOK /\ [Next]_vars => [Final]_vars
  BY FinalStep
<1>2. [][Final]_vars <=> OutcomeIsFinal
  BY DEF OutcomeIsFinal
<1> HIDE DEF Final
<1> QED
  BY <1>1, <1>2, TypeCorrect, PTL DEF Spec

------------------------------------------------------------------------------
(* The workers implement their promise.  An engagement E gives every worker  *)
(* its job, and no two workers the same one.                                 *)

OneEach(E) == \A v, w \in Workers : E[v] = E[w] /\ E[v] \in Jobs => v = w

LEMMA Owners ==
    ASSUME NEW E, OneEach(E), NEW j \in Jobs
    PROVE  /\ (\A w \in Workers : E[w] # j) => Owner(E, j) = Nobody
           /\ \A w \in Workers : E[w] = j <=> Owner(E, j) = w
<1>1. CASE \A w \in Workers : E[w] # j
  BY <1>1, NobodyAssumption DEF Owner
<1>2. ASSUME NEW w \in Workers, E[w] = j PROVE Owner(E, j) = w
  BY <1>2 DEF Owner, OneEach
<1> QED
  BY <1>1, <1>2

LEMMA EngagementIsOneEach ==
    ASSUME Exclusive, WorkerTypeOK PROVE OneEach(Engagement)
BY WorkerAssumption DEF Exclusive, Engagement, OneEach

LEMMA Engagements ==
    ASSUME MaxBusy <= Visibility, PromptInv, NEW w \in Workers
    PROVE  /\ pc[w] \in Engaged => Engagement[w] = JobAt(w) /\ JobAt(w) \in Jobs
                                   /\ status[JobAt(w)] = "processing"
           /\ pc[w] \notin Engaged => Engagement[w] = NoJob
BY LeaseHolds DEF PromptInv, Engagement

(* Three ways a step may change who is engaged.                              *)
LEMMA SameEngagement ==
    ASSUME Engagement' = Engagement, status' = status
    PROVE  [Promise!Next]_Promise!promiseVars
BY DEF Promise!promiseVars

LEMMA Leaves ==
    ASSUME MaxBusy <= Visibility, PromptInv,
           NEW w \in Workers, pc[w] \in Engaged,
           Engagement' = [Engagement EXCEPT ![w] = NoJob],
           NEW s \in {"completed", "failed", "pending"},
           status' = status \/ status' = [status EXCEPT ![JobAt(w)] = s]
    PROVE  Promise!Next
<1> DEFINE j == JobAt(w)
           E == [Engagement EXCEPT ![w] = NoJob]
<1>1. OneEach(Engagement)
  BY EngagementIsOneEach DEF PromptInv, TypeOK
<1>2. j \in Jobs /\ Engagement[w] = j /\ status[j] = "processing"
  BY Engagements
<1>3. Engagement \in [Workers -> Jobs \cup {NoJob}]
  BY Engagements DEF Engagement
<1>4. Owner(Engagement, j) = w /\ w # Nobody
  BY <1>1, <1>2, Owners, NobodyAssumption
<1>5. Owner(E, j) = Nobody
  <2>1. \A v \in Workers : E[v] # j
    BY <1>1, <1>2, <1>3, WorkerAssumption DEF OneEach
  <2> QED
    BY <2>1 DEF Owner
<1>6. ASSUME NEW k \in Jobs, k # j PROVE Owner(E, k) = Owner(Engagement, k)
  <2>1. \A v \in Workers : E[v] = k <=> Engagement[v] = k
    BY <1>2, <1>3, <1>6, WorkerAssumption
  <2> QED
    BY <2>1 DEF Owner
<1>7. [k \in Jobs |-> Owner(Engagement, k)]'
        = [[k \in Jobs |-> Owner(Engagement, k)] EXCEPT ![j] = Nobody]
  BY <1>5, <1>6
<1>8. CASE status' = status
  BY <1>2, <1>4, <1>7, <1>8 DEF Promise!Next, Promise!Abandon
<1>9. CASE status' = [status EXCEPT ![JobAt(w)] = s]
  BY <1>2, <1>4, <1>7, <1>9 DEF Promise!Next, Promise!Record
<1> QED
  BY <1>8, <1>9

LEMMA Takes ==
    ASSUME MaxBusy <= Visibility, PromptInv,
           NEW w \in Workers, pc[w] \notin Engaged, JobAt(w) \in Jobs, Claimable(JobAt(w)),
           Engagement' = [Engagement EXCEPT ![w] = JobAt(w)],
           status' = [status EXCEPT ![JobAt(w)] = "processing"]
    PROVE  Promise!Next
<1> DEFINE j == JobAt(w)
           E == [Engagement EXCEPT ![w] = j]
<1>1. OneEach(Engagement)
  BY EngagementIsOneEach DEF PromptInv, TypeOK
<1>2. Engagement[w] = NoJob /\ status[j] \in {"pending", "processing"}
  BY Engagements DEF Claimable, Unfinished
<1>3. Engagement \in [Workers -> Jobs \cup {NoJob}]
  BY Engagements DEF Engagement
<1>4. \A v \in Workers : Engagement[v] # j
  BY LeaseHolds, Engagements, WorkerAssumption DEF PromptInv, Claimable
<1>5. Owner(Engagement, j) = Nobody
  BY <1>4 DEF Owner
<1>6. Owner(E, j) = w
  BY <1>3, <1>4 DEF Owner
<1>7. ASSUME NEW k \in Jobs
      PROVE  /\ Owner(Engagement, k) # w
             /\ k # j => Owner(E, k) = Owner(Engagement, k)
  <2>1. Owner(Engagement, k) # w
    BY <1>1, <1>2, Owners, WorkerAssumption
  <2>2. ASSUME k # j PROVE \A v \in Workers : E[v] = k <=> Engagement[v] = k
    BY <1>2, <1>3, <2>2, WorkerAssumption
  <2> QED
    BY <2>1, <2>2 DEF Owner
<1>8. [k \in Jobs |-> Owner(Engagement, k)]'
        = [[k \in Jobs |-> Owner(Engagement, k)] EXCEPT ![j] = w]
  BY <1>6, <1>7
<1> QED
  BY <1>2, <1>5, <1>7, <1>8 DEF Promise!Next, Promise!Take

LEMMA PromiseStep ==
    ASSUME MaxBusy <= Visibility, PromptInv, [Next]_vars
    PROVE  [Promise!Next]_Promise!promiseVars
<1> USE DEF PromptInv
<1> DEFINE Kept == [Promise!Next]_Promise!promiseVars
<1>1. ASSUME pc' = pc, task' = task, status' = status PROVE Kept
  BY <1>1, SameEngagement DEF Engagement, JobAt
<1>2. ASSUME NEW w \in Workers, NEW m \in Messages, Receive(w, m) PROVE Kept
  <2>1. Engagement' = Engagement
    BY <1>2 DEF Receive, Engagement, Engaged, JobAt, TypeOK, WorkerTypeOK
  <2> QED
    BY <1>2, <2>1, SameEngagement DEF Receive, storeVars
(* A worker that goes on without recording anything stays engaged or not.    *)
<1>3. ASSUME NEW w \in Workers, status' = status, NEW s \in Steps, Goto(w, s),
             pc[w] \in Engaged <=> s \in Engaged
      PROVE  Kept
  <2>1. Engagement' = Engagement
    BY <1>3 DEF Goto, Engagement, JobAt, TypeOK, WorkerTypeOK
  <2> QED
    BY <1>3, <2>1, SameEngagement
(* A worker that returns or is lost gives up what it was engaged with.       *)
<1>4. ASSUME NEW w \in Workers, status' = status, NextMessage(w) PROVE Kept
  <2>1. CASE pc[w] \in Engaged
    <3>1. Engagement' = [Engagement EXCEPT ![w] = NoJob]
      BY <1>4 DEF NextMessage, Engagement, Engaged, JobAt, TypeOK, WorkerTypeOK
    <3> QED
      BY <1>4, <2>1, <3>1, Leaves
  <2>2. CASE pc[w] \notin Engaged
    <3>1. Engagement' = Engagement
      BY <1>4, <2>2 DEF NextMessage, Engagement, Engaged, JobAt, TypeOK, WorkerTypeOK
    <3> QED
      BY <1>4, <3>1, SameEngagement
  <2> QED
    BY <2>1, <2>2
(* A worker that records an outcome leaves its job.                          *)
<1>5. ASSUME NEW w \in Workers, pc[w] \in Engaged, NEW s \in {"completed", "failed", "pending"},
             status' = [status EXCEPT ![JobAt(w)] = s],
             NEW step \in {"finish", "failed", "backoff"}, Goto(w, step)
      PROVE  Kept
  <2>1. Engagement' = [Engagement EXCEPT ![w] = NoJob]
    BY <1>5 DEF Goto, Engagement, Engaged, JobAt, TypeOK, WorkerTypeOK
  <2> QED
    BY <1>5, <2>1, Leaves
<1>6. ASSUME NEW w \in Workers, Claim(w) PROVE Kept
  <2>1. CASE Claimable(JobAt(w))
    <3>1. Engagement' = [Engagement EXCEPT ![w] = JobAt(w)] /\ pc[w] \notin Engaged
      BY <1>6, <2>1 DEF Claim, Goto, Engagement, Engaged, JobAt, TypeOK, WorkerTypeOK
    <3>2. JobAt(w) \in Jobs
      BY <1>6, TaskFields DEF Claim, TypeOK
    <3> QED
      BY <1>6, <2>1, <3>1, <3>2, Takes DEF Claim, claim_job
  <2>2. CASE ~Claimable(JobAt(w))
    BY <1>6, <2>2, <1>3 DEF Claim, storeVars, Steps, Engaged
  <2> QED
    BY <2>1, <2>2
<1>7. ASSUME NEW w \in Workers, Load(w) \/ \E error \in LLMErrors : NotScored(w, error)
      PROVE  Kept
  <2>1. PICK step \in {"score", "release", "fail"} : pc' = [pc EXCEPT ![w] = step]
    BY <1>7 DEF Load, NotScored
  <2>2. pc[w] \in Engaged /\ status' = status
    BY <1>7 DEF Load, NotScored, Engaged, storeVars
  <2>3. \A v \in Workers : task'[v].message = task[v].message
    BY <1>7 DEF Load, NotScored, TypeOK, WorkerTypeOK, Tasks
  <2>4. Engagement' = Engagement
    BY <2>1, <2>2, <2>3 DEF Engagement, Engaged, JobAt, TypeOK, WorkerTypeOK
  <2> QED
    BY <2>2, <2>4, SameEngagement
<1>8. ASSUME NEW w \in Workers, Persist(w) \/ Release(w) \/ Fail(w) PROVE Kept
  <2>1. pc[w] \in Engaged /\ status[JobAt(w)] = "processing"
    BY <1>8, LeaseHolds DEF Persist, Release, Fail, Engaged
  <2>2. CASE Persist(w)
    BY <2>1, <2>2, <1>5 DEF Persist, Completable, complete_job
  <2>3. CASE Release(w)
    BY <2>1, <2>3, <1>5 DEF Release, release_job_for_retry, Releasable, RecordError
  <2>4. CASE Fail(w)
    BY <2>1, <2>4, <1>5 DEF Fail, fail_job, Failable, Unfinished, RecordError
  <2> QED
    BY <1>8, <2>2, <2>3, <2>4
<1>9. ASSUME NEW w \in Workers, Malformed(w) \/ Classify(w) \/ Scored(w) \/ Backoff(w)
             \/ Acknowledge(w) \/ Faulty(w)
      PROVE  Kept
  BY <1>9, <1>3, <1>4
  DEF Malformed, Classify, Scored, Backoff, Acknowledge, Faulty, Crash, DatabaseError,
      QueueError, UnexpectedError, storeVars, Steps, Engaged, Acknowledging
<1>10. CASE Tick \/ UNCHANGED vars \/ \E m \in Messages : DeadLetter(m) \/ EarlyRedelivery(m)
  BY <1>10, <1>1 DEF Tick, StoreTick, DeadLetter, EarlyRedelivery, vars, storeVars, workerVars
<1> QED
  BY <1>2, <1>6, <1>7, <1>8, <1>9, <1>10 DEF Next, Process, Score

(* With workers faster than their claims, the workers over the table and the *)
(* queue implement the state machine of the documentation, one owner a time. *)
THEOREM PromiseIsKept ==
    ASSUME MaxBusy <= Visibility
    PROVE  Spec => KeepsPromise
<1>1. Init => Promise!Init
  <2> SUFFICES ASSUME Init PROVE Promise!Init
    OBVIOUS
  <2>1. \A w \in Workers : Engagement[w] = NoJob
    BY DEF Init, WorkersInit, Engagement, Engaged
  <2>2. \A j \in Jobs : Owner(Engagement, j) = Nobody
    BY <2>1, WorkerAssumption DEF Owner
  <2> QED
    BY <2>2 DEF Init, StoreInit, Promise!Init
<1>2. PromptInv /\ [Next]_vars => [Promise!Next]_Promise!promiseVars
  BY PromiseStep
<1>3. PromptInv /\ TypeOK' /\ [Next]_vars => PromptInv'
  BY PromptStep
<1> QED
  BY <1>1, <1>2, <1>3, PromptInit, TypeCorrect, PTL DEF Spec, KeepsPromise, Promise!Spec

------------------------------------------------------------------------------
(* The argument for the rows: an attempt was counted before a worker knows  *)
(* it, and decide_retry sorts its error before the row is written.          *)

AttemptIsCounted ==
    /\ \A j \in Jobs : status[j] = "processing" => attempts[j] > 0
    /\ \A w \in Workers :
          /\ pc[w] \in Engaged => attempts[JobAt(w)] > 0
          /\ pc[w] \in Engaged \ {"load"} => task[w].attempt > 0

ErrorIsSorted ==
    \A w \in Workers :
        /\ pc[w] \in {"release", "fail"} => task[w].error \in LLMErrors
        /\ pc[w] = "release" => MayRetry(task[w].error, task[w].attempt)
        /\ pc[w] = "fail" => ~MayRetry(task[w].error, task[w].attempt)

RowInv == RowConsistent /\ AttemptIsCounted /\ ErrorIsSorted

\* What a retry, and what a failure, writes as the error of the row.
LEMMA SortedErrors ==
    ASSUME NEW e \in LLMErrors, NEW n \in Nat
    PROVE  /\ MayRetry(e, n) => RecordedError(e, n) \in {"transient", "invalid_llm_response"}
                                /\ n < MaxAttempts
           /\ ~MayRetry(e, n) => RecordedError(e, n) \notin {NoError, "transient"}
<1>1. MayRetry(e, n) => n < MaxAttempts
  BY RetryAssumption DEF MayRetry, Smaller
<1>2. MayRetry(e, n) => RecordedError(e, n) \in {"transient", "invalid_llm_response"}
  BY RetryAssumption DEF MayRetry, RecordedError
<1>3. CASE e = "transient"
  BY <1>1, <1>2, <1>3, RetryAssumption DEF MayRetry, RecordedError, NoError
<1>4. CASE e # "transient"
  BY <1>1, <1>2, <1>4 DEF RecordedError, NoError, LLMErrors
<1> QED
  BY <1>3, <1>4

\* A worker that works on no row: it is on its way to a claim, or out.
LEMMA RowsLeftAlone ==
    ASSUME TypeOK, RowInv, UNCHANGED <<status, attempts, result, lastError>>,
           \A j \in Jobs : lock'[j] > 0 => lock[j] > 0,
           \A v \in Workers : \/ pc'[v] \notin Engaged
                              \/ pc'[v] = pc[v] /\ task'[v] = task[v]
    PROVE  RowInv'
<1>1. RowConsistent'
  BY DEF RowInv, RowConsistent
<1>2. AttemptIsCounted'
  BY DEF RowInv, AttemptIsCounted, JobAt, Engaged
<1>3. ErrorIsSorted'
  BY DEF RowInv, ErrorIsSorted, Engaged
<1> QED
  BY <1>1, <1>2, <1>3 DEF RowInv

LEMMA RowStep ==
    ASSUME TypeOK, RowInv, [Next]_vars
    PROVE  RowInv'
<1> USE DEF TypeOK, StoreTypeOK, WorkerTypeOK
<1>1. CASE UNCHANGED vars
  BY <1>1, RowsLeftAlone DEF vars, storeVars, workerVars
<1>2. ASSUME NEW w \in Workers, NEW m \in Messages, Receive(w, m) PROVE RowInv'
  BY <1>2, RowsLeftAlone DEF Receive, storeVars, Engaged
<1>3. ASSUME NEW w \in Workers, Malformed(w) PROVE RowInv'
  BY <1>3, RowsLeftAlone DEF Malformed, Goto, storeVars, Engaged
<1>4. ASSUME NEW w \in Workers, Claim(w) PROVE RowInv'
  <2>1. CASE ~Claimable(JobAt(w))
    BY <1>4, <2>1, RowsLeftAlone DEF Claim, Goto, storeVars, Engaged
  <2>2. CASE Claimable(JobAt(w))
    <3> DEFINE j == JobAt(w)
    <3>1. j \in Jobs /\ status[j] \in Unfinished
      BY <1>4, <2>2, TaskFields DEF Claim, Claimable
    <3>2. \A v \in Workers : JobAt(v)' = JobAt(v) /\ task'[v] = task[v]
                           /\ pc'[v] = IF v = w THEN "load" ELSE pc[v]
      BY <1>4, <2>2 DEF Claim, Goto, JobAt
    <3>3. \A k \in Jobs : /\ status'[k] = (IF k = j THEN "processing" ELSE status[k])
                          /\ attempts'[k] = (IF k = j THEN attempts[k] + 1 ELSE attempts[k])
                          /\ lock'[k] = (IF k = j THEN Visibility + 1 ELSE lock[k])
                          /\ result'[k] = result[k] /\ lastError'[k] = lastError[k]
      BY <1>4, <2>2 DEF Claim, claim_job
    <3>4. RowConsistent'
      BY <3>1, <3>3 DEF RowInv, RowConsistent, Unfinished
    <3>5. AttemptIsCounted'
      BY <3>1, <3>2, <3>3, TaskFields DEF RowInv, AttemptIsCounted, Engaged
    <3>6. ErrorIsSorted'
      BY <3>2 DEF RowInv, ErrorIsSorted
    <3> QED
      BY <3>4, <3>5, <3>6 DEF RowInv
  <2> QED
    BY <2>1, <2>2
<1>5. ASSUME NEW w \in Workers, Classify(w) PROVE RowInv'
  BY <1>5, RowsLeftAlone DEF Classify, Goto, NextMessage, storeVars, Engaged
<1>6. ASSUME NEW w \in Workers, Load(w) PROVE RowInv'
  <2>1. JobAt(w) \in Jobs /\ attempts[JobAt(w)] > 0
    BY <1>6, TaskFields DEF Load, RowInv, AttemptIsCounted, Engaged
  <2>2. \A v \in Workers : /\ JobAt(v)' = JobAt(v)
                           /\ v # w => task'[v] = task[v] /\ pc'[v] = pc[v]
    BY <1>6 DEF Load, JobAt, Tasks
  <2>3. task'[w].attempt = attempts[JobAt(w)] /\ pc'[w] = "score"
    BY <1>6 DEF Load, Tasks, JobAt
  <2>4. AttemptIsCounted'
    BY <1>6, <2>1, <2>2, <2>3 DEF Load, storeVars, RowInv, AttemptIsCounted, Engaged
  <2>5. RowConsistent' /\ ErrorIsSorted'
    BY <1>6, <2>2, <2>3 DEF Load, storeVars, RowInv, RowConsistent, ErrorIsSorted
  <2> QED
    BY <2>4, <2>5 DEF RowInv
<1>7. ASSUME NEW w \in Workers, Scored(w) PROVE RowInv'
  BY <1>7 DEF Scored, Goto, storeVars, RowInv, RowConsistent, AttemptIsCounted, ErrorIsSorted,
      Engaged, JobAt
<1>8. ASSUME NEW w \in Workers, NEW error \in LLMErrors, NotScored(w, error) PROVE RowInv'
  <2>1. \A v \in Workers : /\ JobAt(v)' = JobAt(v) /\ task'[v].attempt = task[v].attempt
                           /\ v # w => task'[v] = task[v] /\ pc'[v] = pc[v]
    BY <1>8 DEF NotScored, JobAt, Tasks
  <2>2. /\ task'[w].error = error
        /\ pc'[w] = IF MayRetry(error, task[w].attempt) THEN "release" ELSE "fail"
    BY <1>8 DEF NotScored, Tasks
  <2>3. RowConsistent' /\ AttemptIsCounted'
    BY <1>8, <2>1, <2>2
    DEF NotScored, storeVars, RowInv, RowConsistent, AttemptIsCounted, Engaged
  <2>4. ErrorIsSorted'
    BY <2>1, <2>2 DEF RowInv, ErrorIsSorted
  <2> QED
    BY <2>3, <2>4 DEF RowInv
<1>9. ASSUME NEW w \in Workers, Persist(w) PROVE RowInv'
  <2>1. JobAt(w) \in Jobs /\ task[w].attempt > 0 /\ task[w].attempt \in Nat
    BY <1>9, TaskFields DEF Persist, RowInv, AttemptIsCounted, Engaged
  <2>2. CASE Completable(JobAt(w))
    BY <1>9, <2>1, <2>2 DEF Persist, Completable, complete_job, Goto, RowInv, RowConsistent,
        AttemptIsCounted, ErrorIsSorted, Engaged, JobAt
  <2>3. CASE ~Completable(JobAt(w))
    BY <1>9, <2>3, RowsLeftAlone DEF Persist, Goto, storeVars, Engaged
  <2> QED
    BY <2>2, <2>3
<1>10. ASSUME NEW w \in Workers, Release(w) PROVE RowInv'
  <2> DEFINE e == RecordedError(task[w].error, task[w].attempt)
  <2>1. JobAt(w) \in Jobs /\ e \in {"transient", "invalid_llm_response"}
    BY <1>10, TaskFields, SortedErrors DEF Release, RowInv, ErrorIsSorted
  <2> HIDE DEF e
  <2>2. CASE Releasable(JobAt(w))
    BY <1>10, <2>1, <2>2 DEF e, Release, release_job_for_retry, Releasable, RecordError, Goto,
        RowInv, RowConsistent, AttemptIsCounted, ErrorIsSorted, Engaged, JobAt, NoError
  <2>3. CASE ~Releasable(JobAt(w))
    BY <1>10, <2>3, RowsLeftAlone DEF Release, release_job_for_retry, Goto, storeVars, Engaged
  <2> QED
    BY <2>2, <2>3
<1>11. ASSUME NEW w \in Workers, Backoff(w) PROVE RowInv'
  BY <1>11, RowsLeftAlone DEF Backoff, NextMessage, storeVars, Engaged
<1>12. ASSUME NEW w \in Workers, Fail(w) PROVE RowInv'
  <2> DEFINE e == RecordedError(task[w].error, task[w].attempt)
  <2>1. JobAt(w) \in Jobs /\ e \notin {NoError, "transient"}
    BY <1>12, TaskFields, SortedErrors DEF Fail, RowInv, ErrorIsSorted
  <2> HIDE DEF e
  <2>2. CASE Failable(JobAt(w))
    BY <1>12, <2>1, <2>2 DEF e, Fail, fail_job, Failable, Unfinished, RecordError, Goto,
        RowInv, RowConsistent, AttemptIsCounted, ErrorIsSorted, Engaged, JobAt
  <2>3. CASE ~Failable(JobAt(w))
    BY <1>12, <2>3, RowsLeftAlone DEF Fail, fail_job, Goto, storeVars, Engaged
  <2> QED
    BY <2>2, <2>3
<1>13. ASSUME NEW w \in Workers, Acknowledge(w) \/ Faulty(w) PROVE RowInv'
  BY <1>13, RowsLeftAlone
  DEF Acknowledge, Faulty, Crash, DatabaseError, QueueError, UnexpectedError, NextMessage,
      storeVars, Engaged
<1>14. ASSUME NEW m \in Messages, EarlyRedelivery(m) \/ DeadLetter(m) PROVE RowInv'
  BY <1>14, RowsLeftAlone DEF EarlyRedelivery, DeadLetter, storeVars, workerVars
<1>15. ASSUME Tick PROVE RowInv'
  <2>1. \A j \in Jobs : lock'[j] > 0 => lock[j] > 0
    BY <1>15, VisibilityAssumption DEF Tick, StoreTick, Countdown
  <2> QED
    BY <1>15, <2>1, RowsLeftAlone DEF Tick, StoreTick
<1> QED
  BY <1>1, <1>2, <1>3, <1>4, <1>5, <1>6, <1>7, <1>8, <1>9, <1>10, <1>11, <1>12, <1>13, <1>14,
     <1>15 DEF Next, Process, Score

(* Whatever workers of any speed do to a row, its columns agree.             *)
THEOREM RowsAgree == Spec => []RowConsistent
<1>1. Init => RowInv
  BY DEF Init, StoreInit, WorkersInit, RowInv, RowConsistent, AttemptIsCounted, ErrorIsSorted,
      Engaged
<1>2. TypeOK /\ RowInv /\ [Next]_vars => RowInv'
  BY RowStep
<1>3. RowInv => RowConsistent
  BY DEF RowInv
<1> QED
  BY <1>1, <1>2, <1>3, TypeCorrect, PTL DEF Spec

------------------------------------------------------------------------------
(* The argument for the counters, with workers faster than their claims: an *)
(* attempt, a score or a count that a row does not show yet is in the hands *)
(* of the one worker engaged with it, or was lost to a fault.               *)

Working(j) == \E w \in Workers : pc[w] \in Engaged /\ JobAt(w) = j
Scorer(j) == \E w \in Workers : pc[w] = "persist" /\ JobAt(w) = j

\* The attempt a worker has read is the row's, and a retry is below the cap.
AttemptIsKnown ==
    \A w \in Workers :
        /\ pc[w] \in Engaged \ {"load"} => task[w].attempt = attempts[JobAt(w)]
        /\ pc[w] = "release" => task[w].attempt < MaxAttempts

AttemptsAreExplained ==
    \A j \in Jobs :
        status[j] \in Unfinished => attempts[j] < MaxAttempts + faults \/ Working(j)

ScoresAreExplained ==
    \A j \in Jobs : scored[j] <= faults \/ status[j] = "completed" \/ Scorer(j)

\* A worker on its way to a counter is the only one to count this job.
NotCountedYet ==
    \A w \in Workers :
        /\ pc[w] = "finish" =>
              JobAt(w) \in Jobs /\ status[JobAt(w)] = "completed" /\ jobsCompleted[JobAt(w)] = 0
        /\ pc[w] = "failed" =>
              JobAt(w) \in Jobs /\ status[JobAt(w)] = "failed" /\ jobsFailed[JobAt(w)] = 0
        /\ \A v \in Workers :
              pc[v] \in {"finish", "failed"} /\ pc[w] \in {"finish", "failed"}
                  /\ JobAt(v) = JobAt(w) => v = w

CountingInv ==
    /\ AttemptIsKnown /\ ScoreOfLatestAttempt
    /\ AttemptsAreExplained /\ AttemptsCapped
    /\ ScoresAreExplained /\ BilledAgainOnlyAfterFault
    /\ NotCountedYet /\ CountedOnce

\* No worker moves.
LEMMA CountingWaits ==
    ASSUME TypeOK, CountingInv, UNCHANGED <<status, attempts, result, pc, task, metricVars>>,
           faults' \in Nat, faults <= faults'
    PROVE  CountingInv'
<1>1. \A w \in Workers : JobAt(w)' = JobAt(w)
  BY DEF JobAt
<1>2. \A j \in Jobs : /\ scored[j] \in Nat /\ attempts[j] \in Nat
                      /\ Working(j)' <=> Working(j)
                      /\ Scorer(j)' <=> Scorer(j)
  BY <1>1 DEF Working, Scorer, TypeOK, MetricTypeOK, StoreTypeOK
<1>3. faults \in Nat
  BY WorkerAssumption DEF TypeOK, MetricTypeOK
<1>4. AttemptIsKnown' /\ ScoreOfLatestAttempt' /\ NotCountedYet' /\ CountedOnce'
  BY <1>1 DEF CountingInv, AttemptIsKnown, ScoreOfLatestAttempt, NotCountedYet, CountedOnce, metricVars
<1>5. AttemptsAreExplained' /\ AttemptsCapped'
  BY <1>2, <1>3, RetryAssumption DEF CountingInv, AttemptsAreExplained, AttemptsCapped
<1>6. ScoresAreExplained' /\ BilledAgainOnlyAfterFault'
  BY <1>2, <1>3 DEF CountingInv, ScoresAreExplained, BilledAgainOnlyAfterFault, metricVars
<1> QED
  BY <1>4, <1>5, <1>6 DEF CountingInv

\* One worker moves and nothing is recorded: it was not engaged, or a fault took
\* it from its job.
LEMMA CountingMoves ==
    ASSUME TypeOK, CountingInv, NEW w \in Workers,
           UNCHANGED <<status, attempts, result, metricVars>>,
           pc'[w] \notin Engaged \cup {"finish", "failed"},
           \A v \in Workers : v # w => pc'[v] = pc[v] /\ task'[v] = task[v],
           \/ pc[w] \notin Engaged /\ faults' = faults
           \/ faults' = faults + 1
    PROVE  CountingInv'
<1>1. \A v \in Workers : v # w => JobAt(v)' = JobAt(v)
  BY DEF JobAt
<1>2. faults \in Nat /\ MaxAttempts \in Nat
  BY WorkerAssumption, RetryAssumption DEF TypeOK, MetricTypeOK
<1>3. AttemptIsKnown' /\ ScoreOfLatestAttempt'
  BY <1>1 DEF CountingInv, AttemptIsKnown, ScoreOfLatestAttempt, Engaged
<1>4. NotCountedYet' /\ CountedOnce'
  BY <1>1 DEF CountingInv, NotCountedYet, CountedOnce, metricVars
<1>5. AttemptsCapped' /\ BilledAgainOnlyAfterFault'
  BY <1>2 DEF CountingInv, AttemptsCapped, BilledAgainOnlyAfterFault, metricVars,
      TypeOK, StoreTypeOK, MetricTypeOK
<1>6. CASE faults' = faults + 1
  <2>1. AttemptsAreExplained'
    BY <1>2, <1>6 DEF CountingInv, AttemptsAreExplained, AttemptsCapped, TypeOK, StoreTypeOK
  <2>2. ScoresAreExplained'
    BY <1>2, <1>6 DEF CountingInv, ScoresAreExplained, BilledAgainOnlyAfterFault, metricVars,
        TypeOK, MetricTypeOK
  <2> QED
    BY <1>3, <1>4, <1>5, <2>1, <2>2 DEF CountingInv
<1>7. CASE pc[w] \notin Engaged /\ faults' = faults
  <2>1. \A j \in Jobs : (Working(j) => Working(j)') /\ (Scorer(j) => Scorer(j)')
    BY <1>1, <1>7 DEF Working, Scorer, Engaged
  <2>2. AttemptsAreExplained' /\ ScoresAreExplained'
    BY <1>7, <2>1 DEF CountingInv, AttemptsAreExplained, ScoresAreExplained, metricVars
  <2> QED
    BY <1>3, <1>4, <1>5, <2>2 DEF CountingInv
<1> QED
  BY <1>6, <1>7

\* An engaged worker records an outcome of the attempt it knows in its row.
LEMMA CountingRecords ==
    ASSUME MaxBusy <= Visibility, PromptInv, CountingInv,
           NEW w \in Workers, pc[w] \in Engaged \ {"load"},
           NEW s \in {"completed", "failed", "pending"},
           status' = [status EXCEPT ![JobAt(w)] = s],
           result' = IF s = "completed" THEN [result EXCEPT ![JobAt(w)] = task[w].attempt]
                                        ELSE result,
           s = "completed" <=> pc[w] = "persist",
           s = "pending" => pc[w] = "release",
           Goto(w, IF s = "completed" THEN "finish" ELSE IF s = "failed" THEN "failed"
                                                                         ELSE "backoff"),
           UNCHANGED <<attempts, metricVars, faults>>
    PROVE  CountingInv'
<1> DEFINE j == JobAt(w)
<1> USE DEF PromptInv, CountingInv
<1>1. j \in Jobs /\ status[j] = "processing"
  BY LeaseHolds
<1>2. \A v \in Workers : /\ JobAt(v)' = JobAt(v) /\ task'[v] = task[v]
                         /\ v # w => pc'[v] = pc[v]
                         /\ v # w /\ pc[v] \in Engaged => JobAt(v) # j
  BY DEF Goto, JobAt, TypeOK, WorkerTypeOK, Exclusive
<1>3. pc'[w] = IF s = "completed" THEN "finish" ELSE IF s = "failed" THEN "failed" ELSE "backoff"
  BY DEF Goto, TypeOK, WorkerTypeOK
<1>4. \A k \in Jobs : /\ status'[k] = (IF k = j THEN s ELSE status[k])
                      /\ result'[k] = (IF k = j /\ s = "completed" THEN task[w].attempt ELSE result[k])
  BY DEF TypeOK, StoreTypeOK
<1>5. faults \in Nat /\ MaxAttempts \in Nat /\ attempts[j] \in Nat /\ scored[j] \in Nat
      /\ jobsCompleted[j] \in Nat /\ jobsFailed[j] \in Nat
  BY <1>1, WorkerAssumption, RetryAssumption DEF TypeOK, StoreTypeOK, MetricTypeOK
<1>6. AttemptIsKnown' /\ ScoreOfLatestAttempt'
  BY <1>1, <1>2, <1>3, <1>4 DEF AttemptIsKnown, ScoreOfLatestAttempt, Engaged
<1>7. \A k \in Jobs : k # j => (Working(k) => Working(k)') /\ (Scorer(k) => Scorer(k)')
  BY <1>2 DEF Working, Scorer
<1>8. AttemptsAreExplained'
  <2>1. s = "pending" => attempts[j] < MaxAttempts + faults
    BY <1>5 DEF AttemptIsKnown
  <2> QED
    BY <1>1, <1>4, <1>7, <2>1 DEF AttemptsAreExplained, Unfinished
<1>9. ScoresAreExplained'
  <2>1. s # "completed" => ~Scorer(j)
    BY <1>2 DEF Scorer, Engaged
  <2> QED
    BY <1>1, <1>4, <1>7, <2>1 DEF ScoresAreExplained, metricVars
<1>10. AttemptsCapped' /\ BilledAgainOnlyAfterFault'
  BY DEF AttemptsCapped, BilledAgainOnlyAfterFault, metricVars
<1>11. jobsCompleted[j] = 0 /\ jobsFailed[j] = 0
  BY <1>1, <1>5 DEF CountedOnce
<1>12. \A v \in Workers : pc[v] \in {"finish", "failed"} => JobAt(v) # j
  BY <1>1 DEF NotCountedYet
<1>13. NotCountedYet' /\ CountedOnce'
  BY <1>1, <1>2, <1>3, <1>4, <1>11, <1>12 DEF NotCountedYet, CountedOnce, metricVars
<1> QED
  BY <1>6, <1>8, <1>9, <1>10, <1>13

LEMMA CountingStep ==
    ASSUME MaxBusy <= Visibility, PromptInv, CountingInv, [Next]_vars
    PROVE  CountingInv'
<1> USE DEF PromptInv, TypeOK, WorkerTypeOK
<1>1. faults \in Nat
  BY WorkerAssumption DEF MetricTypeOK
<1>2. CASE UNCHANGED vars
  BY <1>1, <1>2, CountingWaits DEF vars, storeVars, workerVars
<1>3. ASSUME NEW w \in Workers, NEW m \in Messages, Receive(w, m) PROVE CountingInv'
  BY <1>3, CountingMoves DEF Receive, storeVars, Engaged
<1>4. ASSUME NEW w \in Workers, Malformed(w) PROVE CountingInv'
  BY <1>4, CountingMoves DEF Malformed, Goto, storeVars, Engaged
<1>5. ASSUME NEW w \in Workers, Claim(w) PROVE CountingInv'
  <2>1. CASE ~Claimable(JobAt(w))
    BY <1>5, <2>1, CountingMoves DEF Claim, Goto, storeVars, Engaged
  <2>2. CASE Claimable(JobAt(w))
    <3> DEFINE j == JobAt(w)
    <3> USE DEF CountingInv
    <3>1. j \in Jobs /\ status[j] \in Unfinished /\ lock[j] = 0
      BY <1>5, <2>2, TaskFields DEF Claim, Claimable
    <3>2. \A v \in Workers : pc[v] \in Engaged => JobAt(v) # j
      BY <3>1, LeaseHolds
    <3>3. \A v \in Workers : JobAt(v)' = JobAt(v) /\ task'[v] = task[v]
                           /\ pc'[v] = IF v = w THEN "load" ELSE pc[v]
      BY <1>5, <2>2 DEF Claim, Goto, JobAt
    <3>4. \A k \in Jobs : /\ status'[k] = (IF k = j THEN "processing" ELSE status[k])
                          /\ attempts'[k] = (IF k = j THEN attempts[k] + 1 ELSE attempts[k])
      BY <1>5, <2>2 DEF Claim, claim_job, StoreTypeOK
    <3>5. UNCHANGED <<result, metricVars, faults>> /\ pc[w] = "claim"
      BY <1>5, <2>2 DEF Claim, claim_job
    <3>6. attempts[j] \in Nat /\ MaxAttempts \in Nat
      BY <3>1, RetryAssumption DEF StoreTypeOK
    <3>7. AttemptIsKnown'
      BY <3>2, <3>3, <3>4, LeaseHolds DEF AttemptIsKnown, Engaged
    <3>8. ScoreOfLatestAttempt'
      BY <3>1, <3>4, <3>5 DEF ScoreOfLatestAttempt, Unfinished
    <3>9. \A k \in Jobs : (Working(k) => Working(k)') /\ (Scorer(k) => Scorer(k)')
                        /\ (k = j => Working(k)')
      BY <3>3, <3>5 DEF Working, Scorer, Engaged
    <3>10. AttemptsAreExplained' /\ AttemptsCapped'
      <4>1. attempts[j] < MaxAttempts + faults
        BY <3>1, <3>2 DEF AttemptsAreExplained, Working
      <4>2. AttemptsCapped'
        BY <1>1, <3>4, <3>5, <3>6, <4>1 DEF AttemptsCapped
      <4>3. AttemptsAreExplained'
        BY <3>4, <3>5, <3>9 DEF AttemptsAreExplained
      <4> QED
        BY <4>2, <4>3
    <3>11. ScoresAreExplained' /\ BilledAgainOnlyAfterFault'
      BY <3>1, <3>4, <3>5, <3>9
      DEF ScoresAreExplained, BilledAgainOnlyAfterFault, Unfinished, metricVars
    <3>12. NotCountedYet' /\ CountedOnce'
      BY <3>1, <3>3, <3>4, <3>5
      DEF NotCountedYet, CountedOnce, Unfinished, metricVars
    <3> QED
      BY <3>7, <3>8, <3>10, <3>11, <3>12
  <2> QED
    BY <2>1, <2>2
<1>6. ASSUME NEW w \in Workers, Classify(w) PROVE CountingInv'
  BY <1>6, CountingMoves DEF Classify, Goto, NextMessage, storeVars, Engaged
<1>7. ASSUME NEW w \in Workers, Load(w) PROVE CountingInv'
  <2> USE DEF CountingInv
  <2>1. \A v \in Workers : JobAt(v)' = JobAt(v) /\ (v # w => task'[v] = task[v] /\ pc'[v] = pc[v])
    BY <1>7 DEF Load, JobAt, Tasks
  <2>2. task'[w].attempt = attempts[JobAt(w)] /\ pc'[w] = "score" /\ pc[w] = "load"
    BY <1>7 DEF Load, Tasks, JobAt
  <2>3. UNCHANGED <<status, attempts, result, metricVars, faults>>
    BY <1>7 DEF Load, storeVars
  <2>4. \A k \in Jobs : (Working(k) <=> Working(k)') /\ (Scorer(k) <=> Scorer(k)')
    BY <2>1, <2>2 DEF Working, Scorer, Engaged
  <2>5. AttemptIsKnown' /\ ScoreOfLatestAttempt' /\ NotCountedYet' /\ CountedOnce'
    BY <2>1, <2>2, <2>3
    DEF AttemptIsKnown, ScoreOfLatestAttempt, NotCountedYet, CountedOnce, metricVars
  <2>6. /\ AttemptsAreExplained' /\ AttemptsCapped'
        /\ ScoresAreExplained' /\ BilledAgainOnlyAfterFault'
    BY <2>3, <2>4 DEF AttemptsAreExplained, AttemptsCapped, ScoresAreExplained,
        BilledAgainOnlyAfterFault, metricVars
  <2> QED
    BY <2>5, <2>6
<1>8. ASSUME NEW w \in Workers, Scored(w) PROVE CountingInv'
  <2> DEFINE j == JobAt(w)
  <2> USE DEF CountingInv
  <2>1. j \in Jobs /\ status[j] = "processing" /\ pc[w] = "score"
    BY <1>8, LeaseHolds DEF Scored, Engaged
  <2>2. \A v \in Workers : JobAt(v)' = JobAt(v) /\ task'[v] = task[v]
                         /\ pc'[v] = IF v = w THEN "persist" ELSE pc[v]
    BY <1>8 DEF Scored, Goto, JobAt
  <2>3. \A k \in Jobs : scored'[k] = (IF k = j THEN scored[k] + 1 ELSE scored[k])
                      /\ scored[k] \in Nat
    BY <1>8 DEF Scored, MetricTypeOK
  <2>4. UNCHANGED <<status, attempts, result, jobsCompleted, jobsFailed, faults>>
    BY <1>8 DEF Scored, storeVars
  <2>5. \A k \in Jobs : /\ Working(k) <=> Working(k)'
                        /\ Scorer(k) => Scorer(k)'
                        /\ k = j => Scorer(k)'
    BY <2>1, <2>2 DEF Working, Scorer, Engaged
  <2>6. AttemptIsKnown' /\ ScoreOfLatestAttempt' /\ NotCountedYet' /\ CountedOnce'
    BY <2>1, <2>2, <2>4 DEF AttemptIsKnown, ScoreOfLatestAttempt, NotCountedYet, CountedOnce, Engaged
  <2>7. AttemptsAreExplained' /\ AttemptsCapped'
    BY <2>4, <2>5 DEF AttemptsAreExplained, AttemptsCapped
  <2>8. scored[j] <= faults
    <3>1. ~Scorer(j)
      BY <2>1 DEF Scorer, Exclusive, Engaged
    <3> QED
      BY <2>1, <3>1 DEF ScoresAreExplained
  <2>9. ScoresAreExplained' /\ BilledAgainOnlyAfterFault'
    <3>1. ScoresAreExplained'
      BY <2>3, <2>4, <2>5 DEF ScoresAreExplained
    <3>2. BilledAgainOnlyAfterFault'
      BY <1>1, <2>3, <2>4, <2>8 DEF BilledAgainOnlyAfterFault
    <3> QED
      BY <3>1, <3>2
  <2> QED
    BY <2>6, <2>7, <2>9
<1>9. ASSUME NEW w \in Workers, NEW error \in LLMErrors, NotScored(w, error) PROVE CountingInv'
  <2> USE DEF CountingInv
  <2>1. \A v \in Workers : /\ JobAt(v)' = JobAt(v) /\ task'[v].attempt = task[v].attempt
                           /\ v # w => pc'[v] = pc[v]
    BY <1>9 DEF NotScored, JobAt, Tasks
  <2>2. /\ pc[w] = "score" /\ pc'[w] \in {"release", "fail"}
        /\ pc'[w] = "release" => task[w].attempt < MaxAttempts
    BY <1>9, TaskFields, SortedErrors DEF NotScored
  <2>3. UNCHANGED <<status, attempts, result, metricVars, faults>>
    BY <1>9 DEF NotScored, storeVars
  <2>4. \A k \in Jobs : (Working(k) <=> Working(k)') /\ (Scorer(k) <=> Scorer(k)')
    BY <2>1, <2>2 DEF Working, Scorer, Engaged
  <2>5. AttemptIsKnown' /\ ScoreOfLatestAttempt' /\ NotCountedYet' /\ CountedOnce'
    BY <2>1, <2>2, <2>3
    DEF AttemptIsKnown, ScoreOfLatestAttempt, NotCountedYet, CountedOnce, metricVars, Engaged
  <2>6. /\ AttemptsAreExplained' /\ AttemptsCapped'
        /\ ScoresAreExplained' /\ BilledAgainOnlyAfterFault'
    BY <2>3, <2>4 DEF AttemptsAreExplained, AttemptsCapped, ScoresAreExplained,
        BilledAgainOnlyAfterFault, metricVars
  <2> QED
    BY <2>5, <2>6
<1>10. ASSUME NEW w \in Workers, Persist(w) PROVE CountingInv'
  <2>1. status[JobAt(w)] = "processing" /\ pc[w] = "persist"
    BY <1>10, LeaseHolds DEF Persist, Engaged
  <2> QED
    BY <1>10, <2>1, CountingRecords DEF Persist, Completable, complete_job, Engaged
<1>11. ASSUME NEW w \in Workers, Release(w) PROVE CountingInv'
  <2>1. status[JobAt(w)] = "processing" /\ pc[w] = "release"
    BY <1>11, LeaseHolds DEF Release, Engaged
  <2> QED
    BY <1>11, <2>1, CountingRecords
    DEF Release, release_job_for_retry, Releasable, RecordError, Engaged
<1>12. ASSUME NEW w \in Workers, Fail(w) PROVE CountingInv'
  <2>1. status[JobAt(w)] = "processing" /\ pc[w] = "fail"
    BY <1>12, LeaseHolds DEF Fail, Engaged
  <2> QED
    BY <1>12, <2>1, CountingRecords
    DEF Fail, fail_job, Failable, Unfinished, RecordError, Engaged
<1>13. ASSUME NEW w \in Workers, Backoff(w) PROVE CountingInv'
  BY <1>13, CountingMoves DEF Backoff, NextMessage, storeVars, Engaged
<1>14. ASSUME NEW w \in Workers, Acknowledge(w) PROVE CountingInv'
  <2> DEFINE j == JobAt(w)
  <2> USE DEF CountingInv
  <2>1. \A v \in Workers : v # w => JobAt(v)' = JobAt(v) /\ task'[v] = task[v] /\ pc'[v] = pc[v]
    BY <1>14 DEF Acknowledge, NextMessage, JobAt
  <2>2. pc[w] \in Acknowledging /\ pc'[w] = "idle"
        /\ UNCHANGED <<status, attempts, result, scored, faults>>
    BY <1>14 DEF Acknowledge, NextMessage, storeVars
  <2>3. \A k \in Jobs : (Working(k) <=> Working(k)') /\ (Scorer(k) <=> Scorer(k)')
    BY <2>1, <2>2 DEF Working, Scorer, Engaged, Acknowledging
  <2>4. AttemptIsKnown' /\ ScoreOfLatestAttempt'
    BY <2>1, <2>2 DEF AttemptIsKnown, ScoreOfLatestAttempt, Engaged
  <2>5. /\ AttemptsAreExplained' /\ AttemptsCapped'
        /\ ScoresAreExplained' /\ BilledAgainOnlyAfterFault'
    BY <2>2, <2>3 DEF AttemptsAreExplained, AttemptsCapped, ScoresAreExplained,
        BilledAgainOnlyAfterFault
  <2>6. \A k \in Jobs :
           /\ jobsCompleted'[k] = IF pc[w] = "finish" /\ k = j THEN jobsCompleted[k] + 1
                                                               ELSE jobsCompleted[k]
           /\ jobsFailed'[k] = IF pc[w] = "failed" /\ k = j THEN jobsFailed[k] + 1
                                                            ELSE jobsFailed[k]
    BY <1>14 DEF Acknowledge, MetricTypeOK
  <2>7. NotCountedYet'
    BY <2>1, <2>2, <2>6 DEF NotCountedYet
  <2>8. CountedOnce'
    BY <2>2, <2>6 DEF NotCountedYet, CountedOnce, MetricTypeOK
  <2> QED
    BY <2>4, <2>5, <2>7, <2>8
<1>15. ASSUME NEW w \in Workers, Faulty(w) PROVE CountingInv'
  BY <1>15, CountingMoves
  DEF Faulty, Crash, DatabaseError, QueueError, UnexpectedError, Fault, NextMessage,
      storeVars, Engaged
<1>16. ASSUME NEW m \in Messages, EarlyRedelivery(m) \/ DeadLetter(m) PROVE CountingInv'
  BY <1>1, <1>16, CountingWaits DEF EarlyRedelivery, DeadLetter, Fault, storeVars, workerVars
<1>17. ASSUME Tick PROVE CountingInv'
  BY <1>1, <1>17, CountingWaits DEF Tick, StoreTick
<1> QED
  BY <1>2, <1>3, <1>4, <1>5, <1>6, <1>7, <1>8, <1>9, <1>10, <1>11, <1>12, <1>13, <1>14,
     <1>15, <1>16, <1>17 DEF Next, Process, Score

LEMMA CountingInit == Init => CountingInv
BY RetryAssumption
DEF Init, StoreInit, WorkersInit, CountingInv, AttemptIsKnown, ScoreOfLatestAttempt,
    AttemptsAreExplained, AttemptsCapped, ScoresAreExplained, BilledAgainOnlyAfterFault,
    NotCountedYet, CountedOnce, Engaged

(* With workers faster than their claims: the score that stands is the latest *)
(* attempt's; attempts beyond the cap and second scores are at most as many as*)
(* the faults; and the counters count each outcome once.                      *)
THEOREM CountsAddUp ==
    ASSUME MaxBusy <= Visibility
    PROVE  Spec => /\ []ScoreOfLatestAttempt /\ []BilledAgainOnlyAfterFault
                   /\ []AttemptsCapped /\ []CountedOnce
<1>1. Init => CountingInv
  BY CountingInit
<1>2. PromptInv /\ CountingInv /\ [Next]_vars => CountingInv'
  BY CountingStep
<1>3. PromptInv /\ TypeOK' /\ [Next]_vars => PromptInv'
  BY PromptStep
<1>4. CountingInv => /\ ScoreOfLatestAttempt /\ BilledAgainOnlyAfterFault
                     /\ AttemptsCapped /\ CountedOnce
  BY DEF CountingInv
<1> QED
  BY <1>1, <1>2, <1>3, <1>4, PromptInit, TypeCorrect, PTL DEF Spec

------------------------------------------------------------------------------
(* The argument for NotStranded counts receives.  A receive is paid for by  *)
(* an attempt or by a fault, except that one receive may be ahead: of a     *)
(* message that stays hidden until everyone who has it must be done.  A     *)
(* fault pays for two: a worker lost after its claim leaves the row claimed *)
(* when the message is back, and the next receive finds it so and leaves.   *)

Holds(w, m) == pc[w] # "idle" /\ task[w].message = m
AtWork(m) == {w \in Workers : Holds(w, m) /\ pc[w] \in Engaged \cup {"backoff"}}

Covered(m) ==
    /\ \E w \in Workers : Holds(w, m)
    /\ \A w \in Workers : Holds(w, m) => hidden[m] + busy[w] >= QueueVisibility

Spent(m) == receives[m] + Cardinality(AtWork(m))
Earned(m) == attempts[JobOf[m]] + faults

\* A worker was lost with a job it had claimed: the claim has yet to run out.
DeadClaim(j) == lock[j] > 0 /\ ~Working(j)

\* While a dead claim lasts, the fault has paid for the receives that fail on it.
DeadClaimIsPaid(m) ==
    DeadClaim(JobOf[m]) =>
        \/ Spent(m) + 2 <= Earned(m)
        \/ Spent(m) + 1 <= Earned(m) /\ lock[JobOf[m]] <= hidden[m] + QueueVisibility
        \/ Spent(m) <= Earned(m) /\ lock[JobOf[m]] <= hidden[m]
                                 /\ lock[JobOf[m]] <= QueueVisibility

\* A worker that found the row claimed is about to leave the message.
LosersAreAhead(m) ==
    (\E w \in Workers : Holds(w, m) /\ pc[w] = "classify") =>
        receives[m] <= Earned(m) \/ \E w \in Workers : Holds(w, m) /\ pc[w] = "claim"

Supplied(m) ==
    /\ place[m] = "queue"
    /\ IsFiniteSet(AtWork(m))
    /\ Spent(m) <= Earned(m) + (IF Covered(m) THEN 1 ELSE 0)
    /\ LosersAreAhead(m)
    /\ DeadClaimIsPaid(m)

Open(m) == JobOf[m] # NoJob /\ status[JobOf[m]] \in Unfinished
SupplyInv == \A m \in Messages : Open(m) => Supplied(m)

\* The queue hides a message at least as long as a claim lasts, and long enough
\* for a worker to be done; and a job has one message.
RecoveryTiming ==
    MaxBusy <= Visibility /\ Visibility <= QueueVisibility /\ MaxBusy < QueueVisibility
OneMessageEach ==
    /\ \A m, n \in Messages : JobOf[m] = JobOf[n] /\ JobOf[m] # NoJob => m = n
    /\ \A j \in Jobs : \E m \in Messages : JobOf[m] = j

\* The numbers of the argument.
LEMMA SupplyTypes ==
    ASSUME TypeOK, NEW m \in Messages, Open(m), IsFiniteSet(AtWork(m))
    PROVE  /\ JobOf[m] \in Jobs
           /\ attempts[JobOf[m]] \in Nat /\ lock[JobOf[m]] \in 0 .. Visibility + 1
           /\ faults \in Nat /\ hidden[m] \in Nat /\ receives[m] \in Nat
           /\ Cardinality(AtWork(m)) \in Nat /\ Spent(m) \in Nat /\ Earned(m) \in Nat
           /\ \A w \in Workers : busy[w] \in 0 .. MaxBusy
           /\ Visibility \in Nat /\ QueueVisibility \in Nat \ {0} /\ MaxBusy \in Nat
<1>1. JobOf[m] \in Jobs
  BY WorkerAssumption DEF Open
<1>2. /\ attempts[JobOf[m]] \in Nat /\ lock[JobOf[m]] \in 0 .. Visibility + 1
      /\ faults \in Nat /\ hidden[m] \in Nat /\ receives[m] \in Nat
      /\ \A w \in Workers : busy[w] \in 0 .. MaxBusy
  BY <1>1, WorkerAssumption, QueueAssumption
  DEF TypeOK, StoreTypeOK, QueueTypeOK, MetricTypeOK, WorkerTypeOK
<1>3. Cardinality(AtWork(m)) \in Nat
  BY FS_CardinalityType
<1> QED
  BY <1>1, <1>2, <1>3, VisibilityAssumption, QueueAssumption, WorkerAssumption DEF Spent, Earned

\* An engaged worker has the one message of its job.
LEMMA WorkingIsPaid ==
    ASSUME OneMessageEach, TypeOK, NEW m \in Messages, Open(m), IsFiniteSet(AtWork(m)),
           Working(JobOf[m])
    PROVE  receives[m] + 1 <= Spent(m)
<1>1. PICK v \in Workers : pc[v] \in Engaged /\ JobAt(v) = JobOf[m]
  BY DEF Working
<1>2. task[v].message = m /\ pc[v] # "idle"
  BY <1>1, TaskFields DEF OneMessageEach, JobAt, TypeOK, Open, Engaged
<1>3. v \in AtWork(m)
  BY <1>1, <1>2 DEF AtWork, Holds
<1>4. Cardinality(AtWork(m)) \in Nat \ {0}
  BY <1>3, FS_EmptySet, SupplyTypes
<1> QED
  BY <1>4, SupplyTypes DEF Spent

\* A step that leaves the message and the attempts alone, and nobody takes up or
\* leaves the message: a fault elsewhere only earns receives.
LEMMA SupplyKept ==
    ASSUME TypeOK, TypeOK', NEW m \in Messages, Open(m), Supplied(m),
           UNCHANGED <<place[m], hidden[m], receives[m], attempts[JobOf[m]]>>,
           faults' >= faults,
           lock'[JobOf[m]] \in {0, lock[JobOf[m]]},
           lock'[JobOf[m]] > 0 /\ Working(JobOf[m]) => Working(JobOf[m])',
           \A w \in Workers :
               /\ Holds(w, m)' <=> Holds(w, m)
               /\ Holds(w, m) =>
                     /\ busy'[w] = busy[w]
                     /\ pc'[w] \in Engaged \cup {"backoff"} <=> pc[w] \in Engaged \cup {"backoff"}
                     /\ pc'[w] = "classify" => pc[w] = "classify"
                     /\ pc[w] = "claim" => pc'[w] = "claim"
    PROVE  Supplied(m)'
<1>1. AtWork(m)' = AtWork(m)
  BY DEF AtWork
<1>2. Covered(m)' <=> Covered(m)
  BY DEF Covered
<1>3. Spent(m)' = Spent(m) /\ IsFiniteSet(AtWork(m)')
  BY <1>1 DEF Spent, Supplied
<1>4. faults' \in Nat /\ faults \in Nat
  BY WorkerAssumption DEF TypeOK, MetricTypeOK
<1>5. Earned(m)' >= Earned(m) /\ Earned(m)' \in Nat /\ Earned(m) \in Nat /\ Spent(m) \in Nat
  BY <1>4, SupplyTypes DEF Earned, Supplied
<1>6. LosersAreAhead(m)'
  BY <1>5, SupplyTypes DEF LosersAreAhead, Supplied
<1>7. DeadClaim(JobOf[m])' => DeadClaim(JobOf[m]) /\ lock'[JobOf[m]] = lock[JobOf[m]]
  BY SupplyTypes DEF DeadClaim, Supplied
<1>8. DeadClaimIsPaid(m)'
  BY <1>3, <1>5, <1>7, SupplyTypes DEF DeadClaimIsPaid, Supplied
<1> QED
  BY <1>2, <1>3, <1>5, <1>6, <1>8 DEF Supplied

\* A worker leaves the message without an outcome: at the end of its retry, or a
\* fault takes it away.
LEMMA SupplyLeft ==
    ASSUME RecoveryTiming, TypeOK, TypeOK', NEW m \in Messages, Open(m), Supplied(m),
           NEW w \in Workers, Holds(w, m), NextMessage(w),
           UNCHANGED <<place[m], receives[m], attempts[JobOf[m]], lock[JobOf[m]]>>,
           \/ hidden'[m] \in Nat /\ pc[w] = "backoff" /\ faults' = faults
           \/ hidden'[m] = hidden[m] /\ faults' = faults + 1
    PROVE  Supplied(m)'
<1>1. \A v \in Workers : IF v = w THEN ~Holds(v, m)' /\ pc'[v] = "idle"
                         ELSE /\ Holds(v, m)' <=> Holds(v, m)
                              /\ UNCHANGED <<pc[v], task[v], busy[v]>>
  BY DEF NextMessage, Holds, TypeOK, WorkerTypeOK
<1>2. AtWork(m)' = AtWork(m) \ {w}
  BY <1>1 DEF AtWork
<1>3. /\ IsFiniteSet(AtWork(m)')
      /\ Spent(m)' = IF w \in AtWork(m) THEN Spent(m) - 1 ELSE Spent(m)
  <2>1. IsFiniteSet(AtWork(m))
    BY DEF Supplied
  <2>2. /\ IsFiniteSet(AtWork(m) \ {w})
        /\ Cardinality(AtWork(m) \ {w}) =
              IF w \in AtWork(m) THEN Cardinality(AtWork(m)) - 1 ELSE Cardinality(AtWork(m))
    BY <2>1, FS_RemoveElement
  <2>3. receives[m] \in Nat /\ Cardinality(AtWork(m)) \in Nat
    BY <2>1, SupplyTypes
  <2> QED
    BY <1>2, <2>2, <2>3 DEF Spent
<1>4. w \in AtWork(m) <=> pc[w] \in Engaged \cup {"backoff"}
  BY DEF AtWork
<1>5. /\ Earned(m) \in Nat /\ Spent(m) \in Nat /\ faults \in Nat /\ hidden[m] \in Nat
      /\ lock[JobOf[m]] \in 0 .. Visibility + 1
      /\ Visibility \in Nat /\ QueueVisibility \in Nat /\ MaxBusy \in Nat
      /\ busy[w] \in 0 .. MaxBusy
      /\ receives[m] \in Nat /\ receives[m] <= Spent(m)
  BY SupplyTypes DEF Supplied, Spent
<1>6. Earned(m)' = Earned(m) + (faults' - faults)
  BY SupplyTypes DEF Earned, Supplied
<1>7. JobAt(w) = JobOf[m]
  BY DEF Holds, JobAt
<1>8. CASE pc[w] = "backoff" /\ faults' = faults /\ hidden'[m] \in Nat
  <2>1. Spent(m)' <= Earned(m)' /\ Spent(m)' = Spent(m) - 1 /\ Earned(m)' = Earned(m)
    BY <1>3, <1>4, <1>5, <1>6, <1>8 DEF Supplied
  <2>2. LosersAreAhead(m)'
    BY <1>1, <1>8, <2>1 DEF LosersAreAhead, Supplied
  <2>3. DeadClaim(JobOf[m])' => DeadClaim(JobOf[m])
    BY <1>1, <1>8 DEF DeadClaim, Working, Engaged, JobAt
  <2>4. DeadClaimIsPaid(m)'
    BY <1>5, <1>8, <2>1, <2>3 DEF DeadClaimIsPaid, Supplied, RecoveryTiming
  <2> QED
    BY <1>3, <1>5, <1>6, <1>8, <2>1, <2>2, <2>4 DEF Supplied
<1>9. CASE hidden'[m] = hidden[m] /\ faults' = faults + 1
  <2>1. Earned(m)' = Earned(m) + 1
    BY <1>5, <1>6, <1>9
  <2>2. Spent(m) <= Earned(m) + 1 /\ Spent(m)' <= Earned(m)' /\ receives'[m] <= Earned(m)'
    BY <1>3, <1>5, <2>1 DEF Supplied
  <2>3. DeadClaimIsPaid(m)'
    <3>1. CASE DeadClaim(JobOf[m])
      BY <1>3, <1>5, <1>9, <2>1, <3>1 DEF DeadClaimIsPaid, Supplied
    <3>2. CASE ~DeadClaim(JobOf[m]) /\ DeadClaim(JobOf[m])'
      <4>1. pc[w] \in Engaged
        BY <1>1, <3>2 DEF DeadClaim, Working, JobAt
      <4>2. Spent(m)' = Spent(m) - 1
        BY <1>3, <1>4, <4>1
      <4>3. CASE Covered(m)
        <5>1. hidden[m] + busy[w] >= QueueVisibility
          BY <4>3 DEF Covered
        <5>2. lock[JobOf[m]] <= hidden[m] + QueueVisibility
          BY <1>5, <5>1 DEF RecoveryTiming
        <5> QED
          BY <1>5, <1>9, <2>1, <2>2, <4>2, <5>2 DEF DeadClaimIsPaid
      <4>4. CASE ~Covered(m)
        BY <1>5, <2>1, <4>2, <4>4 DEF DeadClaimIsPaid, Supplied
      <4> QED
        BY <4>3, <4>4
    <3> QED
      BY <3>1, <3>2 DEF DeadClaimIsPaid
  <2>4. LosersAreAhead(m)'
    BY <2>2 DEF LosersAreAhead
  <2> QED
    BY <1>3, <1>5, <1>6, <1>9, <2>1, <2>2, <2>3, <2>4 DEF Supplied
<1> QED
  BY <1>8, <1>9

LEMMA SupplyReceive ==
    ASSUME RecoveryTiming, TypeOK, TypeOK', NEW m \in Messages, Open(m), Supplied(m),
           NEW w \in Workers, Receive(w, m)
    PROVE  Supplied(m)'
<1>0. /\ pc[w] = "idle" /\ pc'[w] = "claim" /\ task'[w].message = m
      /\ \A v \in Workers : v # w => pc'[v] = pc[v] /\ task'[v] = task[v]
  BY DEF Receive, TypeOK, WorkerTypeOK
<1>1. Holds(w, m)' /\ \A v \in Workers : v # w => (Holds(v, m)' <=> Holds(v, m))
  BY <1>0 DEF Holds
<1>2. AtWork(m)' = AtWork(m)
  BY <1>0, <1>1 DEF AtWork, Engaged, Holds
<1>3. /\ hidden[m] = 0 /\ hidden'[m] = QueueVisibility /\ receives'[m] = receives[m] + 1
      /\ place'[m] = place[m]
      /\ UNCHANGED <<attempts, lock, faults, busy>>
  BY DEF Receive, ReceiveMessage, Visible, storeVars, TypeOK, QueueTypeOK
<1>4. /\ Earned(m) \in Nat /\ Spent(m) \in Nat
      /\ lock[JobOf[m]] \in 0 .. Visibility + 1
      /\ Visibility \in Nat /\ QueueVisibility \in Nat \ {0} /\ MaxBusy \in Nat
      /\ \A v \in Workers : busy[v] \in 0 .. MaxBusy
  BY SupplyTypes DEF Supplied
<1>5. Spent(m)' = Spent(m) + 1 /\ Earned(m)' = Earned(m) /\ IsFiniteSet(AtWork(m)')
  BY <1>2, <1>3, SupplyTypes DEF Spent, Earned, Supplied
<1>6. ~Covered(m)
  BY <1>3, <1>4 DEF Covered, RecoveryTiming
<1>7. Covered(m)'
  BY <1>1, <1>3, <1>4 DEF Covered
<1>8. LosersAreAhead(m)'
  BY <1>0, <1>1 DEF LosersAreAhead
<1>9. DeadClaim(JobOf[m])' => DeadClaim(JobOf[m])
  <2>1. Working(JobOf[m]) => Working(JobOf[m])'
    BY <1>0 DEF Working, Engaged, JobAt
  <2> QED
    BY <1>3, <2>1 DEF DeadClaim
<1>10. DeadClaimIsPaid(m)'
  BY <1>3, <1>4, <1>5, <1>9 DEF DeadClaim, DeadClaimIsPaid, Supplied, RecoveryTiming
<1> QED
  BY <1>3, <1>4, <1>5, <1>6, <1>7, <1>8, <1>10 DEF Supplied

LEMMA SupplyClaim ==
    ASSUME OneMessageEach, TypeOK, TypeOK', NEW m \in Messages, Open(m), Supplied(m),
           NEW w \in Workers, Holds(w, m), Claim(w)
    PROVE  Supplied(m)'
<1> DEFINE j == JobOf[m]
<1>1. JobAt(w) = j /\ pc[w] = "claim"
  BY DEF Claim, Holds, JobAt
<1>2. \A v \in Workers : /\ Holds(v, m)' <=> Holds(v, m)
                         /\ busy'[v] = busy[v] /\ JobAt(v)' = JobAt(v)
                         /\ v # w => pc'[v] = pc[v]
  BY <1>1 DEF Claim, Goto, Holds, JobAt, TypeOK, WorkerTypeOK
<1>3. UNCHANGED <<place, hidden, receives, faults>>
  BY DEF Claim, queueVars
<1>4. Covered(m)' <=> Covered(m)
  BY <1>2, <1>3 DEF Covered
<1>5. /\ Earned(m) \in Nat /\ Spent(m) \in Nat /\ receives[m] \in Nat /\ receives[m] <= Spent(m)
      /\ j \in Jobs /\ attempts[j] \in Nat /\ faults \in Nat /\ lock[j] \in Nat
  BY SupplyTypes DEF Supplied, Spent
<1>6. CASE Claimable(j)
  <2>1. pc'[w] = "load" /\ attempts'[j] = attempts[j] + 1
    BY <1>1, <1>5, <1>6 DEF Claim, Goto, claim_job, TypeOK, StoreTypeOK, WorkerTypeOK
  <2>2. AtWork(m)' = AtWork(m) \cup {w} /\ w \notin AtWork(m)
    BY <1>1, <1>2, <2>1 DEF AtWork, Engaged
  <2>3. Spent(m)' = Spent(m) + 1 /\ IsFiniteSet(AtWork(m)')
    <3>1. IsFiniteSet(AtWork(m))
      BY DEF Supplied
    <3>2. /\ IsFiniteSet(AtWork(m) \cup {w})
          /\ Cardinality(AtWork(m) \cup {w}) = Cardinality(AtWork(m)) + 1
      BY <2>2, <3>1, FS_AddElement
    <3>3. receives[m] \in Nat /\ Cardinality(AtWork(m)) \in Nat
      BY <3>1, SupplyTypes
    <3> QED
      BY <1>3, <2>2, <3>2, <3>3 DEF Spent
  <2>4. Earned(m)' = Earned(m) + 1
    BY <1>3, <1>5, <2>1 DEF Earned
  <2>5. LosersAreAhead(m)'
    BY <1>3, <1>5, <2>4 DEF LosersAreAhead, Supplied
  <2>6. Working(j)'
    BY <1>1, <1>2, <2>1 DEF Working, Engaged
  <2>7. DeadClaimIsPaid(m)'
    BY <2>6 DEF DeadClaimIsPaid, DeadClaim
  <2> QED
    BY <1>3, <1>4, <1>5, <2>3, <2>4, <2>5, <2>7 DEF Supplied
<1>7. CASE ~Claimable(j)
  <2>1. pc'[w] = "classify" /\ UNCHANGED <<attempts, lock>>
    BY <1>1, <1>7 DEF Claim, Goto, storeVars, TypeOK, WorkerTypeOK
  <2>2. AtWork(m)' = AtWork(m)
    BY <1>1, <1>2, <2>1 DEF AtWork, Engaged
  <2>3. Working(j)' <=> Working(j)
    BY <1>1, <1>2, <2>1 DEF Working, Engaged
  <2>4. Spent(m)' = Spent(m) /\ Earned(m)' = Earned(m)
    BY <1>3, <2>1, <2>2 DEF Spent, Earned
  <2>5. receives[m] <= Earned(m)
    <3>1. lock[j] > 0
      BY <1>5, <1>7 DEF Claimable, Open
    <3>2. CASE Working(j)
      BY <1>5, <3>2, WorkingIsPaid DEF Supplied
    <3>3. CASE ~Working(j)
      BY <1>5, <3>1, <3>3 DEF Supplied, DeadClaimIsPaid, DeadClaim
    <3> QED
      BY <3>2, <3>3
  <2>6. LosersAreAhead(m)'
    BY <1>3, <2>4, <2>5 DEF LosersAreAhead
  <2>7. DeadClaimIsPaid(m)'
    BY <1>3, <2>1, <2>3, <2>4 DEF DeadClaimIsPaid, DeadClaim, Supplied
  <2> QED
    BY <1>3, <1>4, <2>2, <2>4, <2>6, <2>7 DEF Supplied
<1> QED
  BY <1>6, <1>7

LEMMA SupplyClassify ==
    ASSUME TypeOK, TypeOK', NEW m \in Messages, Open(m), Supplied(m),
           NEW w \in Workers, Holds(w, m), Classify(w)
    PROVE  Supplied(m)'
<1>1. pc[w] = "classify" /\ NextMessage(w)
  BY DEF Classify, Holds, JobAt, Open, Unfinished, TERMINAL_STATUSES
<1>2. \A v \in Workers : IF v = w THEN ~Holds(v, m)' /\ pc'[v] = "idle"
                         ELSE /\ Holds(v, m)' <=> Holds(v, m)
                              /\ pc'[v] = pc[v] /\ task'[v] = task[v] /\ busy'[v] = busy[v]
  BY <1>1 DEF NextMessage, Holds, TypeOK, WorkerTypeOK
<1>3. UNCHANGED <<place, hidden, receives, attempts, lock, faults>>
  BY DEF Classify, queueVars, storeVars
<1>4. AtWork(m)' = AtWork(m)
  BY <1>1, <1>2 DEF AtWork, Engaged
<1>5. Spent(m)' = Spent(m) /\ Earned(m)' = Earned(m)
  BY <1>3, <1>4 DEF Spent, Earned
<1>6. (\E v \in Workers : Holds(v, m)') => (Covered(m) => Covered(m)')
  BY <1>2, <1>3 DEF Covered
<1>7. (~\E v \in Workers : Holds(v, m)') => Spent(m) <= Earned(m)
  <2> SUFFICES ASSUME ~\E v \in Workers : Holds(v, m)' PROVE Spent(m) <= Earned(m)
    OBVIOUS
  <2>1. receives[m] <= Earned(m)
    BY <1>1, <1>2 DEF Supplied, LosersAreAhead
  <2>2. AtWork(m) = {}
    BY <1>4 DEF AtWork
  <2>3. receives[m] \in Nat
    BY SupplyTypes DEF Supplied
  <2> QED
    BY <2>1, <2>2, <2>3, FS_EmptySet DEF Spent
<1>8. LosersAreAhead(m)'
  BY <1>1, <1>2, <1>3, <1>5 DEF LosersAreAhead, Supplied
<1>9. Working(JobOf[m])' <=> Working(JobOf[m])
  BY <1>1, <1>2 DEF Working, Engaged, JobAt
<1>10. DeadClaimIsPaid(m)'
  BY <1>3, <1>5, <1>9 DEF DeadClaimIsPaid, DeadClaim, Supplied
<1>11. Spent(m) \in Nat /\ Earned(m) \in Nat
  BY SupplyTypes DEF Supplied
<1> QED
  BY <1>3, <1>4, <1>5, <1>6, <1>7, <1>8, <1>10, <1>11 DEF Supplied

LEMMA SupplyTick ==
    ASSUME RecoveryTiming, TypeOK, TypeOK', NEW m \in Messages, Open(m), Supplied(m), Tick
    PROVE  Supplied(m)'
<1> DEFINE j == JobOf[m]
<1>1. \A w \in Workers : /\ Holds(w, m)' <=> Holds(w, m)
                         /\ Holds(w, m) => busy[w] < MaxBusy /\ busy'[w] = busy[w] + 1
                         /\ pc'[w] = pc[w] /\ JobAt(w)' = JobAt(w)
  BY DEF Tick, Holds, JobAt, TypeOK, WorkerTypeOK
<1>2. /\ Spent(m) \in Nat /\ Earned(m) \in Nat /\ hidden[m] \in Nat /\ lock[j] \in Nat /\ j \in Jobs
      /\ \A w \in Workers : busy[w] \in Nat
      /\ QueueVisibility \in Nat /\ MaxBusy \in Nat
  BY SupplyTypes DEF Supplied
<1>3. /\ UNCHANGED <<place, receives, attempts, faults>>
      /\ hidden'[m] = (IF hidden[m] = 0 THEN 0 ELSE hidden[m] - 1)
      /\ lock'[j] = (IF lock[j] = 0 THEN 0 ELSE lock[j] - 1)
  BY <1>2 DEF Tick, StoreTick, QueueTick, Countdown
<1>4. AtWork(m)' = AtWork(m)
  BY <1>1 DEF AtWork
<1>5. Spent(m)' = Spent(m) /\ Earned(m)' = Earned(m)
  BY <1>3, <1>4 DEF Spent, Earned
<1>6. Covered(m) => Covered(m)'
  BY <1>1, <1>2, <1>3 DEF Covered, RecoveryTiming
<1>7. LosersAreAhead(m)'
  BY <1>1, <1>3, <1>5 DEF LosersAreAhead, Supplied
<1>8. Working(j)' <=> Working(j)
  BY <1>1 DEF Working
<1>9. DeadClaimIsPaid(m)'
  BY <1>2, <1>3, <1>5, <1>8 DEF DeadClaimIsPaid, DeadClaim, Supplied
<1> QED
  BY <1>2, <1>3, <1>4, <1>5, <1>6, <1>7, <1>9 DEF Supplied

\* A visible message is owed: it has not used up its receives.
LEMMA NotDeadLettered ==
    ASSUME RecoveryTiming, OneMessageEach, MaxReceive >= MaxAttempts + 2 * MaxFaults,
           TypeOK, AttemptsAreExplained, AttemptsCapped,
           NEW m \in Messages, Open(m), Supplied(m)
    PROVE  ~DeadLetter(m)
<1> SUFFICES ASSUME DeadLetter(m) PROVE FALSE
  OBVIOUS
<1> DEFINE j == JobOf[m]
<1>1. hidden[m] = 0 /\ receives[m] = MaxReceive
  BY DEF DeadLetter, Redrive, Visible
<1>2. /\ j \in Jobs /\ attempts[j] \in Nat /\ faults \in Nat /\ Cardinality(AtWork(m)) \in Nat
      /\ MaxBusy \in Nat /\ QueueVisibility \in Nat /\ \A w \in Workers : busy[w] \in 0 .. MaxBusy
      /\ Spent(m) >= receives[m] /\ Spent(m) \in Nat /\ IsFiniteSet(AtWork(m))
  BY SupplyTypes DEF Supplied, Spent
<1>3. faults <= MaxFaults /\ MaxFaults \in Nat /\ MaxAttempts \in Nat /\ MaxReceive \in Nat
  BY WorkerAssumption, RetryAssumption, QueueAssumption DEF TypeOK, MetricTypeOK
<1>4. ~Covered(m)
  BY <1>1, <1>2 DEF Covered, RecoveryTiming
<1>5. Spent(m) <= attempts[j] + faults
  BY <1>2, <1>4 DEF Supplied, Earned
<1>6. CASE Working(j)
  <2>1. receives[m] + 1 <= Spent(m)
    BY <1>2, <1>6, WorkingIsPaid
  <2>2. attempts[j] <= MaxAttempts + faults
    BY <1>2 DEF AttemptsCapped
  <2> QED
    BY <1>1, <1>2, <1>3, <1>5, <2>1, <2>2
<1>7. CASE ~Working(j)
  <2>1. attempts[j] < MaxAttempts + faults
    BY <1>2, <1>7 DEF AttemptsAreExplained, Open
  <2> QED
    BY <1>1, <1>2, <1>3, <1>5, <2>1
<1> QED
  BY <1>6, <1>7

\* What a step of one worker leaves of a message that it does not have.
LEMMA SupplyElsewhere ==
    ASSUME TypeOK, TypeOK', OneMessageEach, NEW m \in Messages, Open(m), Supplied(m),
           NEW w \in Workers, ~Holds(w, m), ~Holds(w, m)',
           \A v \in Workers : v # w => /\ pc'[v] = pc[v] /\ task'[v] = task[v]
                                      /\ busy'[v] = busy[v],
           UNCHANGED <<place[m], hidden[m], receives[m], attempts[JobOf[m]], lock[JobOf[m]]>>,
           faults' >= faults
    PROVE  Supplied(m)'
<1>1. \A v \in Workers : Holds(v, m)' <=> Holds(v, m)
  BY DEF Holds
<1>2. ASSUME Working(JobOf[m]) PROVE Working(JobOf[m])'
  <2>1. PICK v \in Workers : pc[v] \in Engaged /\ JobAt(v) = JobOf[m]
    BY <1>2 DEF Working
  <2>2. Holds(v, m)
    BY <2>1, TaskFields DEF Holds, OneMessageEach, JobAt, TypeOK, Open, Engaged
  <2> QED
    BY <2>1, <2>2 DEF Working, JobAt
<1>3. \A v \in Workers : Holds(v, m) => /\ pc'[v] = pc[v] /\ busy'[v] = busy[v]
  OBVIOUS
<1> QED
  BY <1>1, <1>2, <1>3, SupplyKept

\* The queue delivers the message early: the fault pays for it.
LEMMA SupplyRedelivered ==
    ASSUME RecoveryTiming, TypeOK, TypeOK', NEW m \in Messages, Open(m), Supplied(m),
           EarlyRedelivery(m)
    PROVE  Supplied(m)'
<1> DEFINE j == JobOf[m]
<1>1. UNCHANGED <<pc, task, busy, receives, place, attempts, lock>> /\ faults' = faults + 1
      /\ hidden'[m] = 0
  BY DEF EarlyRedelivery, DeliverAgain, Fault, storeVars, workerVars, TypeOK, QueueTypeOK
<1>2. /\ Spent(m) \in Nat /\ Earned(m) \in Nat /\ receives[m] \in Nat /\ receives[m] <= Spent(m)
      /\ lock[j] \in Nat /\ QueueVisibility \in Nat
      /\ j \in Jobs /\ attempts[j] \in Nat /\ faults \in Nat
  BY SupplyTypes DEF Supplied, Spent
<1>3. AtWork(m)' = AtWork(m)
  BY <1>1 DEF AtWork, Holds
<1>4. Spent(m)' = Spent(m) /\ Earned(m)' = Earned(m) + 1
  BY <1>1, <1>2, <1>3 DEF Spent, Earned
<1>5. Spent(m)' <= Earned(m)' /\ receives'[m] <= Earned(m)'
  BY <1>1, <1>2, <1>4 DEF Supplied
<1>6. DeadClaim(j)' <=> DeadClaim(j)
  BY <1>1 DEF DeadClaim, Working, JobAt
<1>7. DeadClaimIsPaid(m)'
  BY <1>1, <1>2, <1>4, <1>6 DEF DeadClaimIsPaid, Supplied
<1> QED
  BY <1>1, <1>2, <1>3, <1>4, <1>5, <1>7 DEF Supplied, LosersAreAhead

\* A step of a worker that has another message, or none.
LEMMA SupplyOfOthers ==
    ASSUME OneMessageEach, TypeOK, TypeOK', NEW m \in Messages, Open(m), Supplied(m),
           NEW w \in Workers, ~Holds(w, m), Process(w) \/ Faulty(w)
    PROVE  Supplied(m)'
<1> DEFINE j == JobOf[m]
           n == task[w].message
           OthersWait == \A v \in Workers : v # w => /\ pc'[v] = pc[v] /\ task'[v] = task[v]
                                                    /\ busy'[v] = busy[v]
           RowStays == UNCHANGED <<attempts[j], lock[j]>>
           MessageStays == UNCHANGED <<place[m], hidden[m], receives[m]>>
<1>1. pc[w] # "idle"
  BY DEF Process, Score, Faulty, Malformed, Claim, Classify, Load, Scored, NotScored, Persist,
      Release, Backoff, Fail, Acknowledge, Crash, DatabaseError, QueueError, UnexpectedError,
      Acknowledging
<1>2. n \in Messages \ {m} /\ JobAt(w) # j /\ j \in Jobs /\ JobAt(w) \in Jobs \cup {NoJob}
  BY <1>1, TaskFields, SupplyTypes DEF Holds, OneMessageEach, JobAt, TypeOK, Open, Supplied
<1>3. faults \in Nat
  BY WorkerAssumption DEF TypeOK, MetricTypeOK
<1> USE DEF TypeOK, WorkerTypeOK
<1>4. CASE Malformed(w) \/ Classify(w)
  <2>1. OthersWait /\ ~Holds(w, m)' /\ RowStays /\ MessageStays /\ faults' = faults
    BY <1>2, <1>4 DEF Malformed, Classify, Goto, NextMessage, Holds, storeVars, queueVars
  <2> QED
    BY <2>1, <1>3, SupplyElsewhere
<1>5. CASE Claim(w) \/ Persist(w) \/ Release(w) \/ Fail(w)
  <2>1. OthersWait /\ ~Holds(w, m)' /\ MessageStays /\ faults' = faults
    BY <1>2, <1>5 DEF Claim, Persist, Release, Fail, Goto, Holds, queueVars
  <2>2. RowStays
    BY <1>2, <1>5
    DEF Claim, Persist, Release, Fail, storeVars, claim_job, complete_job, release_job_for_retry,
        fail_job, RecordError, StoreTypeOK
  <2> QED
    BY <2>1, <2>2, <1>3, SupplyElsewhere
<1>6. CASE Load(w) \/ Scored(w) \/ \E error \in LLMErrors : NotScored(w, error)
  <2>1. OthersWait /\ RowStays /\ MessageStays /\ faults' = faults
    BY <1>6 DEF Load, Scored, NotScored, Goto, storeVars, queueVars
  <2>2. task'[w].message = n
    BY <1>1, <1>6 DEF Load, Scored, NotScored, Goto, Tasks
  <2> QED
    BY <1>2, <2>1, <2>2, <1>3, SupplyElsewhere DEF Holds
<1>7. CASE Backoff(w) \/ Acknowledge(w) \/ Faulty(w)
  <2>1. NextMessage(w) /\ UNCHANGED storeVars
    BY <1>7
    DEF Backoff, Acknowledge, Faulty, Crash, DatabaseError, QueueError, UnexpectedError
  <2>2. OthersWait /\ ~Holds(w, m)' /\ RowStays
    BY <2>1 DEF NextMessage, Holds, storeVars
  <2>3. MessageStays
    BY <1>2, <1>7
    DEF Backoff, Acknowledge, Faulty, Crash, DatabaseError, QueueError, UnexpectedError,
        ChangeMessageVisibility, DeleteMessage, queueVars, QueueTypeOK
  <2>4. faults' \in {faults, faults + 1}
    BY <1>7
    DEF Backoff, Acknowledge, Faulty, Crash, DatabaseError, QueueError, UnexpectedError, Fault
  <2> QED
    BY <2>2, <2>3, <2>4, <1>3, SupplyElsewhere
<1> QED
  BY <1>4, <1>5, <1>6, <1>7 DEF Process, Score

LEMMA SupplyStep ==
    ASSUME RecoveryTiming, OneMessageEach, MaxReceive >= MaxAttempts + 2 * MaxFaults,
           PromptInv, TypeOK', CountingInv, SupplyInv, [Next]_vars
    PROVE  SupplyInv'
<1> SUFFICES ASSUME NEW m \in Messages, Open(m)' PROVE Supplied(m)'
  BY DEF SupplyInv
<1> DEFINE j == JobOf[m]
<1> USE DEF PromptInv
<1>1. j \in Jobs /\ faults \in Nat
  BY WorkerAssumption DEF Open, TypeOK, MetricTypeOK
<1>2. Open(m)
  BY <1>1, FinalStep DEF Open, Committed, TypeOK, StoreTypeOK, JobStatus
<1>3. Supplied(m)
  BY <1>2 DEF SupplyInv
<1>4. ASSUME NEW w \in Workers, ~Holds(w, m), Process(w) \/ Faulty(w) PROVE Supplied(m)'
  BY <1>2, <1>3, <1>4, SupplyOfOthers
<1>5. ASSUME NEW w \in Workers, NEW n \in Messages, Receive(w, n) PROVE Supplied(m)'
  <2>1. CASE n = m
    BY <1>2, <1>3, <1>5, <2>1, SupplyReceive
  <2>2. CASE n # m
    <3>1. /\ ~Holds(w, m) /\ ~Holds(w, m)'
          /\ \A v \in Workers : v # w => /\ pc'[v] = pc[v] /\ task'[v] = task[v]
                                         /\ busy'[v] = busy[v]
      BY <1>5, <2>2 DEF Receive, Holds, TypeOK, WorkerTypeOK
    <3>2. /\ UNCHANGED <<place[m], hidden[m], receives[m], attempts[j], lock[j]>>
          /\ faults' = faults
      BY <1>5, <2>2 DEF Receive, ReceiveMessage, storeVars, TypeOK, QueueTypeOK
    <3> QED
      BY <1>1, <1>2, <1>3, <3>1, <3>2, SupplyElsewhere
  <2> QED
    BY <2>1, <2>2
<1>6. ASSUME NEW w \in Workers, Holds(w, m), Malformed(w) \/ Acknowledge(w) \/ QueueError(w)
      PROVE  Supplied(m)'
  BY <1>2, <1>6
  DEF Malformed, Acknowledge, QueueError, Holds, JobAt, Open, AcknowledgesFinished, Unfinished,
      TERMINAL_STATUSES
<1>7. ASSUME NEW w \in Workers, Holds(w, m), Claim(w) \/ Classify(w) PROVE Supplied(m)'
  BY <1>2, <1>3, <1>7, SupplyClaim, SupplyClassify
<1>8. ASSUME NEW w \in Workers, Holds(w, m), Load(w) \/ Score(w) \/ Release(w)
      PROVE  Supplied(m)'
  <2>1. \A v \in Workers : /\ Holds(v, m)' <=> Holds(v, m)
                           /\ busy'[v] = busy[v] /\ JobAt(v)' = JobAt(v)
                           /\ v # w => pc'[v] = pc[v]
    BY <1>8 DEF Load, Score, Scored, NotScored, Release, Goto, Holds, JobAt, Tasks, TypeOK, WorkerTypeOK
  <2>2. /\ pc[w] \in Engaged
        /\ IF Release(w) THEN pc'[w] = "backoff" ELSE pc'[w] \in Engaged
    BY <1>8 DEF Load, Score, Scored, NotScored, Release, Goto, Engaged, TypeOK, WorkerTypeOK
  <2>3. UNCHANGED <<place[m], hidden[m], receives[m], attempts[j]>> /\ faults' = faults
    BY <1>8
    DEF Load, Score, Scored, NotScored, Release, storeVars, queueVars, release_job_for_retry,
        RecordError
  <2>4. CASE Release(w)
    <3>1. lock'[j] = 0
      BY <1>1, <1>8, <2>2, <2>4, LeaseHolds
      DEF Release, release_job_for_retry, Releasable, RecordError, RecoveryTiming, Holds, JobAt,
          TypeOK, StoreTypeOK
    <3> QED
      BY <1>1, <1>2, <1>3, <2>1, <2>2, <2>3, <2>4, <3>1, SupplyKept DEF Engaged
  <2>5. CASE ~Release(w)
    <3>1. lock' = lock
      BY <1>8, <2>5 DEF Load, Score, Scored, NotScored, storeVars
    <3>2. Working(j) => Working(j)'
      BY <2>1, <2>2, <2>5 DEF Working
    <3> QED
      BY <1>1, <1>2, <1>3, <2>1, <2>2, <2>3, <2>5, <3>1, <3>2, SupplyKept DEF Engaged
  <2> QED
    BY <2>4, <2>5
<1>9. ASSUME NEW w \in Workers, Holds(w, m), Persist(w) \/ Fail(w) PROVE Supplied(m)'
  <2>1. JobAt(w) = j /\ status[j] = "processing"
    BY <1>9, LeaseHolds DEF Persist, Fail, Engaged, Holds, JobAt, RecoveryTiming
  <2>2. status'[j] \in TERMINAL_STATUSES
    BY <1>1, <1>9, <2>1
    DEF Persist, Fail, Completable, complete_job, fail_job, Failable, RecordError, Unfinished,
        TERMINAL_STATUSES, TypeOK, StoreTypeOK
  <2> QED
    BY <2>2 DEF Open, Unfinished, TERMINAL_STATUSES
<1>10. ASSUME NEW w \in Workers, Holds(w, m),
              Backoff(w) \/ Crash(w) \/ DatabaseError(w) \/ UnexpectedError(w)
       PROVE  Supplied(m)'
  <2>1. /\ NextMessage(w)
        /\ UNCHANGED <<place[m], receives[m], attempts[j], lock[j]>>
    BY <1>10
    DEF Backoff, ChangeMessageVisibility, Crash, DatabaseError, UnexpectedError, storeVars, queueVars
  <2>2. \/ pc[w] = "backoff" /\ faults' = faults
        \/ hidden'[m] = hidden[m] /\ faults' = faults + 1
    BY <1>10 DEF Backoff, Crash, DatabaseError, UnexpectedError, Fault, queueVars
  <2>3. hidden'[m] \in Nat
    BY DEF TypeOK, QueueTypeOK
  <2> QED
    BY <1>2, <1>3, <1>10, <2>1, <2>2, <2>3, SupplyLeft
<1>11. ASSUME NEW n \in Messages, DeadLetter(n) \/ EarlyRedelivery(n) PROVE Supplied(m)'
  <2>1. CASE n = m
    BY <1>2, <1>3, <1>11, <2>1, NotDeadLettered, SupplyRedelivered DEF CountingInv
  <2>2. CASE n # m
    <3>1. UNCHANGED <<pc, task, busy, attempts, lock, place[m], hidden[m], receives[m]>>
      BY <1>11, <2>2
      DEF DeadLetter, EarlyRedelivery, Redrive, DeliverAgain, storeVars, workerVars, TypeOK,
          QueueTypeOK
    <3>2. faults' >= faults
      BY <1>1, <1>11 DEF DeadLetter, EarlyRedelivery, Fault
    <3>3. Working(j)' <=> Working(j)
      BY <3>1 DEF Working, JobAt
    <3> QED
      BY <1>2, <1>3, <3>1, <3>2, <3>3, SupplyKept DEF Holds
  <2> QED
    BY <2>1, <2>2
<1>12. CASE Tick
  BY <1>2, <1>3, <1>12, SupplyTick
<1>13. CASE UNCHANGED vars
  <2>1. UNCHANGED <<pc, task, busy, attempts, lock, place, hidden, receives, faults>>
    BY <1>13 DEF vars, storeVars, queueVars, workerVars
  <2>2. Working(j)' <=> Working(j)
    BY <2>1 DEF Working, JobAt
  <2> QED
    BY <1>1, <1>2, <1>3, <2>1, <2>2, SupplyKept DEF Holds
<1> QED
  BY <1>4, <1>5, <1>6, <1>7, <1>8, <1>9, <1>10, <1>11, <1>12, <1>13
  DEF Next, Process, Faulty

(* Workers done before claim and visibility run out, one message for a job,  *)
(* and a redrive limit of MaxAttempts + 2 * MaxFaults: whatever combination   *)
(* of that many faults happens, a job that has not ended keeps its message in *)
(* the queue.                                                                *)
THEOREM NobodyIsStranded ==
    ASSUME RecoveryTiming, OneMessageEach, MaxReceive >= MaxAttempts + 2 * MaxFaults
    PROVE  Spec => []NotStranded
<1>1. Init => SupplyInv
  <2> SUFFICES ASSUME Init, NEW m \in Messages, Open(m) PROVE Supplied(m)
    BY DEF SupplyInv
  <2>1. \A w \in Workers : ~Holds(w, m) /\ pc[w] = "idle"
    BY DEF Init, WorkersInit, Holds
  <2>2. AtWork(m) = {}
    BY <2>1 DEF AtWork
  <2>3. place[m] = "queue" /\ receives[m] = 0 /\ faults = 0
    BY DEF Init, QueueInit, WorkersInit
  <2>4. attempts[JobOf[m]] = 0 /\ lock[JobOf[m]] = 0
    BY WorkerAssumption DEF Init, StoreInit, Open
  <2>5. IsFiniteSet(AtWork(m)) /\ Spent(m) = 0 /\ Earned(m) = 0
    BY <2>2, <2>3, <2>4, FS_EmptySet DEF Spent, Earned
  <2> QED
    BY <2>1, <2>3, <2>4, <2>5
    DEF Supplied, Covered, LosersAreAhead, DeadClaimIsPaid, DeadClaim
<1>2. Init => CountingInv
  BY CountingInit
<1>3. PromptInv /\ CountingInv /\ [Next]_vars => CountingInv'
  BY CountingStep DEF RecoveryTiming
<1>4. PromptInv /\ TypeOK' /\ [Next]_vars => PromptInv'
  BY PromptStep DEF RecoveryTiming
<1>5. PromptInv /\ TypeOK' /\ CountingInv /\ SupplyInv /\ [Next]_vars => SupplyInv'
  BY SupplyStep
<1>6. SupplyInv => NotStranded
  BY WorkerAssumption DEF SupplyInv, Supplied, Open, NotStranded, OneMessageEach
<1> QED
  BY <1>1, <1>2, <1>3, <1>4, <1>5, <1>6, PromptInit, TypeCorrect, PTL DEF Spec

=============================================================================
