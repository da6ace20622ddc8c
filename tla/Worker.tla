------------------------------- MODULE Worker -------------------------------
(***************************************************************************)
(* The scoring workers of backend/app/worker.py over the shared table and  *)
(* the queue.  A worker handles one message at a time; every transaction,  *)
(* queue call and provider call of Worker.process is one step, so the      *)
(* steps of several workers interleave wherever the code can be pre-empted.*)
(*                                                                         *)
(* pc[w] is the call the worker makes next:                                *)
(*   idle      receive, in run_once                                        *)
(*   claim     the claim UPDATE                                            *)
(*   classify  the SELECT that explains why the UPDATE found no row        *)
(*   load      the transaction that reads the conversation and the attempt *)
(*   score     provider.score, outside any transaction                     *)
(*   persist   complete_job                                                *)
(*   release   release_job_for_retry                                       *)
(*   backoff   change_visibility                                           *)
(*   fail      fail_job                                                    *)
(*   finish, failed, drop    delete, after complete_job, after fail_job and*)
(*             on the other branches that acknowledge                      *)
(*                                                                         *)
(* busy[w] is the time since the worker's receive.  A busy worker moves on *)
(* before MaxBusy ticks have passed: MaxBusy stands for the provider's and *)
(* the statements' timeouts plus whatever pause the process may suffer.    *)
(***************************************************************************)
EXTENDS ConversationStore, ScoringQueue, RetryPolicy, FiniteSets

CONSTANTS Workers,
          JobOf,        \* the job id in a message's body, or NoJob
          NoJob,
          NoMessage,
          MaxBusy,
          FaultKinds,   \* the faults that may happen
          MaxFaults     \* bound: how many of them

ASSUME WorkerAssumption ==
    /\ JobOf \in [Messages -> Jobs \cup {NoJob}]
    /\ NoJob \notin Jobs
    /\ NoMessage \notin Messages
    /\ MaxBusy \in Nat
    /\ MaxFaults \in Nat

VARIABLES pc, task, busy,
          scored,           \* successful provider calls, per job
          jobsCompleted,    \* jobs_completed_total, per job
          jobsFailed,       \* jobs_failed_total, per job
          faults

workerVars == <<pc, task, busy>>
metricVars == <<scored, jobsCompleted, jobsFailed>>
vars == <<storeVars, queueVars, workerVars, metricVars, faults>>

\* The steps of a worker that has claimed a job and not yet recorded an outcome.
Engaged == {"load", "score", "persist", "release", "fail"}
Acknowledging == {"finish", "failed", "drop"}
Steps == {"idle", "claim", "classify", "backoff"} \cup Engaged \cup Acknowledging

\* The locals of Worker.process: the message, the handle it came with, the
\* attempt that was read and the error in hand.
Tasks == [message : Messages, handle : Nat, attempt : Nat,
          error : LLMErrors \cup {NoError}]
NoTask == [message |-> NoMessage, handle |-> 0, attempt |-> 0, error |-> NoError]

JobAt(w) == JobOf[task[w].message]

WorkersInit ==
    /\ pc = [w \in Workers |-> "idle"]
    /\ task = [w \in Workers |-> NoTask]
    /\ busy = [w \in Workers |-> 0]
    /\ scored = [j \in Jobs |-> 0]
    /\ jobsCompleted = [j \in Jobs |-> 0]
    /\ jobsFailed = [j \in Jobs |-> 0]
    /\ faults = 0

\* Committed jobs whose messages are in the queue, and idle workers.
Init == StoreInit("pending") /\ QueueInit("queue") /\ WorkersInit

------------------------------------------------------------------------------

Goto(w, step) ==
    /\ pc' = [pc EXCEPT ![w] = step]
    /\ UNCHANGED <<task, busy>>

\* process returns or raises: run_forever calls run_once again.
NextMessage(w) ==
    /\ pc' = [pc EXCEPT ![w] = "idle"]
    /\ task' = [task EXCEPT ![w] = NoTask]
    /\ busy' = [busy EXCEPT ![w] = 0]

Receive(w, m) ==
    /\ pc[w] = "idle"
    /\ ReceiveMessage(m)
    /\ pc' = [pc EXCEPT ![w] = "claim"]
    /\ task' = [task EXCEPT ![w] = [message |-> m, handle |-> receives[m] + 1,
                                    attempt |-> 0, error |-> NoError]]
    /\ UNCHANGED <<storeVars, busy, metricVars, faults>>

\* Mutant: the message is left to cycle.
MalformedLeft(w) ==
    /\ pc[w] = "claim" /\ JobAt(w) = NoJob
    /\ NextMessage(w)
    /\ UNCHANGED <<storeVars, queueVars, metricVars, faults>>

Malformed(w) ==
    /\ pc[w] = "claim" /\ JobAt(w) = NoJob
    /\ Goto(w, "drop")
    /\ UNCHANGED <<storeVars, queueVars, metricVars, faults>>

Claim(w) ==
    /\ pc[w] = "claim" /\ JobAt(w) # NoJob
    /\ IF Claimable(JobAt(w))
         THEN claim_job(JobAt(w)) /\ Goto(w, "load")
         ELSE UNCHANGED storeVars /\ Goto(w, "classify")
    /\ UNCHANGED <<queueVars, metricVars, faults>>

\* Mutant: a job another worker holds is dropped like a finished one.
ClassifyDropsHeld(w) ==
    /\ pc[w] = "classify" /\ Goto(w, "drop")
    /\ UNCHANGED <<storeVars, queueVars, metricVars, faults>>

\* The SELECT sees what was committed by then: another worker may have moved
\* the row since the UPDATE found nothing to claim.
Classify(w) ==
    /\ pc[w] = "classify"
    /\ \/ status[JobAt(w)] \in TERMINAL_STATUSES \cup {"absent"} /\ Goto(w, "drop")
       \/ status[JobAt(w)] \in Unfinished /\ NextMessage(w)
    /\ UNCHANGED <<storeVars, queueVars, metricVars, faults>>

\* Mutant: the attempt as it was before the claim counted this one.
LoadBeforeClaim(w) ==
    /\ pc[w] = "load"
    /\ task' = [task EXCEPT ![w].attempt = attempts[JobAt(w)] - 1]
    /\ pc' = [pc EXCEPT ![w] = "score"]
    /\ UNCHANGED <<storeVars, queueVars, busy, metricVars, faults>>

Load(w) ==
    /\ pc[w] = "load"
    /\ task' = [task EXCEPT ![w].attempt = attempts[JobAt(w)]]
    /\ pc' = [pc EXCEPT ![w] = "score"]
    /\ UNCHANGED <<storeVars, queueVars, busy, metricVars, faults>>

Scored(w) ==
    /\ pc[w] = "score"
    /\ scored' = [scored EXCEPT ![JobAt(w)] = @ + 1]
    /\ Goto(w, "persist")
    /\ UNCHANGED <<storeVars, queueVars, jobsCompleted, jobsFailed, faults>>

NotScored(w, error) ==
    /\ pc[w] = "score"
    /\ task' = [task EXCEPT ![w].error = error]
    /\ pc' = [pc EXCEPT ![w] = IF MayRetry(error, task[w].attempt)
                                 THEN "release" ELSE "fail"]
    /\ UNCHANGED <<storeVars, queueVars, busy, metricVars, faults>>

Persist(w) ==
    /\ pc[w] = "persist"
    /\ IF Completable(JobAt(w))
         THEN complete_job(JobAt(w), task[w].attempt) /\ Goto(w, "finish")
         ELSE UNCHANGED storeVars /\ Goto(w, "drop")
    /\ UNCHANGED <<queueVars, metricVars, faults>>

Release(w) ==
    /\ pc[w] = "release"
    /\ release_job_for_retry(JobAt(w), RecordedError(task[w].error, task[w].attempt))
    /\ Goto(w, "backoff")
    /\ UNCHANGED <<queueVars, metricVars, faults>>

Backoff(w) ==
    /\ pc[w] = "backoff"
    /\ \E delay \in BackoffDelays(task[w].attempt) :
           ChangeMessageVisibility(task[w].message, delay)
    /\ NextMessage(w)
    /\ UNCHANGED <<storeVars, metricVars, faults>>

Fail(w) ==
    /\ pc[w] = "fail"
    /\ fail_job(JobAt(w), RecordedError(task[w].error, task[w].attempt))
    /\ Goto(w, "failed")
    /\ UNCHANGED <<queueVars, metricVars, faults>>

\* Mutant: duplicates and lost claims count as completed.
AcknowledgeCountsAll(w) ==
    /\ pc[w] \in Acknowledging
    /\ DeleteMessage(task[w].message, task[w].handle)
    /\ NextMessage(w)
    /\ jobsCompleted' = IF pc[w] # "failed"
                          THEN [jobsCompleted EXCEPT ![JobAt(w)] = @ + 1]
                          ELSE jobsCompleted
    /\ jobsFailed' = IF pc[w] = "failed"
                       THEN [jobsFailed EXCEPT ![JobAt(w)] = @ + 1]
                       ELSE jobsFailed
    /\ UNCHANGED <<storeVars, scored, faults>>

\* delete, then the counter of the outcome.
Acknowledge(w) ==
    /\ pc[w] \in Acknowledging
    /\ DeleteMessage(task[w].message, task[w].handle)
    /\ NextMessage(w)
    /\ jobsCompleted' = IF pc[w] = "finish"
                          THEN [jobsCompleted EXCEPT ![JobAt(w)] = @ + 1]
                          ELSE jobsCompleted
    /\ jobsFailed' = IF pc[w] = "failed"
                       THEN [jobsFailed EXCEPT ![JobAt(w)] = @ + 1]
                       ELSE jobsFailed
    /\ UNCHANGED <<storeVars, scored, faults>>

------------------------------------------------------------------------------
(* Faults.  Each ends the worker's work on its message wherever it stands;  *)
(* a commit or a delete whose answer is lost is a fault right after it.     *)

Fault(kind) ==
    /\ kind \in FaultKinds
    /\ faults < MaxFaults
    /\ faults' = faults + 1

\* The process dies and Kubernetes starts another.
Crash(w) ==
    /\ pc[w] # "idle"
    /\ Fault("crash")
    /\ NextMessage(w)
    /\ UNCHANGED <<storeVars, queueVars, metricVars>>

\* SQLAlchemyError out of a session: rolled back, the message left alone.
DatabaseError(w) ==
    /\ pc[w] \in {"claim", "classify", "load", "persist", "release", "fail"}
    /\ Fault("database")
    /\ NextMessage(w)
    /\ UNCHANGED <<storeVars, queueVars, metricVars>>

\* delete raises QueueUnavailableError; the counter after it is not reached.
QueueError(w) ==
    /\ pc[w] \in Acknowledging
    /\ Fault("queue")
    /\ \/ UNCHANGED queueVars
       \/ DeleteMessage(task[w].message, task[w].handle)
    /\ NextMessage(w)
    /\ UNCHANGED <<storeVars, metricVars>>

\* provider.score raises something that is not an LLMError.
UnexpectedError(w) ==
    /\ pc[w] = "score"
    /\ Fault("unexpected")
    /\ NextMessage(w)
    /\ UNCHANGED <<storeVars, queueVars, metricVars>>

EarlyRedelivery(m) ==
    /\ Fault("redelivery")
    /\ DeliverAgain(m)
    /\ UNCHANGED <<storeVars, workerVars, metricVars>>

------------------------------------------------------------------------------

DeadLetter(m) ==
    /\ Redrive(m)
    /\ UNCHANGED <<storeVars, workerVars, metricVars, faults>>

\* One tick of every clock, unless a worker has to move first.
Tick ==
    /\ \A w \in Workers : pc[w] # "idle" => busy[w] < MaxBusy
    /\ busy' = [w \in Workers |-> IF pc[w] = "idle" THEN 0 ELSE busy[w] + 1]
    /\ StoreTick
    /\ QueueTick
    /\ UNCHANGED <<pc, task, metricVars, faults>>

Score(w) == Scored(w) \/ \E error \in LLMErrors : NotScored(w, error)

Process(w) ==
    \/ Malformed(w) \/ Claim(w) \/ Classify(w) \/ Load(w) \/ Score(w)
    \/ Persist(w) \/ Release(w) \/ Backoff(w) \/ Fail(w) \/ Acknowledge(w)

Faulty(w) == Crash(w) \/ DatabaseError(w) \/ QueueError(w) \/ UnexpectedError(w)

Next ==
    \/ \E w \in Workers : Process(w) \/ Faulty(w)
    \/ \E w \in Workers, m \in Messages : Receive(w, m)
    \/ \E m \in Messages : DeadLetter(m) \/ EarlyRedelivery(m)
    \/ Tick

Spec == Init /\ [][Next]_vars

\* A busy worker runs on, idle workers keep polling (run_forever), SQS delivers
\* or redrives what is visible, and time passes.
Fairness ==
    /\ \A w \in Workers : WF_vars(Process(w))
    /\ \A m \in Messages : WF_vars(\E w \in Workers : Receive(w, m))
    /\ \A m \in Messages : WF_vars(DeadLetter(m))
    /\ WF_vars(Tick)

FairSpec == Spec /\ Fairness

==============================================================================
