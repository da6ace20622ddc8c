-------------------------- MODULE WorkerProperties --------------------------
(***************************************************************************)
(* What the workers guarantee.  "Prompt" properties need every worker to be*)
(* done with a message before its claim runs out, MaxBusy <= Visibility:   *)
(* backend/app/config.py:44 asks for it and nothing enforces it.           *)
(***************************************************************************)
EXTENDS Worker

CONSTANT Nobody     \* the owner of a job no worker is engaged with

ASSUME NobodyAssumption == Nobody \notin Workers

WorkerTypeOK ==
    /\ pc \in [Workers -> Steps]
    /\ task \in [Workers -> Tasks \cup {NoTask}]
    /\ busy \in [Workers -> 0 .. MaxBusy]
    /\ \A w \in Workers : pc[w] # "idle" => task[w] \in Tasks
    /\ \A w \in Workers : pc[w] \notin {"idle", "claim", "drop"} => JobAt(w) \in Jobs

MetricTypeOK ==
    /\ scored \in [Jobs -> Nat]
    /\ jobsCompleted \in [Jobs -> Nat]
    /\ jobsFailed \in [Jobs -> Nat]
    /\ faults \in 0 .. MaxFaults

\* Every variable keeps to the values the code can write, and a worker beyond
\* the claim has a message that names a job.
TypeOK == StoreTypeOK /\ QueueTypeOK /\ WorkerTypeOK /\ MetricTypeOK

\* Prompt.  The claim (claim_job, repository.py:110) gives one worker at a time
\* the right to call the model for a job and to record its outcome.
Exclusive ==
    \A w1, w2 \in Workers :
        pc[w1] \in Engaged /\ pc[w2] \in Engaged /\ JobAt(w1) = JobAt(w2) => w1 = w2

\* Prompt.  "The message is only deleted after the database says the job is
\* finished" (DECISIONS.md:98, queue.py:173): no sequence of claims, retries, lost
\* workers and duplicate deliveries leaves a row that no message will bring back.
DeletedOnlyWhenFinished ==
    \A m \in Messages :
        place[m] = "deleted" /\ JobOf[m] # NoJob
            => status[JobOf[m]] \in TERMINAL_STATUSES

\* The outcome of a job, its score and its error, is never overwritten by a worker:
\* a late one, a duplicate delivery or a stale release changes nothing.  (Of the
\* ingestor it is not true: mark_enqueue_failed, repository.py:72, does not ask.)
OutcomeIsFinal ==
    [][\A j \in Jobs :
        status[j] \in TERMINAL_STATUSES
            => status'[j] = status[j]
               /\ result'[j] = result[j] /\ lastError'[j] = lastError[j]]_vars

\* The columns of a row agree: a score exactly when completed, an error of the
\* right kind when failed or waiting for a retry, a live claim only while
\* processing (a pending row under a live claim could not be retried in time).
RowConsistent ==
    \A j \in Jobs :
        /\ (status[j] = "completed") <=> (result[j] > 0)
        /\ status[j] = "completed" => lastError[j] = NoError
        /\ status[j] = "failed" => lastError[j] \notin {NoError, "transient"}
        /\ status[j] = "pending" =>
               IF attempts[j] = 0 THEN lastError[j] = NoError
               ELSE lastError[j] \in {"transient", "invalid_llm_response"}
        /\ lock[j] > 0 => status[j] = "processing"

\* Prompt.  The score that stands is that of the latest attempt counted in the
\* row, although the attempt was read in a transaction after the claim's.
ScoreOfLatestAttempt ==
    \A j \in Jobs : status[j] = "completed" => result[j] = attempts[j]

\* Prompt.  A job is scored, and billed, again only when a fault took the first
\* score away before it was committed (DECISIONS.md:121).
BilledAgainOnlyAfterFault == \A j \in Jobs : scored[j] <= 1 + faults

\* Prompt.  An attempt beyond the cap is always one a fault cut short: with an
\* outcome recorded for every attempt the cap holds (DECISIONS.md:109).
AttemptsCapped == \A j \in Jobs : attempts[j] <= MaxAttempts + faults

\* Prompt.  jobs_completed_total and jobs_failed_total count a job at most once
\* and only for the outcome it has (metrics.py, "Jobs that ended in failure").
CountedOnce ==
    \A j \in Jobs :
        /\ jobsCompleted[j] <= (IF status[j] = "completed" THEN 1 ELSE 0)
        /\ jobsFailed[j] <= (IF status[j] = "failed" THEN 1 ELSE 0)

\* A job that has not ended keeps a message that will be delivered: "SQS will
\* redeliver once the database is back" (worker.py:194) and after a crash "the job is
\* retried" (DECISIONS.md:119).  True of prompt workers and one fault; more of them use
\* up the receives, and the message goes to the dead-letter queue.
NotStranded ==
    \A j \in Jobs :
        status[j] \in Unfinished
            => \E m \in Messages : JobOf[m] = j /\ place[m] = "queue"

\* Prompt, one fault, fair.  Every job ends, completed or failed, and every
\* message is acknowledged in the end.
EveryJobEnds == \A j \in Jobs : <>(status[j] \in TERMINAL_STATUSES)
QueueDrains == <>[](\A m \in Messages : place[m] = "deleted")

------------------------------------------------------------------------------
(* The inductive invariant behind the prompt properties.                    *)

\* An engaged worker's claim is live: the row is processing, and the claim and
\* the time since the worker's receive make up at least its full length.
ClaimIsLive ==
    \A w \in Workers :
        pc[w] \in Engaged
            => /\ status[JobAt(w)] = "processing"
               /\ lock[JobAt(w)] + busy[w] >= Visibility + 1

\* A worker about to delete a message that names a job found or made it final.
AcknowledgesFinished ==
    \A w \in Workers :
        pc[w] \in Acknowledging /\ JobAt(w) # NoJob
            => status[JobAt(w)] \in TERMINAL_STATUSES

Committed == \A j \in Jobs : status[j] # "absent"

PromptInv ==
    TypeOK /\ Committed /\ ClaimIsLive /\ Exclusive /\ AcknowledgesFinished
        /\ DeletedOnlyWhenFinished

------------------------------------------------------------------------------
(* The pipeline implements its promise: the owner of a job is the worker    *)
(* between its claim and the outcome it records.                            *)

\* The job each worker is engaged with.
Engagement == [w \in Workers |-> IF pc[w] \in Engaged THEN JobAt(w) ELSE NoJob]

Owner(engagement, j) ==
    IF \E w \in Workers : engagement[w] = j
      THEN CHOOSE w \in Workers : engagement[w] = j
      ELSE Nobody

Promise == INSTANCE ScoringPromise
    WITH state <- status, owner <- [j \in Jobs |-> Owner(Engagement, j)]

\* Prompt.  Every step is a step of the promised state machine or changes
\* nothing it shows (docs/architecture-local.md:46).
KeepsPromise == Promise!Spec

==============================================================================
