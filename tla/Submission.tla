----------------------------- MODULE Submission -----------------------------
(***************************************************************************)
(* POST /conversations (submit_conversation in                             *)
(* backend/app/api/conversations.py) in front of the workers.  Job j is    *)
(* one request.  The handler runs in the request's transaction (get_db,    *)
(* backend/app/api/deps.py): create_job only flushes, so until the commit  *)
(* no other transaction sees the row; the message is sent before that.     *)
(* get_db commits when the dependency is torn down, which FastAPI (0.141,  *)
(* backend/uv.lock) does after the response has been sent.                 *)
(*                                                                         *)
(* api[j] is what the handler does next:                                   *)
(*   create    insert and flush the row       refuse  commit the failed row*)
(*   publish   send the message               sorry   answer 503           *)
(*   accept    answer 202                     commit  get_db's commit      *)
(*   over      nothing: answered and committed, or rolled back             *)
(***************************************************************************)
EXTENDS WorkerProperties

VARIABLES api,
          client    \* what the client knows: "waiting", "accepted", "refused"

submissionVars == <<vars, api, client>>

ApiSteps == {"create", "publish", "accept", "commit", "refuse", "sorry", "over"}
Answers == {"waiting", "accepted", "refused"}

SubmissionInit ==
    /\ StoreInit("absent") /\ QueueInit("unsent") /\ WorkersInit
    /\ api = [j \in Jobs |-> "create"]
    /\ client = [j \in Jobs |-> "waiting"]

------------------------------------------------------------------------------

Then(j, step) == api' = [api EXCEPT ![j] = step]
Answer(j, answer) == client' = [client EXCEPT ![j] = answer]

\* create_job: the flushed row is visible to this transaction only.
Create(j) ==
    /\ api[j] = "create" /\ Then(j, "publish")
    /\ UNCHANGED <<vars, client>>

\* publisher.publish.  boto3 retries a send whose answer it did not get
\* (build_sqs_client), so the call may leave several messages, and one that
\* raises QueuePublishError may have left some.
Publish(j) ==
    /\ api[j] = "publish"
    /\ \E sent \in SUBSET {m \in Messages : JobOf[m] = j /\ place[m] = "unsent"} :
        /\ SendMessages(sent)
        /\ Then(j, "refuse") \/ (sent # {} /\ Then(j, "accept"))
    /\ UNCHANGED <<storeVars, workerVars, metricVars, faults, client>>

\* mark_enqueued, then the answer: 202 with the job id.
Accept(j) ==
    /\ api[j] = "accept" /\ Then(j, "commit") /\ Answer(j, "accepted")
    /\ UNCHANGED vars

Commit(j) ==
    /\ api[j] = "commit" /\ Then(j, "over")
    /\ InsertJob(j, "pending", NoError)
    /\ UNCHANGED <<queueVars, workerVars, metricVars, faults, client>>

\* Mutant: the row is committed as it was created.
RefusePending(j) ==
    /\ api[j] = "refuse" /\ Then(j, "sorry")
    /\ InsertJob(j, "pending", NoError)
    /\ jobsFailed' = [jobsFailed EXCEPT ![j] = @ + 1]
    /\ UNCHANGED <<queueVars, workerVars, scored, jobsCompleted, faults, client>>

\* mark_enqueue_failed on the row of this transaction, committed in the handler.
Refuse(j) ==
    /\ api[j] = "refuse" /\ Then(j, "sorry")
    /\ InsertJob(j, "failed", "enqueue_failed")
    /\ jobsFailed' = [jobsFailed EXCEPT ![j] = @ + 1]
    /\ UNCHANGED <<queueVars, workerVars, scored, jobsCompleted, faults, client>>

Sorry(j) ==
    /\ api[j] = "sorry" /\ Then(j, "over") /\ Answer(j, "refused")
    /\ UNCHANGED vars

\* The API process dies, or the transaction fails: rolled back unless committed.
ApiCrash(j) ==
    /\ api[j] \notin {"create", "over"} /\ Then(j, "over")
    /\ Fault("api")
    /\ UNCHANGED <<storeVars, queueVars, workerVars, metricVars, client>>

Submit(j) ==
    \/ Create(j) \/ Publish(j) \/ Accept(j) \/ Commit(j)
    \/ Refuse(j) \/ Sorry(j) \/ ApiCrash(j)

SubmissionNext ==
    \/ \E j \in Jobs : Submit(j)
    \/ Next /\ UNCHANGED <<api, client>>

SubmissionSpec == SubmissionInit /\ [][SubmissionNext]_submissionVars

\* Nothing is asked of the API: a request may hang at any step.
SubmissionFairSpec == SubmissionSpec /\ Fairness

------------------------------------------------------------------------------

\* A 503 means that nothing will be scored under that id: the client may send
\* the conversation again without paying for it twice (DECISIONS.md:138).
RefusedIsNeverScored == \A j \in Jobs : client[j] = "refused" => scored[j] = 0

\* Prompt workers (MaxBusy <= Visibility, MaxBusy < QueueVisibility), and a queue that
\* redelivers nothing early.  A job that a worker has claimed keeps a message until it
\* ends, however the request, its duplicates and the deaths of the API and of workers
\* interleave: only a job nobody ever claimed can be left with none.
\* (conversations.py:64, repository.py:142)
ClaimedIsNotOrphaned ==
    \A j \in Jobs :
        attempts[j] > 0 /\ status[j] \in Unfinished
            => \E m \in Messages : JobOf[m] = j /\ place[m] \in {"queue", "dlq"}

\* Prompt and fair workers, one fault: a second crash may use up the receives.
\* Whatever the API does, a job that was claimed once ends.  (worker.py:107)
ClaimedJobEnds ==
    \A j \in Jobs : attempts[j] > 0 ~> status[j] \in TERMINAL_STATUSES

\* A submission never leaves "a row that nothing will ever process"
\* (conversations.py:66): an accepted job that has not ended has a message.
NoOrphan ==
    \A j \in Jobs :
        client[j] = "accepted" /\ status[j] \in Unfinished
            => \E m \in Messages : JobOf[m] = j /\ place[m] \in {"queue", "dlq"}

==============================================================================
