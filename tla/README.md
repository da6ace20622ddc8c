# A TLA+ verification of ConvoScore

ConvoScore scores customer conversations with a language model. A conversation enters through the
HTTP API or as an object in a bucket, becomes a row in PostgreSQL and a message in an SQS queue, and
is scored by one of several workers. The code is small; what is hard about it is that several
processes share a table, a queue with at-least-once delivery and a bucket, and that each may stop,
stall or fail between any two calls. This directory models that part, checks it with TLC on small
instances and proves its main properties with TLAPS for every value of the constants.

Paths below are relative to the repository; `worker.py` and the like are in `backend/app/`.

## 1. Inventory

| Component | State | Operations | Correct means |
|---|---|---|---|
| Job store (`models.py`, `repository.py`) | `conversations`: status, attempt_count, locked_until, score, last error; `ingested_objects`; `demo_failure_tokens` | create_job, claim_job, complete_job, release_job_for_retry, fail_job, mark_enqueued, mark_enqueue_failed, record_ingested_object, object_already_seen; read-only queries | one claim at a time, columns agree, outcomes are final, one job per object |
| Scoring queue (`queue.py`, `terraform/local/sqs.tf`) | messages: visible, in flight, deleted, dead-lettered; receive counts | send, receive, delete, change_visibility, redrive | a job that has not ended keeps a message that will be delivered |
| Worker x2 (`worker.py`) | the message in hand, its receipt handle, the attempt, the error; counters; heartbeat | run_forever, run_once, process, claim, load, score, persist, release, fail, acknowledge | acknowledge only what has ended, one bill per job unless something failed, every job ends |
| Retry policy (`decide_retry`, `backoff_seconds`) | none | decide, draw a backoff | attempts are bounded, hopeless errors end a job, waits are in range |
| Submission API (`api/conversations.py`, `api/deps.py`) | the request's transaction | POST /conversations; reads | an accepted job is processed, a refused one never |
| Ingestor (`ingestor.py`, `storage.py`) | the current listing | list, check, read, validate, create, publish | every object handled, once |
| LLM provider (`scoring/provider.py`) | none | score, classify errors | every exception lands in one of three classes |
| Scoring contract, pricing, prompt (`scoring/`) | none | risk bands, cost, rendering | total over their inputs |
| Demo failures (`demo.py`, `api/demo.py`) | tokens per failure mode | arm, clear, consume, inject | a token fails one call |
| Start-up (`migrate.py`, `db.py`, `alembic/`) | schema version, advisory lock and its queue, open transactions | wait_for_database, run_migrations, wait_for_schema | no revision applied twice, none in part, nobody works on tables that are missing, everybody starts |
| Heartbeat and probes (`heartbeat.py`, `helm/.../worker.yaml`) | heartbeat file, the kubelet's view of the container | touch, is_fresh, probe, stop, kill | a working pod is not killed, a stuck one is |
| API reads (`api/stats.py`, `api/conversations.py`, `api/serializers.py`, queries of `repository.py`) | what each statement has returned so far | stats, list_conversations, get_job_status | parts and wholes agree, paging misses nothing |
| Observability (`metrics.py`, `api/observability.py`, `logging.py`) | counters, gauges | count, scrape | counters agree with the table, a backlog is seen |
| Frontend (`frontend/src`) | polled job, page of the list, transcript draft | submit, poll, page, parse | polling stops at an outcome that is final |
| Configuration (`config.py`, `factories.py`) | settings | read, build clients | values fit each other (the ASSUMEs and premises of the theorems) |
| Infrastructure (`terraform/`, `helm/`, `scripts/`) | none | deploy | values agree with the code's assumptions |

The parts interact through the three shared stores only: API and ingestor insert rows and send job
ids; workers receive ids, update rows and delete messages; the readers look at the rows. No process
calls another, except that a page asks the API and the kubelet runs a probe in the container.

Hard behaviours: two clocks for one lease (the message's visibility timeout and the row's
`locked_until`); a worker slower than its lease; duplicates from SQS and from boto3's own retries; a
crash between any two transactions; a receive count that every kind of trouble uses up; a send before
a commit (API) and a commit before a send (ingestor); a listing that is stale when the object is read;
an advisory lock that belongs to a session which may outlive its client; a liveness probe that sees
nothing but the age of a file; an answer put together from statements that saw different moments.

## 2. Modules

```
ConversationStore  ScoringQueue  RetryPolicy           Migration -- MigrationProofs
         \              |         /      |       \      WorkerPod -- PodProofs
          +---------- Worker ----+  RetryChain   DemoFailures
                        |                |            |
                        |           RetryProofs   DemoProofs
                        |
   ScoringPromise -- WorkerProperties ---- WorkerProofs
     |  (abstract)   /       \              |        \
     |     Submission         Ingestor   SubmissionProofs  IngestProofs
     |
   Review -- ReviewProofs
```

* **ConversationStore** - the table. One operator per conditional `UPDATE` of `repository.py`; such a
  statement on one row is atomic, so it is one step. `lock[j]` counts the ticks until
  `locked_until < now()` holds, and 0 also stands for NULL.
* **ScoringQueue** - what `queue.py` relies on: a received message is hidden for the visibility
  timeout, a receipt handle belongs to one receive (deleting with an older handle may or may not
  work), `change_visibility` may fail silently, redrive after MaxReceive receives.
* **RetryPolicy** - `decide_retry` (`MayRetry`, `RecordedError`) and `backoff_seconds` over the error's
  class, with the random number as a fraction.
* **Worker** - the workers over the three. `pc[w]` is the call worker w makes next; every transaction,
  queue call and provider call of `Worker.process` is an action, so workers interleave wherever the
  code can be pre-empted. Faults (`Crash`, `DatabaseError`, `QueueError`, `UnexpectedError`,
  `EarlyRedelivery`) may strike at every step where the code can meet them; all end the work on the
  message, as the `except` branches of `run_forever` do. `busy[w]` counts ticks since the receive and
  is kept below `MaxBusy`: `MaxBusy <= Visibility` says that workers are *prompt*, the assumption of
  `config.py:44` that nothing enforces; larger values let a worker outlive its claim.
* **WorkerProperties** - the properties, the inductive invariant and the refinement mapping;
  **ScoringPromise** - the state machine of `docs/architecture-local.md` with the owner of each
  attempt. The owner is the worker between its claim and the outcome it records.
* **Submission** - `submit_conversation` and `get_db` in front of the workers. The row is "absent" for
  everybody else until the commit, which comes after the send and after the answer.
* **Ingestor** - replicas that list the bucket, handle the objects in key order, create job and record
  in one transaction and publish afterwards, in front of the workers; the bucket changes under them.
  What `_parse` says of an object is a property of its content (`Kind`): valid, invalid, empty, or
  "unstorable", which passes the schema but not `jsonb` (a NUL character). `past[k]` is history: what a
  key held before.
* **RetryChain** - the failed attempts of one job in sequence.
* **DemoFailures** - the provider call in detail, with `FaultInjectingProvider` in front of it: `consume`
  is one UPDATE per mode under PostgreSQL's row locks (`writer[m]`), committed before the failure is
  raised; the operator's arm and clear are transactions over the same rows that may hang or fail;
  `classify_provider_error` turns what the real provider raises into a class. Of a job only the number
  of attempts and the verdict are kept; `owed[m]`, `onlyArmed` and `everArmed` are history.
* **Migration** - start-up. `schema` is the committed revision, `staged[p]` what the open transaction of
  API pod p has reached, `holder` the session that has the advisory lock. A pod that dies may leave a
  session behind which still holds the lock, or still waits for it (`deadWaiting`), until the server
  notices. A database that restarts ends every session, and the commit that was under way may or may
  not have been carried out. The waiters are workers and ingestors; `Needs` are the tables their loops
  touch, `Tables` those that the revisions so far have created.
* **WorkerPod** - one worker pod in time. A step of the process takes any time up to its `Limit`, unless
  it hangs; `beat` is the age of the heartbeat file, which survives a restart of the container and not
  a replacement of the pod. `url` is the cache that the loop and the scrape thread share: `queue_url`
  tests it in one step and returns it in another. The kubelet's probes, SIGTERM, the grace and SIGKILL
  are actions. A poll that is in flight at SIGTERM may still bring a message, which is then handled;
  `since` counts the messages in hand since SIGTERM was heard.
* **Review** - the readers beside the jobs. It EXTENDS ScoringPromise: the jobs move as the abstract
  machine allows, which the workers implement, so that what holds here holds of them. Each statement of
  a reader is a step, and jobs may be created, committed, claimed and scored between any two.
  `walk.before` (`scrape.before`) is history: what matched (was waiting) when the reader began.
* **MCWorker, MCSubmission, MCIngestor, MCDemoFailures, MCMigration** - instances for TLC.
  **WorkerProofs, SubmissionProofs, IngestProofs, RetryProofs, DemoProofs, MigrationProofs,
  PodProofs, ReviewProofs** - theorems. The proofs about Submission and Ingestor cite the workers'
  lemmas of WorkerProofs, such as TypeStep.

A definition whose comment says *Mutant* is not part of a specification. It is a variant with a
plausible bug; each property of a passing run is violated when one of them takes its original's place.

## 3. Runs

`tlc -config <run>.cfg <module>`; the module is in the table.

| Run | Module | Question | Result |
|---|---|---|---|
| prompt | MCWorker | Prompt workers, one job, its message twice, one fault of any kind: types, one owner at a time, messages deleted only when the job ended, the score is the latest attempt's, billed again only after a fault, counted once, refines ScoringPromise | holds |
| recovery | MCWorker | Deployed limits (3 attempts, 5 receives), one fault, a malformed message: never stranded, attempts capped; fair: the job ends, the queue drains | holds |
| stalled | MCWorker | Workers up to twice as slow as their claim: the row's columns agree, outcomes are final | holds |
| submission | MCSubmission | One request, 0 to 2 messages sent, a crash of the API or a worker: a 503 is never scored, a claimed job keeps a message; fair workers: it ends | holds |
| ingest | MCIngestor | Two replicas and a worker, two keys, contents of every kind, nothing replaced, a crash or failed read: one job per object, handled means handled; fair: every job made ends, unless its replica died before the send | holds |
| ingest_fair | MCIngestor | Objects put, replaced and removed, some that cannot be stored, a key more than are listed, a failed read: the ingestor catches up, with the three exceptions below | holds |
| retry_chain | RetryChain | Every sequence of errors: attempts bounded, backoffs in range and growing | holds |
| demo | MCDemoFailures | Failures armed and cleared while two workers score two jobs, lost commits, a worker that dies: no more calls fail than were armed, few failures are absorbed by the retries, every call ends even when an operator's request hangs | holds |
| migration | MCMigration | Two API pods, a worker and an ingestor start on every installed revision while a pod dies, the database restarts or a revision raises: the schema is whole, nothing is applied twice, a loop finds its tables, everybody starts | holds |
| pod | WorkerPod | A worker pod with the deployed probes, any two of a hang, a crash, an outage of database or queue, an unexpected error, a rollout: only a stuck process fails the liveness probe, after SIGTERM at most one message more is handled, the loop gets back to a queue it can reach | holds |
| review | Review | Overview, paging, polling and scrape while three jobs are created and scored: parts and wholes agree, paging misses nothing but for two exceptions, a shown outcome is final and comes, a waiting job is in the gauges | holds |
| submission_race | MCSubmission | No fault: does every accepted job that has not ended keep a message (conversations.py:66)? | violated |

*The exceptions of `EveryObjectHandled`.* The code does not handle every object, and the property says
which ones it does handle. Not those beyond the first MaxKeys of the bucket (`storage.py:69`: handled
objects stay, so the cut-off does not move); not those stored behind one that PostgreSQL refuses, since
the poll ends there (`ingestor.py:227`); and not those whose content
came back under its key after another had replaced it, since that one may have been read and recorded
under the returned etag (`ingestor.py:169`). Without any one of the three, TLC finds the property
violated in `ingest_fair`. Of all others it asks for what the object holds: a job made from this
content, or a rejection of a content that is invalid.

**Bounds.** Two workers or two replicas show every pairwise race; rows are independent of each other
(each statement names one id), so one job is enough for the workers and two for the ingestor. A
visibility of 2 ticks with MaxBusy 2 gives every order of receive, claim, expiry of the message and
expiry of the claim; MaxBusy 4 in `stalled` lets a claim expire and the job be taken over and ended
twice. Two messages for one job are a duplicate in the queue while the first is in hand. MaxFaults is
one, at any step: `NotStranded`, `EveryJobEnds` and `ClaimedJobEnds`, which more faults break, name
their fault count in their comments. `recovery` uses the deployed 3 attempts and 5
receives, the others smaller numbers, so that the cap and the dead-letter queue are reached. Waits of
1 and 2 ticks are drawn by the real formula. `ingest_fair` has three keys of which two are
listed and four uploads: enough to fill the bucket beyond the cut-off and then to remove or replace one
of the objects, or to put a content, replace it and put it back; there are no workers in it, as nothing
the ingestor does to objects depends on them. `retry_chain` has Base 1 and Max 12: the small end where
`int()` gives 0, four doublings, and attempts beyond the maximum. `demo` has two attempts and two
failures armed in all: enough for one job to fail by armed failures alone, for two to be hit by one
each, and for an arming to replace what another left. `migration` has two API pods, so that one waits
while the other migrates, is cut short, or has left a session behind; a worker and an ingestor, which
need different tables; all four installed revisions and two faults, for one to strike the recovery from
the other. `pod` counts in ticks of ten seconds and has the deployed numbers of `worker.yaml` (startup
probe 15 x 10 s, liveness 180 s old three times 30 s apart, grace 60 s), waits of 180 s as in `db.py`,
a long poll of 20 s answered within 30, and calls well below their timeouts; two faults make the queue
disappear under a process that then hangs, or a rollout hit one that is stuck. `review` has three jobs
of both sources and pages of one row: a row moves between pages, and every statement can see a job in
another status; the filters are one of each kind (none, one jobs enter only, one from which jobs of the
API never leave, an outcome); one reader at a time, as readers change nothing.
Deadlock is checked except in RetryChain, which stops when its job has ended, and Migration, when
everybody has started. Symmetry of workers is used in runs of
safety properties only.

**Fairness.** Weak fairness of a busy worker's next call (a process that is not dead goes on; the
provider and the database have timeouts), of receiving each visible message (the workers poll for
ever and SQS delivers what is visible), of redrive, of time, and of each replica's poll. A scoring call goes on
at every step: the statement timeout (`db.py:40`) ends a wait for a row lock. None for the
API, whose client may go away, for the operator's requests, for faults, or for uploads.
*migration*: containers are restarted and go on; a database that stopped starts; a session whose client
is dead ends at last (TCP keepalive); strong fairness of getting the lock, whose queue PostgreSQL
serves in order. *pod*: the process goes on unless it hangs, the kubelet probes, time passes, database
and queue come back; nothing is assumed of a process that hangs, which is the point. *review*: weak
fairness of the polling interval, strong fairness of showing an answer: answers may be lost, not all
of them. None for jobs or for the other readers.

## 4. Proofs

`tlapm <module>.tla` for each of the proof modules: all obligations proved, for any number of workers,
jobs, messages, pods, and faults, from the named ASSUMEs on the constants (`VisibilityAssumption`,
`QueueAssumption`, `RetryAssumption`, `WorkerAssumption`, `NobodyAssumption`, `IngestorAssumption`,
`DemoAssumption`, `PodsAssumption`, `PodAssumption`, `ReviewAssumption`) and the premises in the theorems.

| Theorem | Says |
|---|---|
| TypeCorrect | `Spec => []TypeOK` |
| PromptSafety | if `MaxBusy <= Visibility`: `Spec => []Exclusive /\ []DeletedOnlyWhenFinished` |
| OutcomesAreFinal | `Spec => OutcomeIsFinal`, for slow workers too |
| PromiseIsKept | if `MaxBusy <= Visibility`: `Spec => KeepsPromise`, the refinement of ScoringPromise |
| RowsAgree | `Spec => []RowConsistent`, for slow workers too |
| CountsAddUp | if `MaxBusy <= Visibility`: `Spec =>` `ScoreOfLatestAttempt`, `BilledAgainOnlyAfterFault`, `AttemptsCapped`, `CountedOnce`, for ever |
| NobodyIsStranded | if `RecoveryTiming`, `OneMessageEach` and `MaxReceive >= MaxAttempts + 2 * MaxFaults`: `Spec => []NotStranded` |
| RefusalIsSafe | `SubmissionSpec => []RefusedIsNeverScored`, for slow workers too |
| SubmittedRowsAgree, SubmittedOutcomesAreFinal | `SubmissionSpec => []RowConsistent`, `SubmissionSpec => OutcomeIsFinal`, for slow workers too |
| ClaimsKeepTheirMessage | if `MaxBusy <= Visibility`, `MaxBusy < QueueVisibility` and SQS redelivers nothing early: `SubmissionSpec => []ClaimedIsNotOrphaned` |
| IngestTypeCorrect | `IngestSpec => []IngestTypeOK` |
| OneJobEach | if no object is replaced under its key: `IngestSpec => [](OneJobPerObject /\ SeenIsHandled)`, for slow workers too |
| RetriesAreBounded | RetryChain: `Spec => []AttemptsEnd /\ []HopelessIsLast` |
| ChainTypeCorrect, WaitsGrow | RetryChain: `Spec => []ChainTypeOK`, `Spec => []BackoffGrows` |
| TokensAreUsedOnce | `DemoSpec => []AtMostAsArmed` |
| ArmedFailuresAreAbsorbed | `DemoSpec => []FewFailuresAreAbsorbed` |
| MigrationSafety | `MigrationSpec =>` types, `NothingIsAppliedTwice`, `SchemaIsWhole`, `ServesOnHead`, `HasItsTables`, for ever |
| StopTakesOneMore | `PodSpec => []PodTypeOK /\ []OneMoreAtMost`, whatever the limits |
| ProbesSpareTheWorking | if `PassFits`: `PodSpec => []OnlyStuckIsStopped` |
| ReviewSafety | `ReviewSpec =>` types, `StatsAddUp`, `WalkIsComplete`, `ShownIsFinal`, `BacklogIsSeen`, for ever |

*The argument.* `Exclusive` is not inductive: nothing in it keeps a second worker from claiming. What
does is the lease. `PromptInv` adds that an engaged worker's row is processing and that
`lock[JobAt(w)] + busy[w] >= Visibility + 1` (`ClaimIsLive`): a tick takes at most one from the lock
and adds one to `busy`, and a prompt worker has `busy <= Visibility`, so the lock is at least 1 and
`Claimable` is false for everybody else. With one owner per row, whoever persists, releases or fails a
row does so under its own claim, hence a worker that goes on to delete its message has seen its
job ended (`AcknowledgesFinished`), and outcomes are final, hence `DeletedOnlyWhenFinished`. The
refinement has `PromptInv` as its invariant: a claim is `Take`, recording an outcome is `Record`, a
fault of an engaged worker is `Abandon`, and every other step stutters. `OutcomesAreFinal` needs the
types only.

The counting properties relate a row, the worker that holds it and the faults so far. `CountingInv` says
for every job that an attempt without a recorded outcome is the one in progress or was cut short by a
fault, and the same of a score without a completed row; so whatever a row counts beyond what its owner
explains is at most `faults`. A counter that was not incremented yet belongs to the one worker that is
about to acknowledge. `RowsAgree` needs no timing: every statement writes its columns together, under
the condition on the status that its `WHERE` clause states.

`NobodyIsStranded` counts receives, for it is the receive count that sends a message to the dead-letter
queue. Its invariant (`SupplyInv`) says of the message of a job that has not ended that it is in the
queue and that its receives, with the workers at work on it, are at most `attempts + faults` (`Spent <=
Earned`), except that one receive may be ahead while the message stays hidden until all its holders must
be done (`Covered`). Attempts without a fault are at most `MaxAttempts`, by `CountingInv`. Two cases need
care. A worker that is lost after its claim leaves the row claimed when the message is back: the next
receive finds nothing to claim and goes away, so a fault has to pay for two receives, and
`DeadClaimIsPaid` says how much of that is left while the dead claim runs out. A worker that is about to
find the row claimed (`LosersAreAhead`) has a message somebody else was given again. That is where the
bound comes from, and it cannot be lower: with receives, faults and attempts of 5, 2 and 2, or of 4, 1
and 3, TLC finds a stranded job. The deployed 5 receives and 3 attempts are enough for exactly one fault.
`RecoveryTiming` is the deployed relation of the timeouts (`MaxBusy <= Visibility <= QueueVisibility`,
`MaxBusy < QueueVisibility`): the worker is meant to be done first (`config.py:44`), and lock and queue
have the same 90 s by default; nothing enforces either. `OneMessageEach` says that a job was sent once,
as it is when boto3 repeats no send. The `recovery` run is an instance of the theorem.

The waits of a job grow because the n-th delay is drawn for the n-th attempt (`DelayInv`), the jitter
takes at most half of it, and the next is twice as long before jitter. That `2^(n+1) = 2 * 2^n` is not
known to the provers and would need induction; it is proved by counting: `2^n` is the number of subsets
of `1 .. n` (FiniteSetTheorems), and an element more doubles them.

`DemoInv` ties each token to the worker that has it: a row's lock belongs to the one worker that is
between its UPDATE and the commit (`RowsAreLocked`), so neither an operator's request nor another worker
changes the count under it, and `remaining[m] <= owed[m]` survives lost commits, which give the token
back. For `FewFailuresAreAbsorbed` the set `Hits` has one pair of job and attempt for every armed failure;
with what is still owed they are at most `everArmed`, and a failed job in `onlyArmed` brings
`Smaller(2, MaxAttempts)` of them, for `MayRetry` grants even an invalid response one more attempt.

`RequestInv` says that until a request commits, its row is absent to everybody else, and that nobody ever
works on a row that was never committed as pending (`NeverWorkedOn`): the 503 is answered only on such a
path, although its messages may be out. `RequestRowInv` joins it with the workers' `RowInv`: a request
inserts a row only where there is none, and no worker was engaged with it or counted an attempt before
(`InsertedFresh`), so rows committed by requests are as consistent, and as final, as those of the workers
alone. (The ingestor's are not final: `mark_enqueue_failed`, section 5.) `ClaimedInv` adds to the lease
the same argument about the message: its receive hides it for longer than the worker is busy, so it has
one holder (`Held`), and a holder that is about to delete found the job ended. `MaxBusy <
QueueVisibility` is strict because a message is visible again at the very end of its timeout, while a
claim lasts until after it. `IngestInv` ties each job to the record it was inserted with: a replica holds
the content that it listed, the unique constraint keeps records apart, and both rows come in one
transaction.

`MigrationInv` adds to the types and `SchemaIsWhole` that whoever is between taking and releasing the
lock holds it and that nobody commits without it (`UnderLock`): so what its holder read stays true, and
no revision is applied on top of the one it creates; and that a pod that serves, or releases the lock
after its upgrade, has left the newest schema behind (`Migrated`), and the revisions never go back.
`PodInv` bounds the age of the file by the limits of the steps behind the one the process is at
(`HeartbeatInv`): the touch comes first in a pass, every step has a limit, and their sum is what
`PassFits` compares with the probes. It is a premise, not a fact about the deployment: it holds for
calls that SQS answers in 20 to 30 s, and not if a call takes all that the client allows it (section 5).
`StopInv` says that no message was handled since SIGTERM while the poll of that moment is under way,
which is why there is at most one (`OneMoreAtMost`); that needs no premise. In
`ReviewProofs` the jobs only go onwards (`Onwards`), so each part of the overview, counted earlier, is
a subset of what the whole counts later; `WalkInv` says which rows lie at which offset: a page after
`offset` rows covers what the walk has not seen, as rows above it can only become more; the cardinality
lemmas come from FiniteSetTheorems, the oldest job from the well-foundedness of `<`.

*Only model-checked:* the liveness properties, as fairness and ENABLED are out of this prover's reach.
Every invariant and every safety property that a passing run checks is stated by a theorem. No theorem
needs induction over data: no definition is recursive. FiniteSetTheorems is the library's: its facts are
cited, not proved again here. Review holds for jobs that move as ScoringPromise allows; that the workers
do is `PromiseIsKept`, hence under its premise.

## 5. Where code and documentation disagree

PROJECT.json quotes the lines of `submission_race`, which has a run (section 3). Others met while
modelling, each seen by TLC with the changes of a configuration or of a property that are named, or in
the definition named:

* `worker.py:194` - a message is left to be redelivered "once the database is back", but every receive
  counts: an outage of five receives strands the job in the dead-letter queue: `NotStranded` with
  FaultKinds {"database"} and MaxFaults 5 in `recovery.cfg`. The same happens with an unexpected
  exception that repeats at every delivery (`worker.py:198`).
* `ingestor.py:13` - one job per object content, while an object that is replaced between the check and
  the read is recorded under the etag it no longer has, and becomes a second job under its own:
  `OneJobPerObject` with MayReplace TRUE in `ingest.cfg` (`models.py:156`: "so polling cannot create
  duplicate jobs").
* `ingestor.py:258` - a send that raised although the message arrived marks a job failed that a worker
  may complete or has completed, and `mark_enqueue_failed` does not ask: `OutcomeIsFinal`
  (architecture-local.md:56) in MCIngestor with a worker, one replica, job and message, Keys {1},
  Contents {good}, MaxUploads 1, Visibility, MaxBusy 1, MaxReceive 3, MaxAttempts 2 and no fault.
* `db.py:121` - "Block until migrations have been applied", but only the first table is looked for: on
  an upgrade a loop runs before the tables it needs are there (`HasItsTables` without its premise
  `installed = 0`; architecture-local.md:106 says that both "wait for the schema version"). It recovers
  by its own error handling.
* `worker.yaml:28`, `worker.py:145` - "finishes the message in flight and stops receiving", "Stop after
  the current message": a poll in flight at SIGTERM may bring one more (`CallAnswers`), which is handled.
* `worker.yaml:46` - the budget of the probe covers one provider call with its timeout, not an
  SQS call with boto3's retries at 35 + 5 s each (`queue.py:85`). With CallLimit and ReceiveLimit of 12
  in `pod.cfg`, `PassFits` is false and `OnlyStuckIsStopped` is violated: a pod that works is restarted.
  Such a poll, or a message in hand, may also outlast the grace; the message is redelivered.
* `db.py:98` - "a waiting pod rather than a crash loop": `wait_for_database` gives up after 180 s, the
  startup probe restarts the container after 150 s (`StartupProbeFails`). `worker.py:474` - SIGTERM
  before the handlers are installed does nothing to process 1: the pod sits out its grace (`Terminate`).
* `queue.py:114` - "so the next call re-resolves it"; a call that has tested the cache and not returned
  it when another thread forgets it gets None, and fails (`ReturnUrl`).
* `repository.py:278` - the count is taken before the page: a row inserted in between pushes the oldest
  match behind the last page (`WalkIsComplete` without `raced`); a filter by a status that jobs leave
  skips rows that move up (without `Growing`).
* `worker.py:308` - a worker that lost its claim deletes the message even when the row is pending
  again: `DeletedOnlyWhenFinished` with MaxBusy 3 in `prompt.cfg`. The same constants show scoring twice
  without a crash (`BilledAgainOnlyAfterFault`; DECISIONS.md:121 names the crash as the one window)
  and `jobs_failed_total` counting a completed job (`CountedOnce`; `worker.py:397` ignores fail_job's
  answer).
* `repository.py:123` - a crash costs two receives, since the message is back before the claim is
  over; two crashes strand a job: `NotStranded` with two faults in `recovery.cfg`.
* `storage.py:69` - the listing ends at 1000 keys and handled objects stay in the bucket: those beyond
  are never handled (`EveryObjectHandled` with Present in the place of Reached).
* `ingestor.py:227` - an object PostgreSQL cannot store aborts every pass at the same place, although
  test_ingestor.py:221 says "one bad object does not stop the others", of one that is not JSON:
  `EveryObjectHandled` without Obstructed.
* `worker.py:117` - `decide_retry` compares the job's attempt number with 2, so the first invalid
  response of a job is final when it comes on the second or a later attempt; `worker.py:108` and
  DECISIONS.md:107 give it one more chance (`MayRetry` with attempt 2).
* `api/demo.py:49` - "Make the next `count` scoring calls fail in the given way": a mode earlier in the
  order of `consume` goes first when both are armed (`After`).
* `worker.py:91` - the documented wait is `min(max, base * 2^attempt)` plus jitter (`config.py:48`);
  the code draws from the upper half of `min(max, base * 2^(attempt - 1))`.
* `api/deps.py:21` - the commit follows the answer, so an id can be polled before its row exists.

## 6. Not modelled

* Data no property depends on: the message text, scores, token counts, prices, timestamps nobody
  compares (`mark_enqueued` sets one), logging, rendering.
* The scoring contract (`contract.py`, `pricing.py`, `prompt.py`): functions without state. Their range
  checks and bands are comparisons, and each property one could state of them repeats one. Decimal
  rounding of a cost and the length of a prompt are of no consequence to any other part.
* `schemas.py`: the limits are declarations. What matters to the flow, whether an object is valid, is
  `Kind` in Ingestor.
* `config.py` and `factories.py` hold no state: the settings are CONSTANTS; what they must satisfy is in
  the ASSUMEs and in the premises `MaxBusy <= Visibility`, `PassFits`.
* Request middleware, histograms and logs: output only. The counters of ended jobs are in Worker.
* The transcript parser (`transcript.ts`) is text processing; the other pages render what they fetch.
* Terraform beyond the queue, Helm beyond the worker's probes, CI and scripts: they deploy.
* `get_job` returning None after a claim (`worker.py:268`) cannot happen: no statement deletes rows. A
  worker stopped by SIGTERM between messages leaves nothing that a crash at "idle" does not.
* The ingestor's own heartbeat: the same loop with shorter calls, a single thread and the same file; it
  would repeat WorkerPod with fewer steps.

## 7. State of the plan

All modules of the plan are there: the job path (ConversationStore, ScoringQueue, RetryPolicy, Worker,
Submission, Ingestor, RetryChain), what surrounds it (DemoFailures, Migration, WorkerPod, Review) and
the abstract machine with its refinement. All safety properties are proved. What is left to prove is
smaller: that the submission path and the ingestor inherit the remaining theorems of the workers, with
what a message of a row that is not committed, or never will be, changes in them; and `NobodyIsStranded` for a
job with a duplicate in the queue, where a receive of either message may fail on the other's claim.

Runs are few by intent: one for each question, and a definition joins an existing run where one
instance can answer both.
