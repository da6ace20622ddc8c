------------------------------- MODULE Review -------------------------------
(***************************************************************************)
(* What the reads of the API show while jobs are created and scored: the   *)
(* queries at the end of backend/app/repository.py, which run one          *)
(* statement after the other under READ COMMITTED, each on the rows        *)
(* committed by then, and those who ask for them: the overview page        *)
(* (api/stats.py), a reviewer who pages through the conversations          *)
(* (frontend Conversations.tsx), a page that polls the job it submitted    *)
(* (Submit.tsx) and a Prometheus scrape (api/observability.py).            *)
(*                                                                         *)
(* The jobs move as ScoringPromise allows.  They are numbered as they are  *)
(* created (created_at); they become visible in any order.  One reader at  *)
(* a time, since none of them changes a job.                               *)
(***************************************************************************)
EXTENDS ScoringPromise, FiniteSets

CONSTANTS ApiJobs,   \* the others come from the ingestor
          PageSize,
          Filters,   \* the sets of conditions the reviewer may filter by
          Readers    \* which of "stats", "walk", "poll", "scrape"

JobStatus == {"pending", "processing", "completed", "failed"}
Terminal == {"completed", "failed"}
Conditions == JobStatus \cup {"api", "s3", "scored"}

ASSUME ReviewAssumption ==
    /\ IsFiniteSet(Jobs) /\ Jobs = 1 .. Cardinality(Jobs)
    /\ ApiJobs \subseteq Jobs
    /\ PageSize \in Nat \ {0}
    /\ Filters \subseteq SUBSET Conditions

VARIABLES inserted,   \* how many jobs were created: the clock of created_at
          stored,     \* those whose transaction was committed
          unsent,     \* those of the ingestor that are still being published
          scored,     \* those with a sentiment, a risk score and a rationale
          reader,
          stats, walk, poll, scrape   \* one record for each reader

jobVars == <<promiseVars, inserted, stored, unsent, scored>>
readVars == <<stats, walk, poll, scrape>>
reviewVars == <<jobVars, reader, readVars>>

\* Mutant: a job that a worker holds, or has lost, does not count as backlog.
UnfinishedPending == {"pending"}
Unfinished == {"pending", "processing"}

NoCounts == [s \in JobStatus |-> 0]
NoStats == [at |-> 1, by_status |-> NoCounts, by_source |-> 0, by_sentiment |-> 0,
            total_jobs |-> 0]
NoWalk == [at |-> "count", filter |-> {}, offset |-> 0, total |-> 0, seen |-> {},
           before |-> {}, raced |-> FALSE]
NoPoll == [job |-> 0, answer |-> "none", shown |-> "none", error |-> FALSE]
NoScrape == [at |-> "counts", jobs_by_status |-> NoCounts, now |-> 0, age |-> 0,
             before |-> {}, missing |-> {}]

ReviewTypeOK ==
    /\ state \in [Jobs -> JobStatus] /\ owner \in [Jobs -> Workers \cup {Nobody}]
    /\ inserted \in 0 .. Cardinality(Jobs)
    /\ unsent \subseteq stored \ ApiJobs /\ stored \subseteq 1 .. inserted
    /\ scored \subseteq stored
    /\ reader \in Readers
    /\ stats \in [at : 1 .. 5, by_status : [JobStatus -> Nat], by_source : Nat,
                  by_sentiment : Nat, total_jobs : Nat]
    /\ walk.at \in {"count", "page", "shown"} /\ walk.filter \in Filters \cup {{}}
    /\ {walk.offset, walk.total} \subseteq Nat
    /\ walk.seen \cup walk.before \subseteq stored
    /\ poll \in [job : {0} \cup ApiJobs, answer : JobStatus \cup {"none", "404"},
                 shown : JobStatus \cup {"none"}, error : BOOLEAN]
    /\ scrape.at \in {"counts", "begin", "oldest", "done"} /\ scrape.before \subseteq stored
    /\ scrape.jobs_by_status \in [JobStatus -> Nat] /\ scrape.missing \subseteq {"jobs", "age"}
    /\ {scrape.now, scrape.age} \subseteq Nat

ReviewInit ==
    /\ Init
    /\ inserted = 0 /\ stored = {} /\ unsent = {} /\ scored = {}
    /\ reader \in Readers
    /\ stats = NoStats /\ poll = NoPoll /\ scrape = NoScrape
    /\ \E F \in IF reader = "walk" THEN Filters ELSE {{}} :
          walk = [NoWalk EXCEPT !.filter = F]

------------------------------------------------------------------------------
(* The jobs.                                                               *)

create_job ==
    /\ inserted + 1 \in Jobs
    /\ inserted' = inserted + 1
    /\ UNCHANGED <<promiseVars, stored, unsent, scored, reader, readVars>>

Uncommitted == (1 .. inserted) \ stored

\* The row is visible: accepted by the API, or created by the ingestor, which
\* publishes afterwards.
Commit(j) ==
    /\ stored' = stored \cup {j}
    /\ unsent' = IF j \in ApiJobs THEN unsent ELSE unsent \cup {j}
    /\ UNCHANGED <<promiseVars, inserted, scored, reader, readVars>>

\* The API could not send: the row is failed when it first appears (503).
CommitRefused(j) ==
    /\ j \in ApiJobs /\ j # poll.job
    /\ stored' = stored \cup {j}
    /\ state' = [state EXCEPT ![j] = "failed"]
    /\ UNCHANGED <<owner, inserted, unsent, scored, reader, readVars>>

Sent(j) ==
    /\ j \in unsent /\ unsent' = unsent \ {j}
    /\ UNCHANGED <<promiseVars, inserted, stored, scored, reader, readVars>>

\* Mutant: the API too commits the job before it sends the message.
BeingSentAny == stored
BeingSent == unsent

\* The ingestor's send raised, although a message may have arrived: no condition on
\* the status, and a score stays where it is.
mark_enqueue_failed(j) ==
    /\ j \in BeingSent
    /\ unsent' = unsent \ {j}
    /\ state' = [state EXCEPT ![j] = "failed"]
    /\ UNCHANGED <<owner, inserted, stored, scored, reader, readVars>>

\* Workers, as promised.
Work(j) ==
    /\ j \in stored
    /\ \/ \E w \in Workers : Take(j, w) /\ UNCHANGED scored
       \/ Record(j, "completed") /\ scored' = scored \cup {j}
       \/ \E outcome \in {"failed", "pending"} : Record(j, outcome) /\ UNCHANGED scored
       \/ Abandon(j) /\ UNCHANGED scored
    /\ UNCHANGED <<inserted, stored, unsent, reader, readVars>>

JobsMove ==
    \/ create_job
    \/ \E j \in Uncommitted : Commit(j) \/ CommitRefused(j)
    \/ \E j \in stored : Sent(j) \/ mark_enqueue_failed(j) \/ Work(j)

------------------------------------------------------------------------------
(* GET /stats.                                                             *)

count_by_status ==
    [s \in JobStatus |-> Cardinality({j \in stored : state[j] = s})]

\* Mutant: the totals first.
StatementsTotalsFirst == <<"totals", "by_status", "by_source", "by_sentiment">>
Statements == <<"by_status", "by_source", "by_sentiment", "totals">>

Answered ==
    LET Result(statement, result, last) == IF Statements[stats.at] = statement THEN result ELSE last
    IN [at |-> stats.at + 1,
        by_status |-> Result("by_status", count_by_status, stats.by_status),
        by_source |-> Result("by_source", Cardinality(stored), stats.by_source),
        by_sentiment |-> Result("by_sentiment", Cardinality(scored), stats.by_sentiment),
        total_jobs |-> Result("totals", Cardinality(stored), stats.total_jobs)]

get_stats ==
    /\ reader = "stats"
    /\ stats' = IF stats.at = 5 THEN NoStats ELSE Answered
    /\ UNCHANGED <<jobVars, reader, walk, poll, scrape>>

------------------------------------------------------------------------------
(* GET /conversations, as the reviewer asks for one page after the other.  *)

Holds(condition, j) ==
    CASE condition \in JobStatus -> state[j] = condition
      [] condition = "api" -> j \in ApiJobs
      [] condition = "s3" -> j \notin ApiJobs
      [] condition = "scored" -> j \in scored     \* a sentiment, a minimal risk

Matches == {j \in stored : \A condition \in walk.filter : Holds(condition, j)}

\* Mutant: scored conversations first.
ScoredFirst(k, j) ==
    IF (k \in scored) = (j \in scored) THEN k > j ELSE k \in scored
NewestFirst(k, j) == k > j

Position(j) == Cardinality({k \in Matches : NewestFirst(k, j)})
Page ==
    {j \in Matches : walk.offset <= Position(j) /\ Position(j) < walk.offset + PageSize}

\* A click on "Next" opens the page's query under another key.
CountRows ==
    /\ reader = "walk" /\ walk.at = "count"
    /\ walk' = [walk EXCEPT !.at = "page", !.total = Cardinality(Matches),
                            !.before = IF walk.seen = {} /\ walk.offset = 0
                                       THEN Matches ELSE @]
    /\ UNCHANGED <<jobVars, reader, stats, poll, scrape>>

ReadPage ==
    /\ reader = "walk" /\ walk.at = "page"
    /\ walk' = [walk EXCEPT !.at = "shown", !.seen = @ \cup Page,
                            !.raced = Cardinality(Matches) > walk.total]
    /\ UNCHANGED <<jobVars, reader, stats, poll, scrape>>

list_conversations == CountRows \/ ReadPage

HasNext == walk.offset + PageSize < walk.total
NextPage ==
    /\ reader = "walk" /\ walk.at = "shown" /\ HasNext
    /\ walk' = [walk EXCEPT !.at = "count", !.offset = @ + PageSize]
    /\ UNCHANGED <<jobVars, reader, stats, poll, scrape>>

\* The page is fetched again every five seconds.
Refetch ==
    /\ reader = "walk" /\ walk.at = "shown"
    /\ walk' = [walk EXCEPT !.at = "count"]
    /\ UNCHANGED <<jobVars, reader, stats, poll, scrape>>

------------------------------------------------------------------------------
(* GET /jobs/{job_id}, as the page polls it after a submission.            *)

\* The 202 is on its way before get_db commits.
Accepted(j) ==
    /\ reader = "poll" /\ poll.job = 0 /\ j \in ApiJobs
    /\ poll' = [poll EXCEPT !.job = j]
    /\ UNCHANGED <<jobVars, reader, stats, walk, scrape>>

\* Mutant: an error ends the polling.
RefetchesUnlessError == poll.shown \notin Terminal /\ ~poll.error
Refetches == poll.shown \notin Terminal

get_job_status ==
    /\ reader = "poll" /\ poll.job # 0 /\ poll.answer = "none" /\ Refetches
    /\ poll' = [poll EXCEPT !.answer = IF poll.job \in stored THEN state[poll.job] ELSE "404"]
    /\ UNCHANGED <<jobVars, reader, stats, walk, scrape>>

\* The data of the last answer stays when an error comes.
Show ==
    /\ poll.answer # "none"
    /\ poll' = [poll EXCEPT !.answer = "none", !.error = poll.answer = "404",
                            !.shown = IF poll.answer = "404" THEN @ ELSE poll.answer]
    /\ UNCHANGED <<jobVars, reader, stats, walk, scrape>>

AnswerLost ==
    /\ poll.answer # "none"
    /\ poll' = [poll EXCEPT !.answer = "none", !.error = TRUE]
    /\ UNCHANGED <<jobVars, reader, stats, walk, scrape>>

------------------------------------------------------------------------------
(* GET /metrics: each callback has a session of its own, and one that      *)
(* raises yields nothing.                                                  *)

Backlog == {j \in stored : state[j] \in Unfinished}

jobs_by_status ==
    /\ reader = "scrape" /\ scrape.at = "counts"
    /\ \/ scrape' = [scrape EXCEPT !.at = "begin", !.before = Backlog,
                                   !.jobs_by_status = count_by_status]
       \/ scrape' = [scrape EXCEPT !.at = "begin", !.before = Backlog,
                                   !.missing = {"jobs"}]
    /\ UNCHANGED <<jobVars, reader, stats, walk, poll>>

\* now() is the start of the transaction.
BeginAge ==
    /\ reader = "scrape" /\ scrape.at = "begin"
    /\ scrape' = [scrape EXCEPT !.at = "oldest", !.now = inserted]
    /\ UNCHANGED <<jobVars, reader, stats, walk, poll>>

\* Mutant: the difference as it is.
AgeOfRaw(oldest) == scrape.now - oldest
AgeOf(oldest) == IF oldest <= scrape.now THEN scrape.now - oldest ELSE 0

oldest_pending_age_seconds ==
    IF Backlog = {} THEN 0
    ELSE AgeOf(CHOOSE j \in Backlog : \A k \in Backlog : j <= k)

OldestPendingAge ==
    /\ reader = "scrape" /\ scrape.at = "oldest"
    /\ \/ scrape' = [scrape EXCEPT !.at = "done", !.age = oldest_pending_age_seconds]
       \/ scrape' = [scrape EXCEPT !.at = "done", !.missing = @ \cup {"age"}]
    /\ UNCHANGED <<jobVars, reader, stats, walk, poll>>

ScrapeAgain ==
    /\ reader = "scrape" /\ scrape.at = "done" /\ scrape' = NoScrape
    /\ UNCHANGED <<jobVars, reader, stats, walk, poll>>

collect == jobs_by_status \/ BeginAge \/ OldestPendingAge

------------------------------------------------------------------------------
ReviewNext ==
    \/ JobsMove
    \/ get_stats
    \/ list_conversations \/ NextPage \/ Refetch
    \/ \E j \in Uncommitted : Accepted(j)
    \/ get_job_status \/ Show \/ AnswerLost
    \/ collect \/ ScrapeAgain

ReviewSpec == ReviewInit /\ [][ReviewNext]_reviewVars

\* The page asks again every second, and not every answer is lost.
ReviewFairSpec == ReviewSpec /\ WF_reviewVars(get_job_status) /\ SF_reviewVars(Show)

------------------------------------------------------------------------------
(* Properties.                                                             *)

\* However many jobs are created and scored between the four statements, no part of
\* the overview exceeds the whole it is a part of, and every completed job it counts
\* is in the sentiment split.  (repository.py, stats; schemas.py, StatusCounts.total)
StatsAddUp ==
    LET counts == stats.by_status IN
    stats.at = 5 =>
        /\ counts["pending"] + counts["processing"] + counts["completed"] + counts["failed"]
              <= stats.by_source
        /\ stats.by_source <= stats.total_jobs
        /\ counts["completed"] <= stats.by_sentiment
        /\ stats.by_sentiment <= stats.total_jobs

\* The conditions a job meets for ever once it meets them.
Growing(F) == F \cap Unfinished = {} /\ ("completed" \in F => "api" \in F)

\* A reviewer who pages to the end has seen every conversation that matched when they
\* began, whatever is created and scored meanwhile, unless a row came in between the
\* count and the last page, or the filter is one that jobs leave.
\* (repository.py, list_conversations; Conversations.tsx)
WalkIsComplete ==
    walk.at = "shown" /\ ~HasNext /\ ~walk.raced /\ Growing(walk.filter)
        => walk.before \subseteq walk.seen

\* The outcome the page stopped polling at is the job's for good.  (Submit.tsx)
ShownIsFinal == poll.shown \in Terminal => poll.shown = state[poll.job]

\* The outcome of an accepted job comes on the page and stays, although the first
\* polls may find no row and answers may be lost.  (Submit.tsx, deps.py)
OutcomeIsShown ==
    \A j \in ApiJobs :
        poll.job = j /\ j \in stored /\ state[j] \in Terminal ~> [](poll.shown = state[j])

\* A job that waited all through the scrape is in the gauges of the backlog, whoever
\* holds it: in the counts, and no older than the reported age.  (observability.py)
BacklogIsSeen ==
    LET waited == {j \in scrape.before : state[j] \in {"pending", "processing"}}
        counts == scrape.jobs_by_status
    IN scrape.at = "done" =>
        /\ "jobs" \in scrape.missing
              \/ Cardinality(waited) <= counts["pending"] + counts["processing"]
        /\ "age" \in scrape.missing
              \/ \A j \in waited : scrape.now - j <= scrape.age
==============================================================================
