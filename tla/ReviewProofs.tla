---------------------------- MODULE ReviewProofs ----------------------------
(***************************************************************************)
(* What the reads show is right for any number of jobs, pages of any size  *)
(* and any filters.  JobInv is what the proofs need of the jobs; JobsStep  *)
(* is what their steps leave alone, and all the readers rely on.           *)
(***************************************************************************)
EXTENDS Review, FiniteSetTheorems, WellFoundedInduction, TLAPS

JobInv ==
    /\ state \in [Jobs -> JobStatus] /\ owner \in [Jobs -> Workers \cup {Nobody}]
    /\ inserted \in 0 .. Cardinality(Jobs)
    /\ stored \subseteq 1 .. inserted
    /\ unsent \subseteq stored \ ApiJobs
    /\ scored \subseteq stored
    /\ \A j \in Jobs : state[j] = "completed" => j \in scored
    /\ \A j \in Jobs \ stored : state[j] = "pending"

\* What every step does to the jobs, and nothing else does to them.
Onwards ==
    /\ inserted <= inserted' /\ stored \subseteq stored' /\ scored \subseteq scored'
    /\ \A j \in Jobs : state'[j] \in Unfinished => state[j] \in Unfinished
    /\ \A j \in Jobs : state[j] = "failed" => state'[j] = "failed"
    /\ \A j \in ApiJobs : state[j] \in Terminal => state'[j] = state[j]

\* The rows are finitely many: every count is one.
LEMMA Finite ==
    ASSUME NEW S, S \subseteq Jobs
    PROVE  IsFiniteSet(S) /\ Cardinality(S) \in Nat
BY FS_Subset, FS_CardinalityType, ReviewAssumption

LEMMA Smaller ==
    ASSUME NEW S, NEW T, S \subseteq T, T \subseteq Jobs
    PROVE  Cardinality(S) <= Cardinality(T)
BY FS_Subset, Finite

\* Disjoint sets are counted one by one.
LEMMA Disjoint ==
    ASSUME NEW S, NEW T, NEW U, S \subseteq Jobs, T \subseteq Jobs,
           S \cap T = {}, U = S \cup T
    PROVE  Cardinality(U) = Cardinality(S) + Cardinality(T)
<1>1. IsFiniteSet(S) /\ IsFiniteSet(T) /\ Cardinality(S) \in Nat /\ Cardinality(T) \in Nat
  BY Finite
<1>2. Cardinality(S \cup T) = Cardinality(S) + Cardinality(T) - Cardinality(S \cap T)
  BY <1>1, FS_Union
<1>3. Cardinality(S \cap T) = 0
  BY FS_EmptySet
<1> QED
  BY <1>1, <1>2, <1>3

\* Created jobs are jobs.
LEMMA StoredAreJobs == JobInv => stored \subseteq Jobs /\ inserted \in Nat
<1>1. Cardinality(Jobs) \in Nat
  BY Finite
<1> QED
  BY <1>1, ReviewAssumption DEF JobInv

\* Every step of the jobs keeps JobInv and leads onwards.
LEMMA JobsStep ==
    ASSUME JobInv, JobsMove
    PROVE  JobInv' /\ Onwards /\ UNCHANGED <<reader, readVars>>
<1>1. stored \subseteq Jobs /\ inserted \in Nat /\ Cardinality(Jobs) \in Nat
  BY StoredAreJobs, Finite
<1> USE <1>1 DEF JobInv, Onwards, JobStatus, Terminal, Unfinished
<1>2. CASE create_job
  <2>1. inserted + 1 \in 0 .. Cardinality(Jobs)
    BY <1>2, ReviewAssumption DEF create_job
  <2> QED
    BY <1>2, <2>1 DEF create_job, promiseVars, readVars
<1>3. ASSUME NEW j \in Uncommitted, Commit(j)  PROVE JobInv' /\ Onwards /\ UNCHANGED <<reader, readVars>>
  BY <1>3 DEF Uncommitted, Commit, promiseVars, readVars
<1>4. ASSUME NEW j \in Uncommitted, CommitRefused(j)
      PROVE JobInv' /\ Onwards /\ UNCHANGED <<reader, readVars>>
  <2>1. j \in Jobs /\ j \notin stored /\ j \in 1 .. inserted /\ state[j] = "pending"
    BY <1>4, ReviewAssumption DEF Uncommitted, CommitRefused
  <2> QED
    BY <1>4, <2>1 DEF CommitRefused, readVars
<1>5. ASSUME NEW j \in stored, Sent(j)  PROVE JobInv' /\ Onwards /\ UNCHANGED <<reader, readVars>>
  BY <1>5 DEF Sent, promiseVars, readVars
<1>6. ASSUME NEW j \in stored, mark_enqueue_failed(j)
      PROVE JobInv' /\ Onwards /\ UNCHANGED <<reader, readVars>>
  BY <1>6 DEF mark_enqueue_failed, BeingSent, readVars
<1>7. ASSUME NEW j \in stored, Work(j)  PROVE JobInv' /\ Onwards /\ UNCHANGED <<reader, readVars>>
  <2>1. CASE \E w \in Workers : Take(j, w) /\ UNCHANGED scored
    BY <1>7, <2>1 DEF Work, Take, readVars
  <2>2. ASSUME NEW outcome \in {"completed", "failed", "pending"}, Record(j, outcome),
               scored' = IF outcome = "completed" THEN scored \cup {j} ELSE scored
        PROVE  JobInv' /\ Onwards /\ UNCHANGED <<reader, readVars>>
    BY <1>7, <2>2 DEF Work, Record, readVars
  <2>3. CASE Abandon(j) /\ UNCHANGED scored
    BY <1>7, <2>3 DEF Work, Abandon, readVars
  <2> QED
    BY <1>7, <2>1, <2>2, <2>3 DEF Work
<1> QED
  BY <1>2, <1>3, <1>4, <1>5, <1>6, <1>7 DEF JobsMove

LEMMA ReaderStep ==
    ASSUME JobInv, [ReviewNext]_reviewVars
    PROVE  /\ JobInv' /\ Onwards /\ UNCHANGED reader
           /\ get_stats \/ UNCHANGED stats
           /\ CountRows \/ ReadPage \/ NextPage \/ Refetch \/ UNCHANGED walk
           /\ (\E j \in Jobs : Accepted(j)) \/ get_job_status \/ Show \/ AnswerLost
                 \/ UNCHANGED poll
           /\ jobs_by_status \/ BeginAge \/ OldestPendingAge \/ ScrapeAgain \/ UNCHANGED scrape
<1>1. CASE JobsMove
  BY <1>1, JobsStep DEF readVars
<1>2. ASSUME UNCHANGED jobVars  PROVE JobInv' /\ Onwards
  <2>1. inserted \in Nat
    BY StoredAreJobs
  <2> QED
    BY <1>2, <2>1 DEF JobInv, Onwards, jobVars, promiseVars
<1>3. Uncommitted \subseteq Jobs
  <2>1. Cardinality(Jobs) \in Nat
    BY Finite
  <2> QED
    BY <2>1, ReviewAssumption DEF Uncommitted, JobInv
<1>4. CASE get_stats
  BY <1>2, <1>4 DEF get_stats
<1>5. CASE CountRows \/ ReadPage \/ NextPage \/ Refetch
  BY <1>2, <1>5 DEF CountRows, ReadPage, NextPage, Refetch
<1>6. CASE (\E j \in Uncommitted : Accepted(j)) \/ get_job_status \/ Show \/ AnswerLost
  BY <1>2, <1>3, <1>6 DEF Accepted, get_job_status, Show, AnswerLost
<1>7. CASE jobs_by_status \/ BeginAge \/ OldestPendingAge \/ ScrapeAgain
  BY <1>2, <1>7 DEF jobs_by_status, BeginAge, OldestPendingAge, ScrapeAgain
<1>8. CASE UNCHANGED reviewVars
  BY <1>2, <1>8 DEF reviewVars, readVars
<1> QED
  BY <1>1, <1>4, <1>5, <1>6, <1>7, <1>8 DEF ReviewNext, list_conversations, collect

------------------------------------------------------------------------------
(* The overview.                                                           *)

Total(counts) ==
    counts["pending"] + counts["processing"] + counts["completed"] + counts["failed"]

StatsInv ==
    /\ stats \in [at : 1 .. 5, by_status : [JobStatus -> Nat], by_source : Nat,
                  by_sentiment : Nat, total_jobs : Nat]
    /\ stats.at >= 2 => /\ Total(stats.by_status) <= Cardinality(stored)
                        /\ stats.by_status["completed"] <= Cardinality(scored)
    /\ stats.at >= 3 => /\ Total(stats.by_status) <= stats.by_source
                        /\ stats.by_source <= Cardinality(stored)
    /\ stats.at >= 4 => /\ stats.by_status["completed"] <= stats.by_sentiment
                        /\ stats.by_sentiment <= Cardinality(stored)
    /\ stats.at = 5 => /\ stats.by_source <= stats.total_jobs
                       /\ stats.by_sentiment <= stats.total_jobs

\* Grouped by status every row is counted once.
LEMMA CountsAddUp ==
    ASSUME JobInv
    PROVE  /\ count_by_status \in [JobStatus -> Nat]
           /\ Total(count_by_status) = Cardinality(stored)
           /\ count_by_status["pending"] + count_by_status["processing"] = Cardinality(Backlog)
           /\ count_by_status["completed"] <= Cardinality(scored)
<1> DEFINE In(s) == {j \in stored : state[j] = s}
<1>1. stored \subseteq Jobs
  BY StoredAreJobs
<1>2. \A s \in JobStatus : IsFiniteSet(In(s)) /\ Cardinality(In(s)) \in Nat
  BY <1>1, Finite
<1>3. \A s \in JobStatus : count_by_status[s] = Cardinality(In(s))
  BY DEF count_by_status
<1> DEFINE Half == In("completed") \cup In("failed")
<1>4. /\ Half = In("completed") \cup In("failed")
      /\ Backlog = In("pending") \cup In("processing")
      /\ In("pending") \cap In("processing") = {} /\ In("completed") \cap In("failed") = {}
      /\ Backlog \cup Half = stored /\ Backlog \cap Half = {}
  BY <1>1 DEF Backlog, Unfinished, JobInv, JobStatus
<1>5. /\ \A s \in JobStatus : In(s) \subseteq Jobs
      /\ Backlog \subseteq Jobs /\ Half \subseteq Jobs
      /\ Cardinality(Backlog) \in Nat /\ Cardinality(Half) \in Nat
      /\ {"pending", "processing", "completed", "failed"} \subseteq JobStatus
  <2>1. Backlog \subseteq Jobs /\ Half \subseteq Jobs
    BY <1>1, <1>4
  <2> QED
    BY <1>1, <2>1, Finite DEF JobStatus
<1>6. Cardinality(In("completed")) <= Cardinality(scored)
  <2>1. In("completed") \subseteq scored /\ scored \subseteq Jobs
    BY <1>1 DEF JobInv
  <2> QED
    BY <2>1, Smaller
<1> HIDE DEF In, Half
<1>7. Cardinality(Backlog) = Cardinality(In("pending")) + Cardinality(In("processing"))
  BY <1>4, <1>5, Disjoint
<1>8. Cardinality(Half) = Cardinality(In("completed")) + Cardinality(In("failed"))
  BY <1>4, <1>5, Disjoint
<1>9. Cardinality(stored) = Cardinality(Backlog) + Cardinality(Half)
  BY <1>4, <1>5, Disjoint
<1>10. count_by_status \in [JobStatus -> Nat]
  BY <1>2, <1>3 DEF count_by_status
<1> QED
  BY <1>2, <1>3, <1>5, <1>7, <1>6, <1>8, <1>9, <1>10 DEF Total, JobStatus

LEMMA StatsStep ==
    ASSUME JobInv, JobInv', Onwards, StatsInv, get_stats \/ UNCHANGED stats
    PROVE  StatsInv'
<1>1. /\ Cardinality(stored) \in Nat /\ Cardinality(stored') \in Nat
      /\ Cardinality(scored) \in Nat /\ Cardinality(scored') \in Nat
      /\ Cardinality(stored) <= Cardinality(stored')
      /\ Cardinality(scored) <= Cardinality(scored')
      /\ Cardinality(scored) <= Cardinality(stored)
  <2>1. stored \subseteq Jobs /\ stored' \subseteq Jobs
    BY StoredAreJobs, ReviewAssumption, Finite DEF JobInv
  <2>2. scored \subseteq stored /\ scored' \subseteq stored'
    BY DEF JobInv
  <2>3. stored \subseteq stored' /\ scored \subseteq scored'
    BY DEF Onwards
  <2>4. scored \subseteq Jobs /\ scored' \subseteq Jobs
    BY <2>1, <2>2
  <2> QED
    BY <2>1, <2>2, <2>3, <2>4, Finite, Smaller
<1>2. CASE UNCHANGED stats
  <2>1. Total(stats.by_status) \in Nat /\ stats.by_status["completed"] \in Nat
    BY DEF StatsInv, Total, JobStatus
  <2> HIDE DEF Total
  <2> QED
    BY <1>1, <1>2, <2>1 DEF StatsInv
<1>3. CASE get_stats /\ stats.at = 5
  <2>1. stats' = NoStats
    BY <1>3 DEF get_stats
  <2> QED
    BY <2>1 DEF StatsInv, NoStats, NoCounts
<1>4. CASE get_stats /\ stats.at # 5
  <2>1. stats' = Answered /\ UNCHANGED <<stored, scored>> /\ stats.at \in 1 .. 4
    BY <1>4 DEF get_stats, jobVars, StatsInv
  <2>2. /\ count_by_status \in [JobStatus -> Nat]
        /\ Total(count_by_status) = Cardinality(stored)
        /\ count_by_status["completed"] <= Cardinality(scored)
    BY CountsAddUp
  <2>3. Total(stats.by_status) \in Nat /\ stats.by_status["completed"] \in Nat
    BY DEF StatsInv, Total, JobStatus
  <2> HIDE DEF Total
  <2>4. CASE stats.at = 1
    <3>1. stats' = [at |-> 2, by_status |-> count_by_status, by_source |-> stats.by_source,
                     by_sentiment |-> stats.by_sentiment, total_jobs |-> stats.total_jobs]
      BY <2>1, <2>4 DEF Answered, Statements, StatsInv
    <3> QED
      BY <1>1, <2>1, <2>2, <2>4, <3>1 DEF StatsInv
  <2>5. CASE stats.at = 2
    <3>1. stats' = [at |-> 3, by_status |-> stats.by_status, by_source |-> Cardinality(stored),
                     by_sentiment |-> stats.by_sentiment, total_jobs |-> stats.total_jobs]
      BY <2>1, <2>5 DEF Answered, Statements, StatsInv
    <3> QED
      BY <1>1, <2>1, <2>5, <3>1 DEF StatsInv
  <2>6. CASE stats.at = 3
    <3>1. stats' = [at |-> 4, by_status |-> stats.by_status, by_source |-> stats.by_source,
                     by_sentiment |-> Cardinality(scored), total_jobs |-> stats.total_jobs]
      BY <2>1, <2>6 DEF Answered, Statements, StatsInv
    <3> QED
      BY <1>1, <2>1, <2>3, <2>6, <3>1 DEF StatsInv
  <2>7. CASE stats.at = 4
    <3>1. stats' = [at |-> 5, by_status |-> stats.by_status, by_source |-> stats.by_source,
                     by_sentiment |-> stats.by_sentiment, total_jobs |-> Cardinality(stored)]
      BY <2>1, <2>7 DEF Answered, Statements, StatsInv
    <3> QED
      BY <1>1, <2>1, <2>3, <2>7, <3>1 DEF StatsInv
  <2> QED
    BY <2>1, <2>4, <2>5, <2>6, <2>7
<1> QED
  BY <1>2, <1>3, <1>4

------------------------------------------------------------------------------
(* The walk: a row that was there is behind the reader or still ahead.     *)

Ahead(j, position) == j \in walk.seen \/ Position(j) >= position

WalkType ==
    [at : {"count", "page", "shown"}, filter : Filters \cup {{}}, offset : Nat, total : Nat,
     seen : SUBSET Jobs, before : SUBSET Jobs, raced : BOOLEAN]

WalkInv ==
    /\ walk \in WalkType
    /\ walk.seen \subseteq stored /\ walk.before \subseteq stored
    /\ Growing(walk.filter) =>
        /\ walk.before \subseteq Matches
        /\ \A j \in walk.before :
              Ahead(j, IF walk.at = "shown" THEN walk.offset + PageSize ELSE walk.offset)
        /\ walk.at = "shown" /\ ~HasNext /\ ~walk.raced => walk.before \subseteq walk.seen

\* Rows enter such a filter and never leave it.
LEMMA MatchesGrow ==
    ASSUME JobInv, JobInv', Onwards, walk \in WalkType, Growing(walk.filter),
           walk'.filter = walk.filter
    PROVE  Matches \subseteq Matches'
<1>1. stored \subseteq Jobs
  BY StoredAreJobs
<1>2. walk.filter \subseteq Conditions
  BY ReviewAssumption DEF WalkType
<1>3. ASSUME NEW j \in stored, NEW condition \in walk.filter, Holds(condition, j),
             condition = "completed" => j \in ApiJobs
      PROVE  Holds(condition, j)'
  <2>1. condition \in (JobStatus \ Unfinished) \cup {"api", "s3", "scored"}
    BY <1>2, <1>3 DEF Growing, Conditions
  <2>2. CASE condition = "completed"
    BY <1>3, <2>2 DEF Holds, Onwards, JobStatus, Terminal
  <2>3. CASE condition = "failed"
    BY <1>1, <1>3, <2>3 DEF Holds, Onwards, JobStatus
  <2>4. CASE condition \in {"api", "s3", "scored"}
    BY <1>3, <2>4 DEF Holds, Onwards, JobStatus
  <2> QED
    BY <2>1, <2>2, <2>3, <2>4 DEF JobStatus, Unfinished
<1>4. ASSUME NEW j \in Matches  PROVE j \in Matches'
  <2>1. j \in stored /\ j \in stored' /\ \A condition \in walk.filter : Holds(condition, j)
    BY <1>4 DEF Matches, Onwards
  <2>2. "completed" \in walk.filter => j \in ApiJobs
    BY <2>1 DEF Growing, Holds, JobStatus
  <2>3. \A condition \in walk.filter : Holds(condition, j)'
    BY <1>3, <2>1, <2>2
  <2> QED
    BY <2>1, <2>3 DEF Matches
<1> QED
  BY <1>4

\* A row that comes in front of others moves them back.
LEMMA PositionsGrow ==
    ASSUME JobInv', Matches \subseteq Matches', NEW j
    PROVE  Position(j) \in Nat /\ Position(j)' \in Nat /\ Position(j) <= Position(j)'
<1>1. stored' \subseteq Jobs
  BY Finite, ReviewAssumption DEF JobInv
<1>2. /\ {k \in Matches : NewestFirst(k, j)} \subseteq {k \in Matches' : NewestFirst(k, j)}
      /\ {k \in Matches' : NewestFirst(k, j)} \subseteq Jobs
  BY <1>1 DEF Matches
<1>3. {k \in Matches : NewestFirst(k, j)} \subseteq Jobs
  BY <1>2
<1> QED
  BY <1>2, <1>3, Finite, Smaller DEF Position, NewestFirst

LEMMA WalkStep ==
    ASSUME JobInv, JobInv', Onwards, WalkInv,
           CountRows \/ ReadPage \/ NextPage \/ Refetch \/ UNCHANGED walk
    PROVE  WalkInv'
<1>1. stored \subseteq Jobs /\ stored \subseteq stored' /\ PageSize \in Nat \ {0}
  BY StoredAreJobs, ReviewAssumption DEF Onwards
<1>2. /\ walk \in WalkType /\ walk.offset \in Nat /\ walk.total \in Nat
      /\ walk.seen \subseteq stored /\ walk.before \subseteq stored
  BY DEF WalkInv, WalkType
<1>3. CASE UNCHANGED walk
  <2>1. ASSUME Growing(walk.filter), NEW j \in walk.before, NEW n \in Nat, Ahead(j, n)
        PROVE  j \in Matches' /\ Ahead(j, n)'
    BY <1>2, <1>3, <2>1, MatchesGrow, PositionsGrow DEF Ahead, WalkInv
  <2> QED
    BY <1>1, <1>2, <1>3, <2>1 DEF WalkInv, Growing, HasNext
<1>4. CASE CountRows \/ ReadPage \/ NextPage \/ Refetch
  <2>1. UNCHANGED <<stored, state, scored>> /\ walk.filter \in Filters \cup {{}}
    BY <1>2, <1>4 DEF CountRows, ReadPage, NextPage, Refetch, jobVars, promiseVars, WalkType
  <2>2. Matches \subseteq Jobs /\ Matches \subseteq stored
    BY <1>1 DEF Matches
  <2>3. Cardinality(Matches) \in Nat
    BY <2>2, Finite
  <2>4. \A j : Position(j) \in Nat
    <3>1. \A j : {k \in Matches : NewestFirst(k, j)} \subseteq Jobs
      BY <2>2
    <3> QED
      BY <3>1, Finite DEF Position
  <2>5. ASSUME walk'.filter = walk.filter
        PROVE  Matches' = Matches /\ \A j : Position(j)' = Position(j)
    BY <2>1, <2>5 DEF Matches, Position, Holds, NewestFirst
  <2>6. CASE CountRows
    <3> DEFINE before == IF walk.seen = {} /\ walk.offset = 0 THEN Matches ELSE walk.before
    <3>1. /\ walk' \in WalkType
          /\ walk'.at = "page" /\ walk'.before = before
          /\ walk'.filter = walk.filter /\ walk'.offset = walk.offset
          /\ walk'.seen = walk.seen
      <4>1. walk.at = "count"
            /\ walk' = [walk EXCEPT !.at = "page", !.total = Cardinality(Matches),
                                    !.before = before]
        BY <2>6 DEF CountRows
      <4>2. before \in SUBSET Jobs
        BY <1>2, <2>2 DEF WalkType
      <4> HIDE DEF before
      <4> QED
        BY <1>2, <2>3, <4>1, <4>2, Zenon DEF WalkType
    <3> QED
      BY <1>1, <1>2, <2>1, <2>2, <2>4, <2>5, <2>6, <3>1 DEF WalkInv, Ahead, CountRows
  <2>7. CASE ReadPage
    <3> DEFINE late == Cardinality(Matches) > walk.total
    <3>1. /\ walk' \in WalkType
          /\ walk'.at = "shown" /\ walk'.seen = walk.seen \cup Page /\ walk'.raced = late
          /\ walk'.filter = walk.filter /\ walk'.offset = walk.offset
          /\ walk'.total = walk.total /\ walk'.before = walk.before
      <4>1. walk' = [walk EXCEPT !.at = "shown", !.seen = walk.seen \cup Page, !.raced = late]
        BY <2>7 DEF ReadPage
      <4>2. late \in BOOLEAN /\ walk.seen \cup Page \in SUBSET Jobs
        BY <1>2, <2>2 DEF Page, WalkType
      <4> HIDE DEF late
      <4> QED
        BY <1>2, <4>1, <4>2, Zenon DEF WalkType
    <3>2. Page \subseteq stored
      BY <2>2 DEF Page
    <3>3. ASSUME Growing(walk.filter), NEW j \in walk.before
          PROVE  /\ j \in Matches /\ (j \in walk.seen \/ Position(j) >= walk.offset)
      BY <2>7, <3>3 DEF WalkInv, Ahead, ReadPage
    <3>4. ASSUME Growing(walk.filter), NEW j \in walk.before
          PROVE  Ahead(j, walk.offset + PageSize)'
      BY <1>1, <1>2, <2>4, <2>5, <3>1, <3>3, <3>4 DEF Ahead, Page
    <3>5. ASSUME Growing(walk.filter), NEW j \in walk.before, ~HasNext, ~late
          PROVE  j \in walk.seen \cup Page
      <4>1. Position(j) < Cardinality(Matches)
        <5>1. {k \in Matches : NewestFirst(k, j)} \subseteq Matches /\ j \in Matches
              /\ ~NewestFirst(j, j)
          <6>1. j \in Matches /\ j \in Int
            BY <2>2, <3>3, <3>5, Finite, ReviewAssumption
          <6> QED
            BY <6>1 DEF NewestFirst
        <5> DEFINE InFront == {k \in Matches : NewestFirst(k, j)}
        <5>2. InFront \in SUBSET Matches /\ InFront # Matches
          BY <5>1
        <5> HIDE DEF InFront
        <5>3. Cardinality(InFront) <= Cardinality(Matches)
              /\ Cardinality(InFront) # Cardinality(Matches)
          BY <2>2, <5>2, Finite, FS_Subset
        <5> QED
          BY <2>3, <2>4, <5>3 DEF Position, InFront
      <4> QED
        BY <1>1, <1>2, <2>3, <2>4, <3>3, <3>5, <4>1 DEF HasNext, Page
    <3> QED
      BY <1>1, <1>2, <2>1, <2>5, <3>1, <3>2, <3>3, <3>4, <3>5 DEF WalkInv, HasNext
  <2>8. CASE NextPage
    <3>1. /\ walk' \in WalkType
          /\ walk'.at = "count" /\ walk'.offset = walk.offset + PageSize
          /\ walk'.filter = walk.filter /\ walk'.seen = walk.seen
          /\ walk'.before = walk.before
      <4>1. walk' = [walk EXCEPT !.at = "count", !.offset = walk.offset + PageSize]
        BY <2>8 DEF NextPage
      <4>2. walk.offset + PageSize \in Nat
        BY <1>1, <1>2
      <4> QED
        BY <1>2, <4>1, <4>2, Zenon DEF WalkType
    <3> QED
      BY <1>1, <1>2, <2>1, <2>5, <2>8, <3>1 DEF WalkInv, Ahead, NextPage
  <2>9. CASE Refetch
    <3>1. /\ walk' \in WalkType
          /\ walk'.at = "count" /\ walk'.offset = walk.offset
          /\ walk'.filter = walk.filter /\ walk'.seen = walk.seen
          /\ walk'.before = walk.before
      BY <1>2, <2>9 DEF Refetch, WalkType
    <3> QED
      BY <1>1, <1>2, <2>1, <2>4, <2>5, <2>9, <3>1 DEF WalkInv, Ahead, Refetch
  <2> QED
    BY <1>4, <2>6, <2>7, <2>8, <2>9
<1> QED
  BY <1>3, <1>4

------------------------------------------------------------------------------
(* The poll: what was answered and what is shown, if final, is the row's.  *)

PollType ==
    [job : {0} \cup ApiJobs, answer : JobStatus \cup {"none", "404"},
     shown : JobStatus \cup {"none"}, error : BOOLEAN]

PollInv ==
    /\ poll \in PollType
    /\ poll.job = 0 => poll.answer = "none" /\ poll.shown = "none"
    /\ poll.answer \in Terminal => poll.answer = state[poll.job]
    /\ poll.shown \in Terminal => poll.shown = state[poll.job]

LEMMA PollStep ==
    ASSUME JobInv, JobInv', Onwards, PollInv,
           (\E j \in Jobs : Accepted(j)) \/ get_job_status \/ Show \/ AnswerLost
              \/ UNCHANGED poll
    PROVE  PollInv'
<1>1. /\ poll.job \in {0} \cup ApiJobs /\ poll.answer \in JobStatus \cup {"none", "404"}
      /\ poll.shown \in JobStatus \cup {"none"} /\ 0 \notin ApiJobs
  BY ReviewAssumption, Finite DEF PollInv, PollType
<1>2. ASSUME NEW s \in Terminal, poll.job # 0, s = state[poll.job]
      PROVE  s = state'[poll.job]
  BY <1>1, <1>2 DEF Onwards
<1>3. CASE UNCHANGED poll
  BY <1>1, <1>2, <1>3 DEF PollInv, Terminal
<1>4. CASE \E j \in Jobs : Accepted(j)
  <2>1. PICK j \in ApiJobs : poll' = [poll EXCEPT !.job = j] /\ poll.job = 0
    BY <1>4 DEF Accepted
  <2>2. /\ poll' \in PollType /\ poll'.job = j /\ poll'.answer = "none" /\ poll'.shown = "none"
    BY <2>1 DEF PollInv, PollType
  <2> QED
    BY <1>1, <2>2 DEF PollInv, Terminal
<1>5. CASE get_job_status
  <2> DEFINE answer == IF poll.job \in stored THEN state[poll.job] ELSE "404"
  <2>1. /\ poll' = [poll EXCEPT !.answer = answer] /\ poll.job # 0 /\ state' = state
        /\ poll.shown \notin Terminal
    BY <1>5 DEF get_job_status, jobVars, promiseVars, Refetches
  <2>2. answer \in JobStatus \cup {"404"}
    BY StoredAreJobs DEF JobInv
  <2>3. answer \in Terminal => answer = state[poll.job]
    BY DEF Terminal
  <2> HIDE DEF answer
  <2>4. /\ poll' \in PollType /\ poll'.job = poll.job /\ poll'.answer = answer
        /\ poll'.shown = poll.shown
    BY <2>1, <2>2 DEF PollInv, PollType
  <2> QED
    BY <2>1, <2>3, <2>4 DEF PollInv
<1>6. CASE Show
  <2> DEFINE shown == IF poll.answer = "404" THEN poll.shown ELSE poll.answer
             wrong == poll.answer = "404"
  <2>1. /\ poll' = [poll EXCEPT !.answer = "none", !.error = wrong, !.shown = shown]
        /\ poll.answer # "none" /\ state' = state
    BY <1>6 DEF Show, jobVars, promiseVars
  <2>2. /\ shown \in JobStatus \cup {"none"} /\ wrong \in BOOLEAN
        /\ shown \in Terminal => shown = state[poll.job]
    BY <1>1, <2>1 DEF PollInv
  <2> HIDE DEF shown, wrong
  <2>3. /\ poll' \in PollType /\ poll'.job = poll.job /\ poll'.answer = "none"
        /\ poll'.shown = shown
    BY <2>1, <2>2, Zenon DEF PollInv, PollType
  <2> QED
    BY <2>1, <2>2, <2>3 DEF PollInv, Terminal
<1>7. CASE AnswerLost
  <2>1. /\ poll' = [poll EXCEPT !.answer = "none", !.error = TRUE] /\ state' = state
    BY <1>7 DEF AnswerLost, jobVars, promiseVars
  <2>2. /\ poll' \in PollType /\ poll'.job = poll.job /\ poll'.answer = "none"
        /\ poll'.shown = poll.shown
    BY <2>1, Zenon DEF PollInv, PollType
  <2> QED
    BY <2>1, <2>2 DEF PollInv, Terminal
<1> QED
  BY <1>3, <1>4, <1>5, <1>6, <1>7

------------------------------------------------------------------------------
(* The scrape.                                                             *)

ScrapeType ==
    [at : {"counts", "begin", "oldest", "done"}, jobs_by_status : [JobStatus -> Nat],
     now : Nat, age : Nat, before : SUBSET Jobs, missing : SUBSET {"jobs", "age"}]

Waited == {j \in scrape.before : state[j] \in Unfinished}

ScrapeInv ==
    /\ scrape \in ScrapeType
    /\ scrape.before \subseteq stored
    /\ scrape.at # "counts" /\ "jobs" \notin scrape.missing =>
          Cardinality(Waited)
             <= scrape.jobs_by_status["pending"] + scrape.jobs_by_status["processing"]
    /\ scrape.at \in {"oldest", "done"} => \A j \in scrape.before : j <= scrape.now
    /\ scrape.at = "done" /\ "age" \notin scrape.missing =>
          \A j \in Waited : scrape.now - j <= scrape.age

\* The age of the oldest job of the backlog: no other one is older.
LEMMA OldestIsOldest ==
    ASSUME JobInv, scrape.now \in Nat
    PROVE  /\ oldest_pending_age_seconds \in Nat
           /\ \A j \in Backlog : scrape.now - j <= oldest_pending_age_seconds
<1>1. Backlog \subseteq Nat
  BY StoredAreJobs, Finite, ReviewAssumption DEF Backlog
<1>2. CASE Backlog = {}
  BY <1>2 DEF oldest_pending_age_seconds
<1>3. CASE Backlog # {}
  <2> DEFINE R == OpToRel(<, Nat)
             oldest == CHOOSE j \in Backlog : \A k \in Backlog : j <= k
  <2>1. IsWellFoundedOn(R, Nat) /\ R = {ss \in Nat \X Nat : ss[1] < ss[2]}
    BY NatLessThanWellFounded DEF OpToRel
  <2> HIDE DEF R
  <2>2. \E j \in Backlog : \A k \in Backlog : ~ <<k, j>> \in R
    BY <1>1, <1>3, <2>1, WFMin
  <2>3. \E j \in Backlog : \A k \in Backlog : j <= k
    <3>1. PICK j \in Backlog : \A k \in Backlog : ~ <<k, j>> \in R
      BY <2>2
    <3>2. ASSUME NEW k \in Backlog  PROVE j <= k
      <4>1. ~(<<k, j>>[1] < <<k, j>>[2]) /\ k \in Nat /\ j \in Nat
        BY <1>1, <2>1, <3>1
      <4> QED
        BY <4>1
    <3> QED
      BY <3>2
  <2>4. oldest \in Backlog /\ \A k \in Backlog : oldest <= k
    BY <2>3
  <2>5. oldest_pending_age_seconds = AgeOf(oldest)
    BY <1>3 DEF oldest_pending_age_seconds
  <2> HIDE DEF oldest
  <2> QED
    BY <1>1, <2>4, <2>5 DEF AgeOf
<1> QED
  BY <1>2, <1>3

LEMMA ScrapeStep ==
    ASSUME JobInv, JobInv', Onwards, ScrapeInv,
           jobs_by_status \/ BeginAge \/ OldestPendingAge \/ ScrapeAgain \/ UNCHANGED scrape
    PROVE  ScrapeInv'
<1>1. /\ stored \subseteq Jobs /\ stored \subseteq stored' /\ inserted \in Nat
      /\ scrape \in ScrapeType /\ scrape.before \subseteq stored
      /\ scrape.jobs_by_status["pending"] + scrape.jobs_by_status["processing"] \in Nat
  BY StoredAreJobs DEF Onwards, ScrapeInv, ScrapeType, JobStatus
<1>2. ASSUME scrape'.before = scrape.before
      PROVE  /\ Waited' \subseteq Waited /\ Waited \subseteq Jobs
             /\ Cardinality(Waited) \in Nat /\ Cardinality(Waited') \in Nat
             /\ Cardinality(Waited') <= Cardinality(Waited)
  <2>1. Waited' \subseteq Waited /\ Waited \subseteq Jobs
    BY <1>1, <1>2 DEF Waited, Onwards, ScrapeType
  <2> QED
    BY <2>1, Finite, Smaller
<1>3. CASE UNCHANGED scrape
  BY <1>1, <1>2, <1>3 DEF ScrapeInv
<1>4. CASE jobs_by_status
  <2>1. UNCHANGED <<stored, state>> /\ Backlog \subseteq stored
    BY <1>4 DEF jobs_by_status, jobVars, promiseVars, Backlog
  <2>2. ASSUME scrape'.before = Backlog  PROVE Waited' = Backlog
    BY <2>1, <2>2 DEF Waited, Backlog
  <2>3. CASE scrape' = [scrape EXCEPT !.at = "begin", !.before = Backlog,
                                      !.jobs_by_status = count_by_status]
    <3>1. /\ count_by_status \in [JobStatus -> Nat]
          /\ count_by_status["pending"] + count_by_status["processing"] = Cardinality(Backlog)
      BY CountsAddUp
    <3>2. Backlog \in SUBSET Jobs /\ Cardinality(Backlog) \in Nat
      BY <1>1, <2>1, Finite
    <3>3. /\ scrape' \in ScrapeType /\ scrape'.at = "begin" /\ scrape'.before = Backlog
          /\ scrape'.jobs_by_status = count_by_status
      BY <1>1, <2>3, <3>1, <3>2, Zenon DEF ScrapeType
    <3> QED
      BY <1>1, <2>1, <2>2, <3>1, <3>2, <3>3 DEF ScrapeInv
  <2>4. CASE scrape' = [scrape EXCEPT !.at = "begin", !.before = Backlog, !.missing = {"jobs"}]
    <3>1. Backlog \in SUBSET Jobs
      BY <1>1, <2>1
    <3>2. /\ scrape' \in ScrapeType /\ scrape'.at = "begin" /\ scrape'.before = Backlog
          /\ scrape'.missing = {"jobs"}
      <4>1. {"jobs"} \in SUBSET {"jobs", "age"}
        OBVIOUS
      <4> QED
        BY <1>1, <2>4, <3>1, <4>1, Zenon DEF ScrapeType
    <3> QED
      BY <1>1, <2>1, <3>2 DEF ScrapeInv
  <2> QED
    BY <1>4, <2>3, <2>4 DEF jobs_by_status
<1>5. CASE BeginAge
  <2>1. /\ scrape' = [scrape EXCEPT !.at = "oldest", !.now = inserted] /\ scrape.at = "begin"
    BY <1>5 DEF BeginAge
  <2>2. /\ scrape' \in ScrapeType /\ scrape'.at = "oldest" /\ scrape'.now = inserted
        /\ scrape'.before = scrape.before /\ scrape'.missing = scrape.missing
        /\ scrape'.jobs_by_status = scrape.jobs_by_status
    BY <1>1, <2>1, Zenon DEF ScrapeType
  <2>3. \A j \in scrape.before : j <= inserted
    <3>1. scrape.before \subseteq 1 .. inserted
      BY <1>1 DEF JobInv
    <3> QED
      BY <1>1, <3>1
  <2>4. "jobs" \notin scrape'.missing =>
          Cardinality(Waited')
             <= scrape'.jobs_by_status["pending"] + scrape'.jobs_by_status["processing"]
    BY <1>1, <1>2, <2>1, <2>2 DEF ScrapeInv
  <2>5. scrape'.before \subseteq stored' /\ \A j \in scrape'.before : j <= scrape'.now
    BY <1>1, <2>2, <2>3
  <2> QED
    BY <2>2, <2>4, <2>5 DEF ScrapeInv
<1>6. CASE OldestPendingAge
  <2>1. UNCHANGED state /\ scrape.at = "oldest" /\ scrape.now \in Nat
    BY <1>1, <1>6 DEF OldestPendingAge, jobVars, promiseVars, ScrapeType
  <2>2. /\ oldest_pending_age_seconds \in Nat
        /\ \A j \in Backlog : scrape.now - j <= oldest_pending_age_seconds
    BY <2>1, OldestIsOldest
  <2>3. CASE scrape' = [scrape EXCEPT !.at = "done", !.age = oldest_pending_age_seconds]
    <3>1. /\ scrape' \in ScrapeType /\ scrape'.at = "done" /\ scrape'.now = scrape.now
          /\ scrape'.age = oldest_pending_age_seconds
          /\ scrape'.before = scrape.before /\ scrape'.missing = scrape.missing
          /\ scrape'.jobs_by_status = scrape.jobs_by_status
      BY <1>1, <2>2, <2>3, Zenon DEF ScrapeType
    <3>2. Waited' \subseteq Backlog
      BY <1>1, <2>1, <3>1 DEF Waited, Backlog
    <3> QED
      BY <1>1, <1>2, <2>1, <2>2, <3>1, <3>2 DEF ScrapeInv
  <2>4. CASE scrape' = [scrape EXCEPT !.at = "done", !.missing = scrape.missing \cup {"age"}]
    <3>1. /\ scrape' \in ScrapeType /\ scrape'.at = "done" /\ scrape'.now = scrape.now
          /\ scrape'.before = scrape.before
          /\ scrape'.missing = scrape.missing \cup {"age"}
          /\ scrape'.jobs_by_status = scrape.jobs_by_status
      <4>1. scrape.missing \cup {"age"} \in SUBSET {"jobs", "age"}
        BY <1>1 DEF ScrapeType
      <4> QED
        BY <1>1, <2>4, <4>1, Zenon DEF ScrapeType
    <3> QED
      BY <1>1, <1>2, <2>1, <3>1 DEF ScrapeInv
  <2> QED
    BY <1>6, <2>3, <2>4 DEF OldestPendingAge
<1>7. CASE ScrapeAgain
  <2>1. scrape' = NoScrape
    BY <1>7 DEF ScrapeAgain
  <2> QED
    BY <2>1 DEF ScrapeInv, ScrapeType, NoScrape, NoCounts
<1> QED
  BY <1>3, <1>4, <1>5, <1>6, <1>7

------------------------------------------------------------------------------
ReviewInv == JobInv /\ StatsInv /\ WalkInv /\ PollInv /\ ScrapeInv /\ reader \in Readers

LEMMA ReviewStarts == ReviewInit => ReviewInv
<1> SUFFICES ASSUME ReviewInit PROVE ReviewInv
  OBVIOUS
<1>1. JobInv
  BY Finite, ReviewAssumption DEF ReviewInit, Init, JobInv, JobStatus
<1>2. StatsInv
  BY DEF ReviewInit, StatsInv, NoStats, NoCounts
<1>3. WalkInv
  <2>1. PICK F \in Filters \cup {{}} : walk = [NoWalk EXCEPT !.filter = F]
    BY DEF ReviewInit
  <2>2. /\ walk \in WalkType /\ walk.at = "count" /\ walk.before = {} /\ walk.seen = {}
    BY <2>1 DEF NoWalk, WalkType
  <2> QED
    BY <2>2 DEF WalkInv
<1>4. PollInv
  BY DEF ReviewInit, PollInv, PollType, NoPoll, Terminal
<1>5. ScrapeInv
  BY DEF ReviewInit, ScrapeInv, ScrapeType, NoScrape, NoCounts
<1> QED
  BY <1>1, <1>2, <1>3, <1>4, <1>5 DEF ReviewInv, ReviewInit

LEMMA ReviewKeeps == ReviewInv /\ [ReviewNext]_reviewVars => ReviewInv'
<1> SUFFICES ASSUME ReviewInv, [ReviewNext]_reviewVars PROVE ReviewInv'
  OBVIOUS
<1> USE DEF ReviewInv
<1> QED
  BY ReaderStep, StatsStep, WalkStep, PollStep, ScrapeStep

LEMMA ReviewImplies ==
    ASSUME ReviewInv
    PROVE  ReviewTypeOK /\ StatsAddUp /\ WalkIsComplete /\ ShownIsFinal /\ BacklogIsSeen
<1> USE DEF ReviewInv
<1>1. ReviewTypeOK
  BY DEF ReviewTypeOK, JobInv, StatsInv, WalkInv, WalkType, PollInv, PollType, ScrapeInv,
         ScrapeType
<1>2. StatsAddUp
  BY DEF StatsAddUp, StatsInv, Total
<1>3. WalkIsComplete
  BY DEF WalkIsComplete, WalkInv
<1>4. ShownIsFinal
  BY DEF ShownIsFinal, PollInv
<1>5. BacklogIsSeen
  BY DEF BacklogIsSeen, ScrapeInv, Waited, Unfinished
<1> QED
  BY <1>1, <1>2, <1>3, <1>4, <1>5

\* The four reads show what they promise, for any number of jobs and workers, pages of
\* any size and any filter: the overview adds up, a walk misses nothing that it should
\* not, what a page stops polling at is final, and a scrape sees the whole backlog.
THEOREM ReviewSafety ==
    ReviewSpec => /\ []ReviewTypeOK /\ []StatsAddUp /\ []WalkIsComplete
                  /\ []ShownIsFinal /\ []BacklogIsSeen
<1>1. ReviewInit => ReviewInv
  BY ReviewStarts
<1>2. ReviewInv /\ [ReviewNext]_reviewVars => ReviewInv'
  BY ReviewKeeps
<1>3. ReviewInv => ReviewTypeOK /\ StatsAddUp /\ WalkIsComplete /\ ShownIsFinal /\ BacklogIsSeen
  BY ReviewImplies
<1> QED
  BY <1>1, <1>2, <1>3, PTL DEF ReviewSpec
=============================================================================
