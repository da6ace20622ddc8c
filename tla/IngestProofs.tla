---------------------------- MODULE IngestProofs ----------------------------
(***************************************************************************)
(* Theorems about the storage ingestor in front of the workers, for any    *)
(* number of replicas, keys, contents, faults and uploads.                 *)
(***************************************************************************)
EXTENDS Ingestor, WorkerProofs, WellFoundedInduction

\* A replica past its listing has the object with the least key in hand.
LEMMA CurrentIsListed ==
    ASSUME IngestTypeOK, NEW r \in Replicas, batch[r] # {}
    PROVE  Current(r) \in batch[r] /\ Current(r) \in Objects
<1> DEFINE R == OpToRel(<, Nat)
           K == {o.key : o \in batch[r]}
<1>1. batch[r] \subseteq Objects /\ K \subseteq Nat /\ K # {}
  <2>1. batch[r] \subseteq Objects /\ \A o \in Objects : o.key \in Nat
    BY IngestorAssumption DEF IngestTypeOK, Objects
  <2> QED
    BY <2>1
<1>2. IsWellFoundedOn(R, Nat) /\ R = {ss \in Nat \X Nat : ss[1] < ss[2]}
  BY NatLessThanWellFounded DEF OpToRel
<1> HIDE DEF R
<1>3. \E k \in K : \A l \in K : ~ <<l, k>> \in R
  <2> HIDE DEF K
  <2> QED
    BY <1>1, <1>2, WFMin
<1>4. PICK o \in batch[r] : \A p \in batch[r] : ~ <<p.key, o.key>> \in R
  BY <1>3
<1>5. ASSUME NEW p \in batch[r] PROVE o.key <= p.key
  <2>1. ~(<<p.key, o.key>>[1] < <<p.key, o.key>>[2]) /\ p.key \in Nat /\ o.key \in Nat
    BY <1>1, <1>2, <1>4
  <2> QED
    BY <2>1
<1>6. \E q \in batch[r] : \A p \in batch[r] : q.key <= p.key
  BY <1>5
<1>7. Current(r) \in batch[r]
  BY <1>6 DEF Current
<1> QED
  BY <1>1, <1>7

\* A listing shows objects as they are.
LEMMA ListedIsThere ==
    ASSUME IngestTypeOK, NEW o \in Listing
    PROVE  o \in Objects /\ bucket[o.key] = o.etag
<1>1. PICK k \in Present : o = [key |-> k, etag |-> bucket[k]]
  BY DEF Listing
<1>2. k \in Keys /\ bucket[k] \in Contents
  BY DEF Present, IngestTypeOK
<1> QED
  BY <1>1, <1>2 DEF Objects

\* The rows a worker's step finds stay, and no other row comes.
LEMMA RowsStay ==
    ASSUME TypeOK, Next, NEW j \in Jobs, status[j] # "absent"
    PROVE  status'[j] # "absent"
BY DEF Next, Process, Score, Faulty, Receive, Malformed, Claim, claim_job,
    Classify, Load, Scored, NotScored, Persist, complete_job, Release, Backoff, Fail,
    release_job_for_retry, fail_job, RecordError, Acknowledge, Crash, DatabaseError,
    QueueError, UnexpectedError, EarlyRedelivery, DeadLetter, Tick, StoreTick, storeVars,
    TypeOK, StoreTypeOK

------------------------------------------------------------------------------
(* Types.  A replica's step is one on its own locals, and on what it shares.*)

LEMMA LocalsAreTyped ==
    ASSUME IngestTypeOK, NEW r \in Replicas, ~At(r, "list"), Handled(r) \/ Aborted(r)
    PROVE  /\ step' \in [Replicas -> ReplicaSteps]
           /\ batch' \in [Replicas -> SUBSET Objects]
           /\ body' \in [Replicas -> Contents \cup {NoContent}]
           /\ made' \in [Replicas -> Jobs \cup {NoJob}]
           /\ \A q \in Replicas : step'[q] # "list" => batch'[q] # {}
           /\ \A q \in Replicas :
                  body'[q] \in Contents <=> step'[q] \notin {"list", "check", "read"}
           /\ \A q \in Replicas :
                  made'[q] \in Jobs <=> step'[q] \in {"publish", "refuse", "mark"}
<1>1. PICK rest \in SUBSET Objects, s \in {"list", "check"} :
          /\ batch' = [batch EXCEPT ![r] = rest]
          /\ step' = [step EXCEPT ![r] = s]
          /\ s = "check" => rest # {}
  <2>1. CASE Handled(r)
    <3> DEFINE rest == batch[r] \ {Current(r)}
    <3>1. rest \in SUBSET Objects /\ (rest = {} => batch[r] = {Current(r)})
      BY DEF IngestTypeOK, At
    <3>2. batch' = [batch EXCEPT ![r] = rest]
      BY <2>1 DEF Handled
    <3> HIDE DEF rest
    <3> QED
      BY <2>1, <3>1, <3>2 DEF Handled
  <2>2. CASE Aborted(r)
    BY <2>2 DEF Aborted
  <2> QED
    BY <2>1, <2>2
<1>2. body' = [body EXCEPT ![r] = NoContent] /\ made' = [made EXCEPT ![r] = NoJob]
  BY DEF Handled, Aborted
<1> QED
  BY <1>1, <1>2, WorkerAssumption, IngestorAssumption DEF IngestTypeOK, ReplicaSteps

LEMMA IngestTypeStep ==
    ASSUME TypeOK, IngestTypeOK, [IngestNext]_ingestVars
    PROVE  TypeOK' /\ IngestTypeOK'
<1>1. CASE UNCHANGED ingestVars
  BY <1>1, TypeStep DEF ingestVars, IngestTypeOK, objectVars, replicaVars
<1>2. CASE Next /\ UNCHANGED <<objectVars, seen, origin, replicaVars>>
  BY <1>2, TypeStep DEF IngestTypeOK, objectVars, replicaVars
<1>3. ASSUME NEW k \in Keys, NEW content \in Contents \cup {NoContent}, Upload(k, content)
      PROVE  TypeOK' /\ IngestTypeOK'
  BY <1>3, TypeStep DEF Upload, IngestTypeOK, replicaVars
<1>4. ASSUME NEW r \in Replicas, Ingest(r) \/ ReadFails(r) \/ PollFails(r)
      PROVE  TypeOK' /\ IngestTypeOK'
  <2>1. CASE List(r) \/ Check(r) \/ Read(r) \/ Reject(r) \/ CreateLost(r) \/ CreateUnstorable(r)
             \/ Mark(r) \/ ReadFails(r) \/ PollFails(r)
    <3>1. TypeOK'
      <4>1. CASE UNCHANGED vars
        BY <4>1, TypeStep
      <4>2. CASE UNCHANGED <<storeVars, queueVars, workerVars, metricVars>> /\ faults' \in 0 .. MaxFaults
        BY <4>2 DEF TypeOK, StoreTypeOK, QueueTypeOK, WorkerTypeOK, MetricTypeOK, storeVars,
            queueVars, workerVars, metricVars, JobAt
      <4> QED
        BY <2>1, <4>1, <4>2, WorkerAssumption
        DEF List, Check, Read, Reject, CreateLost, CreateUnstorable, Mark, ReadFails, PollFails,
            Fault, TypeOK, MetricTypeOK, vars
    <3>2. IngestTypeOK'
      <4> USE DEF objectVars, IngestTypeOK
      <4>1. CASE ~List(r) /\ (Handled(r) \/ Aborted(r))
        <5>1. ~At(r, "list") /\ Current(r) \in Objects
          BY <2>1, <4>1, CurrentIsListed
          DEF At, List, Check, Read, Reject, CreateLost, CreateUnstorable, Mark, ReadFails, PollFails
        <5>2. seen' \subseteq Records /\ bucket' = bucket /\ past' = past /\ origin' = origin
          BY <2>1, <4>1, <5>1
          DEF List, Check, Read, Reject, CreateLost, CreateUnstorable, Mark, ReadFails, PollFails,
              record_ingested_object, Records
        <5> QED
          BY <4>1, <5>1, <5>2, LocalsAreTyped
      <4>2. CASE List(r)
        <5>1. Listing \in SUBSET Objects
          BY ListedIsThere
        <5> QED
          BY <4>2, <5>1, WorkerAssumption DEF List, At, ReplicaSteps
      <4>3. CASE (Check(r) \/ Read(r)) /\ ~Handled(r)
        BY <4>3 DEF Check, Read, At, Continue, ReplicaSteps
      <4> QED
        BY <2>1, <4>1, <4>2, <4>3
        DEF Reject, CreateLost, CreateUnstorable, Mark, ReadFails, PollFails
    <3> QED
      BY <3>1, <3>2
  <2>2. CASE CreateRecorded(r)
    <3>1. Current(r) \in Objects /\ body[r] \in Contents
      BY <2>2, CurrentIsListed, IngestorAssumption DEF CreateRecorded, At, IngestTypeOK
    <3>2. TypeOK'
      BY <2>2 DEF CreateRecorded, InsertJob, TypeOK, StoreTypeOK, QueueTypeOK, WorkerTypeOK,
          MetricTypeOK, JobStatus, Unfinished, queueVars, workerVars, metricVars, JobAt
    <3>3. IngestTypeOK'
      BY <2>2, <3>1 DEF CreateRecorded, record_ingested_object, Records, Objects, IngestTypeOK,
          ReplicaSteps, objectVars, At
    <3> QED
      BY <3>2, <3>3
  <2>3. CASE Publish(r)
    <3>1. PICK sent \in SUBSET Messages : SendMessages(sent)
      BY <2>3 DEF Publish
    <3>2. TypeOK'
      BY <2>3, <3>1 DEF Publish, SendMessages, TypeOK, StoreTypeOK, QueueTypeOK, WorkerTypeOK,
          MetricTypeOK, Places, storeVars, workerVars, metricVars, JobAt
    <3>3. IngestTypeOK'
      BY <2>3 DEF Publish, Continue, At, IngestTypeOK, ReplicaSteps, objectVars
    <3> QED
      BY <3>2, <3>3
  <2>4. CASE Refuse(r)
    <3>1. made[r] \in Jobs
      BY <2>4 DEF Refuse, At, IngestTypeOK
    <3>2. TypeOK'
      BY <2>4, <3>1 DEF Refuse, mark_enqueue_failed, TypeOK, StoreTypeOK, QueueTypeOK,
          WorkerTypeOK, MetricTypeOK, JobStatus, TERMINAL_STATUSES, ErrorType, queueVars,
          workerVars, JobAt
    <3>3. IngestTypeOK'
      BY <2>4, LocalsAreTyped DEF Refuse, At, IngestTypeOK, objectVars
    <3> QED
      BY <3>2, <3>3
  <2> QED
    BY <1>4, <2>1, <2>2, <2>3, <2>4 DEF Ingest
<1> QED
  BY <1>1, <1>2, <1>3, <1>4 DEF IngestNext

LEMMA IngestTypeStarts == IngestInit => TypeOK /\ IngestTypeOK
BY VisibilityAssumption, QueueAssumption, WorkerAssumption, IngestorAssumption
DEF IngestInit, StoreInit, QueueInit, WorkersInit, TypeOK, StoreTypeOK, QueueTypeOK,
    WorkerTypeOK, MetricTypeOK, JobStatus, Unfinished, Places, Steps, Tasks, NoTask,
    IngestTypeOK, ReplicaSteps, Records

(* The replicas, the workers and the bucket keep to their types.            *)
THEOREM IngestTypeCorrect == IngestSpec => []IngestTypeOK
BY IngestTypeStarts, IngestTypeStep, PTL DEF IngestSpec

------------------------------------------------------------------------------
(* Jobs and records.  While nothing is replaced, what a replica read is     *)
(* what it listed, so a job and its record name the same object.            *)

RecordOf(j) == [object |-> origin[j], job |-> j]

ObjectsStay ==
    \A r \in Replicas : \A o \in batch[r] : bucket[o.key] = o.etag

ReadAsListed ==
    \A r \in Replicas :
        /\ step[r] \in {"reject", "create"} => body[r] = Current(r).etag
        /\ step[r] = "reject" => Kind[body[r]] \in {"invalid", "empty"}

OneRecordEach == \A s, t \in seen : s.object = t.object => s = t

JobsAreRecorded ==
    \A j \in Jobs : origin[j] # NoOrigin => RecordOf(j) \in seen

IngestInv ==
    /\ TypeOK /\ IngestTypeOK
    /\ ObjectsStay /\ ReadAsListed /\ OneRecordEach /\ JobsAreRecorded /\ SeenIsHandled

\* A step of a replica that takes no content into its hands and leaves the jobs.
LEMMA HandsStay ==
    ASSUME IngestInv, NEW r \in Replicas,
           bucket' = bucket,
           \A q \in Replicas : q # r =>
               step'[q] = step[q] /\ batch'[q] = batch[q] /\ body'[q] = body[q],
           step'[r] \notin {"reject", "create"},
           batch'[r] \subseteq batch[r]
    PROVE  ObjectsStay' /\ ReadAsListed'
<1>1. ObjectsStay'
  BY DEF IngestInv, ObjectsStay
<1>2. \A q \in Replicas : q # r => Current(q)' = Current(q)
  BY DEF Current
<1>3. ReadAsListed'
  BY <1>2 DEF IngestInv, ReadAsListed
<1> QED
  BY <1>1, <1>3

\* No record or the record of an object that was rejected, and the rows stay.
LEMMA RecordsStay ==
    ASSUME IngestInv, origin' = origin,
           \A j \in Jobs : status[j] # "absent" => status'[j] # "absent",
           \/ seen' = seen
           \/ \E o \in Objects : /\ Recordable(o) /\ record_ingested_object(o, NoJob)
                                 /\ Kind[o.etag] \in {"invalid", "empty"}
    PROVE  OneRecordEach' /\ JobsAreRecorded' /\ SeenIsHandled'
<1> USE DEF IngestInv, OneRecordEach, JobsAreRecorded, SeenIsHandled, RecordOf
<1>1. \A s \in seen : s.job = NoJob \/ s.job \in Jobs
  BY DEF IngestTypeOK, Records
<1>2. CASE seen' = seen
  BY <1>1, <1>2
<1>3. ASSUME NEW o \in Objects, Recordable(o), record_ingested_object(o, NoJob),
             Kind[o.etag] \in {"invalid", "empty"}
      PROVE  OneRecordEach' /\ JobsAreRecorded' /\ SeenIsHandled'
  BY <1>1, <1>3 DEF Recordable, record_ingested_object
<1> QED
  BY <1>2, <1>3

LEMMA IngestStep ==
    ASSUME MayReplace = FALSE, IngestInv, [IngestNext]_ingestVars
    PROVE  IngestInv'
<1>1. TypeOK' /\ IngestTypeOK'
  BY IngestTypeStep DEF IngestInv
<1>2. CASE UNCHANGED <<vars, objectVars, seen, origin, replicaVars>>
  BY <1>1, <1>2, RecordsStay
  DEF IngestInv, ObjectsStay, ReadAsListed, Current, vars, storeVars, objectVars, replicaVars
<1>3. CASE Next /\ UNCHANGED <<objectVars, seen, origin, replicaVars>>
  BY <1>1, <1>3, RowsStay, RecordsStay
  DEF IngestInv, ObjectsStay, ReadAsListed, Current, objectVars, replicaVars
<1>4. ASSUME NEW k \in Keys, NEW content \in Contents \cup {NoContent}, Upload(k, content)
      PROVE  IngestInv'
  <2>1. bucket[k] = NoContent /\ bucket' = [bucket EXCEPT ![k] = content]
    BY <1>4 DEF Upload
  <2>2. ObjectsStay'
    BY <1>4, <2>1, IngestorAssumption DEF Upload, replicaVars, IngestInv, ObjectsStay, IngestTypeOK,
        Objects
  <2>3. ReadAsListed'
    BY <1>4 DEF Upload, replicaVars, IngestInv, ReadAsListed, Current
  <2> QED
    BY <1>1, <1>4, <2>2, <2>3, RecordsStay DEF Upload, IngestInv, vars, storeVars
<1>5. ASSUME NEW r \in Replicas, List(r) PROVE IngestInv'
  <2>1. \A o \in Listing : bucket[o.key] = o.etag
    BY ListedIsThere DEF IngestInv
  <2>2. ObjectsStay'
    BY <1>5, <2>1 DEF List, objectVars, IngestInv, ObjectsStay, IngestTypeOK
  <2>3. ReadAsListed'
    BY <1>5 DEF List, IngestInv, ReadAsListed, Current, IngestTypeOK
  <2> QED
    BY <1>1, <1>5, <2>2, <2>3, RecordsStay DEF List, IngestInv, vars, storeVars
<1>6. ASSUME NEW r \in Replicas,
             Check(r) \/ Reject(r) \/ CreateLost(r) \/ CreateUnstorable(r) \/ Publish(r)
                \/ Refuse(r) \/ Mark(r) \/ ReadFails(r) \/ PollFails(r)
      PROVE  IngestInv'
  <2>1. /\ bucket' = bucket /\ origin' = origin
        /\ \A q \in Replicas : q # r =>
               step'[q] = step[q] /\ batch'[q] = batch[q] /\ body'[q] = body[q]
        /\ step'[r] \notin {"reject", "create"}
        /\ batch'[r] \subseteq batch[r]
    BY <1>6 DEF Check, Reject, CreateLost, CreateUnstorable, Publish, Refuse, Mark, ReadFails,
        PollFails, Handled, Aborted, Continue, objectVars, IngestInv, IngestTypeOK
  <2>2. \A j \in Jobs : status[j] # "absent" => status'[j] # "absent"
    BY <1>6 DEF Check, Reject, CreateLost, CreateUnstorable, Publish, Refuse, Mark, ReadFails,
        PollFails, mark_enqueue_failed, vars, storeVars, IngestInv, TypeOK, StoreTypeOK
  <2>3. \/ seen' = seen
        \/ \E o \in Objects : /\ Recordable(o) /\ record_ingested_object(o, NoJob)
                              /\ Kind[o.etag] \in {"invalid", "empty"}
    <3>1. CASE Reject(r)
      <4>1. Current(r) \in Objects
        BY <3>1, CurrentIsListed DEF Reject, At, IngestInv, IngestTypeOK
      <4>2. Kind[Current(r).etag] \in {"invalid", "empty"}
        BY <3>1 DEF Reject, At, IngestInv, ReadAsListed
      <4> QED
        BY <3>1, <4>1, <4>2 DEF Reject
    <3>2. CASE ~Reject(r)
      BY <1>6, <3>2 DEF Check, CreateLost, CreateUnstorable, Publish, Refuse, Mark, ReadFails,
          PollFails
    <3> QED
      BY <3>1, <3>2
  <2> QED
    BY <1>1, <2>1, <2>2, <2>3, HandsStay, RecordsStay DEF IngestInv
<1>7. ASSUME NEW r \in Replicas, Read(r) PROVE IngestInv'
  <2>1. step[r] = "read" /\ Current(r) \in batch[r]
    BY <1>7, CurrentIsListed DEF Read, At, IngestInv, IngestTypeOK
  <2>2. /\ body' = [body EXCEPT ![r] = Current(r).etag] /\ batch' = batch
        /\ step' = [step EXCEPT ![r] = IF Kind[Current(r).etag] \in {"invalid", "empty"}
                                         THEN "reject" ELSE "create"]
    BY <1>7, <2>1 DEF Read, Continue, IngestInv, ObjectsStay
  <2>3. ObjectsStay'
    BY <1>7, <2>2 DEF Read, objectVars, IngestInv, ObjectsStay
  <2>4. ReadAsListed'
    BY <2>2 DEF IngestInv, ReadAsListed, Current, IngestTypeOK
  <2> QED
    BY <1>1, <1>7, <2>3, <2>4, RecordsStay DEF Read, IngestInv, vars, storeVars
<1>8. ASSUME NEW r \in Replicas, CreateRecorded(r) PROVE IngestInv'
  <2>1. PICK j \in Jobs : /\ InsertJob(j, "pending", NoError)
                          /\ record_ingested_object(Current(r), j)
                          /\ origin' = [origin EXCEPT ![j] = [key |-> Current(r).key,
                                                              etag |-> body[r]]]
    BY <1>8 DEF CreateRecorded
  <2>2. /\ Current(r) \in Objects
        /\ Current(r) = [key |-> Current(r).key, etag |-> body[r]]
    <3>1. Current(r) \in Objects
      BY <1>8, CurrentIsListed DEF CreateRecorded, At, IngestInv, IngestTypeOK
    <3>2. Current(r).etag = body[r]
      BY <1>8 DEF CreateRecorded, At, IngestInv, ReadAsListed
    <3> QED
      BY <3>1, <3>2 DEF Objects
  <2>3. ObjectsStay' /\ ReadAsListed'
    <3>1. /\ bucket' = bucket /\ batch' = batch /\ body' = body
          /\ \A q \in Replicas : q # r => step'[q] = step[q]
          /\ step'[r] = "publish"
      BY <1>8 DEF CreateRecorded, objectVars, IngestInv, IngestTypeOK
    <3> QED
      BY <3>1, HandsStay
  <2>4. /\ status[j] = "absent" /\ status'[j] # "absent"
        /\ \A i \in Jobs : i # j => status'[i] = status[i] /\ origin'[i] = origin[i]
        /\ origin'[j] = Current(r)
        /\ seen' = seen \cup {[object |-> Current(r), job |-> j]}
        /\ \A s \in seen : s.object # Current(r) /\ s.job # j
    BY <1>8, <2>1, <2>2, WorkerAssumption
    DEF CreateRecorded, InsertJob, record_ingested_object, Recordable, IngestInv, TypeOK,
        StoreTypeOK, IngestTypeOK, SeenIsHandled
  <2>5. OneRecordEach'
    BY <2>4 DEF IngestInv, OneRecordEach
  <2>6. JobsAreRecorded'
    BY <2>4 DEF IngestInv, JobsAreRecorded, RecordOf
  <2>7. SeenIsHandled'
    BY <2>4, WorkerAssumption DEF IngestInv, IngestTypeOK, Records, SeenIsHandled
  <2> QED
    BY <1>1, <2>3, <2>5, <2>6, <2>7 DEF IngestInv
<1> QED
  BY <1>2, <1>3, <1>4, <1>5, <1>6, <1>7, <1>8 DEF IngestNext, Ingest, ingestVars

LEMMA IngestStarts == IngestInit => IngestInv
<1> SUFFICES ASSUME IngestInit PROVE IngestInv
  OBVIOUS
<1>1. TypeOK /\ IngestTypeOK
  BY IngestTypeStarts
<1>2. /\ seen = {} /\ \A j \in Jobs : origin[j] = NoOrigin
      /\ \A r \in Replicas : batch[r] = {} /\ step[r] = "list"
  BY DEF IngestInit
<1> QED
  BY <1>1, <1>2
  DEF IngestInv, ObjectsStay, ReadAsListed, OneRecordEach, JobsAreRecorded, SeenIsHandled

(* While no object is replaced under its key: however many replicas poll,   *)
(* one job per object, and a record only of what was rejected or became a   *)
(* job.                                                                     *)
THEOREM OneJobEach ==
    ASSUME MayReplace = FALSE
    PROVE  IngestSpec => [](OneJobPerObject /\ SeenIsHandled)
<1>1. IngestInv => OneJobPerObject /\ SeenIsHandled
  <2> SUFFICES ASSUME IngestInv, NEW i \in Jobs, NEW j \in Jobs,
                      origin[i] = origin[j], origin[i] # NoOrigin
               PROVE  i = j
    BY DEF OneJobPerObject, IngestInv
  <2>1. RecordOf(i) \in seen /\ RecordOf(j) \in seen
    BY DEF IngestInv, JobsAreRecorded
  <2>2. RecordOf(i) = RecordOf(j)
    BY <2>1 DEF IngestInv, OneRecordEach, RecordOf
  <2> QED
    BY <2>2 DEF RecordOf
<1>2. IngestInv /\ [IngestNext]_ingestVars => IngestInv'
  BY IngestStep
<1> QED
  BY <1>1, <1>2, IngestStarts, PTL DEF IngestSpec

==============================================================================
