------------------------------ MODULE Ingestor ------------------------------
(***************************************************************************)
(* The storage ingestion path (backend/app/ingestor.py, storage.py) in     *)
(* front of the workers.  A replica lists the bucket, handles the objects  *)
(* of the listing in key order and lists again.  The bucket belongs to     *)
(* others: between the replica's listing and its read of an object anyone  *)
(* may replace it.  The etag of an object stands for its content.          *)
(*                                                                         *)
(* step[r] is the call replica r makes next:                               *)
(*   list     store.list_objects           create   the job and its record *)
(*   check    object_already_seen          publish  publisher.publish      *)
(*   read     store.read_object            refuse   mark_enqueue_failed    *)
(*   reject   the record of an invalid one mark     mark_enqueued          *)
(* mark_enqueued writes two timestamps, which nothing here depends on.     *)
(***************************************************************************)
EXTENDS WorkerProperties

CONSTANTS Replicas,
          Keys,         \* the object keys, as numbers in their listing order
          Contents,
          Kind,         \* what becomes of a content, see Kinds
          NoContent,
          MaxKeys,      \* max_keys of list_objects
          MayReplace,   \* may an object be replaced or removed?
          MaxUploads    \* bound: uploads and removals

\* "unstorable" passes the schema and cannot be written: a NUL character in a
\* message, which PostgreSQL's jsonb does not hold.
Kinds == {"valid", "invalid", "empty", "unstorable"}

ASSUME IngestorAssumption ==
    /\ Keys \subseteq Nat
    /\ Kind \in [Contents -> Kinds]
    /\ NoContent \notin Contents
    /\ MaxKeys \in Nat \ {0}
    /\ MayReplace \in BOOLEAN
    /\ MaxUploads \in Nat

VARIABLES bucket,   \* the content under each key
          past,     \* the contents a key had before, history
          uploads,
          seen,     \* the rows of ingested_objects
          origin,   \* the object each job was made from: source_ref, messages
          step,
          batch,    \* the listed objects still to handle, the current one first
          body,     \* what was read
          made      \* the job that was created

objectVars == <<bucket, past, uploads>>
replicaVars == <<step, batch, body, made>>
ingestVars == <<vars, objectVars, seen, origin, replicaVars>>

Objects == [key : Keys, etag : Contents]
NoOrigin == [key |-> 0, etag |-> NoContent]
ReplicaSteps ==
    {"list", "check", "read", "reject", "create", "publish", "refuse", "mark"}

IngestInit ==
    /\ StoreInit("absent") /\ QueueInit("unsent") /\ WorkersInit
    /\ bucket = [k \in Keys |-> NoContent] /\ uploads = 0
    /\ past = [k \in Keys |-> {}]
    /\ seen = {}
    /\ origin = [j \in Jobs |-> NoOrigin]
    /\ step = [r \in Replicas |-> "list"]
    /\ batch = [r \in Replicas |-> {}]
    /\ body = [r \in Replicas |-> NoContent]
    /\ made = [r \in Replicas |-> NoJob]

------------------------------------------------------------------------------

\* Somebody puts, replaces or removes an object.
Upload(k, content) ==
    /\ uploads < MaxUploads /\ uploads' = uploads + 1
    /\ content # bucket[k]
    /\ MayReplace \/ bucket[k] = NoContent
    /\ bucket' = [bucket EXCEPT ![k] = content]
    /\ past' = [past EXCEPT ![k] = @ \cup {bucket[k]}]
    /\ UNCHANGED <<vars, seen, origin, replicaVars>>

Present == {k \in Keys : bucket[k] # NoContent}

\* Mutant: one object less.
ListingShort ==
    {[key |-> k, etag |-> bucket[k]] :
        k \in {k \in Present : /\ Cardinality({i \in Present : i < k}) < MaxKeys - 1
                               /\ Kind[bucket[k]] # "empty"}}

\* The first MaxKeys objects, and of these the ones that are not empty.
Listing ==
    {[key |-> k, etag |-> bucket[k]] :
        k \in {k \in Present : /\ Cardinality({i \in Present : i < k}) < MaxKeys
                               /\ Kind[bucket[k]] # "empty"}}

Current(r) == CHOOSE o \in batch[r] : \A p \in batch[r] : o.key <= p.key

At(r, s) == step[r] = s
Continue(r, s) == step' = [step EXCEPT ![r] = s] /\ UNCHANGED <<batch, made>>

\* _handle returns: the next object of the listing, or the next poll.
Handled(r) ==
    /\ batch' = [batch EXCEPT ![r] = @ \ {Current(r)}]
    /\ step' = [step EXCEPT ![r] = IF batch[r] = {Current(r)} THEN "list" ELSE "check"]
    /\ body' = [body EXCEPT ![r] = NoContent]
    /\ made' = [made EXCEPT ![r] = NoJob]

\* _handle raises: the rest of the listing is left to the next poll.
Aborted(r) ==
    /\ batch' = [batch EXCEPT ![r] = {}]
    /\ step' = [step EXCEPT ![r] = "list"]
    /\ body' = [body EXCEPT ![r] = NoContent]
    /\ made' = [made EXCEPT ![r] = NoJob]

List(r) ==
    /\ At(r, "list")
    /\ batch' = [batch EXCEPT ![r] = Listing]
    /\ step' = [step EXCEPT ![r] = IF Listing = {} THEN "list" ELSE "check"]
    /\ UNCHANGED <<vars, objectVars, seen, origin, body, made>>

RecordableAlways(o) == TRUE     \* mutant: no constraint

\* No row of ingested_objects has this identity: the unique constraint.
Recordable(o) == \A s \in seen : s.object # o

record_ingested_object(o, j) == seen' = seen \cup {[object |-> o, job |-> j]}

Check(r) ==
    /\ At(r, "check")
    /\ \/ Recordable(Current(r)) /\ Continue(r, "read") /\ UNCHANGED body
       \/ ~Recordable(Current(r)) /\ Handled(r)
    /\ UNCHANGED <<vars, objectVars, seen, origin>>

\* Whatever is there now is read, and validated.
Read(r) ==
    /\ At(r, "read")
    /\ \E content \in Contents :
        /\ bucket[Current(r).key] = content
        /\ body' = [body EXCEPT ![r] = content]
        /\ Continue(r, IF Kind[content] \in {"invalid", "empty"} THEN "reject" ELSE "create")
    /\ UNCHANGED <<vars, objectVars, seen, origin>>

\* Mutant: an object that could not be read is recorded as invalid.
ReadFailsRecorded(r) ==
    /\ At(r, "read")
    /\ IF bucket[Current(r).key] = NoContent THEN UNCHANGED faults ELSE Fault("storage")
    /\ Handled(r) /\ record_ingested_object(Current(r), NoJob)
    /\ UNCHANGED <<storeVars, queueVars, workerVars, metricVars, objectVars, origin>>

ReadFails(r) ==
    /\ At(r, "read")
    /\ IF bucket[Current(r).key] = NoContent THEN UNCHANGED faults ELSE Fault("storage")
    /\ Handled(r)
    /\ UNCHANGED <<storeVars, queueVars, workerVars, metricVars, objectVars, seen, origin>>

\* _record_invalid; a record that is there already is fine.
Reject(r) ==
    /\ At(r, "reject") /\ Handled(r)
    /\ IF Recordable(Current(r)) THEN record_ingested_object(Current(r), NoJob)
                                 ELSE UNCHANGED seen
    /\ UNCHANGED <<vars, objectVars, origin>>

\* The job and the record, in one transaction; the constraint undoes both.
CreateRecorded(r) ==
    /\ At(r, "create") /\ Kind[body[r]] = "valid"
    /\ Recordable(Current(r))
    /\ \E j \in Jobs :
        /\ InsertJob(j, "pending", NoError)
        /\ record_ingested_object(Current(r), j)
        /\ origin' = [origin EXCEPT ![j] = [key |-> Current(r).key, etag |-> body[r]]]
        /\ made' = [made EXCEPT ![r] = j]
    /\ step' = [step EXCEPT ![r] = "publish"]
    /\ UNCHANGED <<queueVars, workerVars, metricVars, faults, objectVars, batch, body>>

CreateLost(r) ==
    /\ At(r, "create") /\ Kind[body[r]] = "valid"
    /\ ~Recordable(Current(r)) /\ Handled(r)
    /\ UNCHANGED <<vars, objectVars, seen, origin>>

\* The insert of the job raises before the record is reached.
CreateUnstorable(r) ==
    /\ At(r, "create") /\ Kind[body[r]] = "unstorable" /\ Aborted(r)
    /\ UNCHANGED <<vars, objectVars, seen, origin>>

\* Mutant: the error of a failed send is only logged.
PublishIgnoresFailure(r) ==
    /\ At(r, "publish")
    /\ \E sent \in SUBSET {m \in Messages : JobOf[m] = made[r] /\ place[m] = "unsent"} :
        SendMessages(sent)
    /\ Continue(r, "mark") /\ UNCHANGED body
    /\ UNCHANGED <<storeVars, workerVars, metricVars, faults, objectVars, seen, origin>>

\* As in Submission: a send that raises may have left messages.
Publish(r) ==
    /\ At(r, "publish")
    /\ \E sent \in SUBSET {m \in Messages : JobOf[m] = made[r] /\ place[m] = "unsent"} :
        /\ SendMessages(sent)
        /\ Continue(r, "refuse") \/ (sent # {} /\ Continue(r, "mark"))
    /\ UNCHANGED body
    /\ UNCHANGED <<storeVars, workerVars, metricVars, faults, objectVars, seen, origin>>

\* A transaction of its own, on a row that workers have seen since Create.
Refuse(r) ==
    /\ At(r, "refuse") /\ Handled(r)
    /\ mark_enqueue_failed(made[r])
    /\ jobsFailed' = [jobsFailed EXCEPT ![made[r]] = @ + 1]
    /\ UNCHANGED <<queueVars, workerVars, scored, jobsCompleted, faults, objectVars,
                   seen, origin>>

Mark(r) ==
    /\ At(r, "mark") /\ Handled(r)
    /\ UNCHANGED <<vars, objectVars, seen, origin>>

\* The process dies, or a transaction fails and poll_once raises.
PollFails(r) ==
    /\ ~At(r, "list") /\ Aborted(r)
    /\ Fault("ingestor")
    /\ UNCHANGED <<storeVars, queueVars, workerVars, metricVars, objectVars, seen, origin>>

Ingest(r) ==
    \/ List(r) \/ Check(r) \/ Read(r) \/ Reject(r)
    \/ CreateRecorded(r) \/ CreateLost(r) \/ CreateUnstorable(r)
    \/ Publish(r) \/ Refuse(r) \/ Mark(r)

IngestNext ==
    \/ \E k \in Keys, content \in Contents \cup {NoContent} : Upload(k, content)
    \/ \E r \in Replicas : Ingest(r) \/ ReadFails(r) \/ PollFails(r)
    \/ Next /\ UNCHANGED <<objectVars, seen, origin, replicaVars>>

IngestSpec == IngestInit /\ [][IngestNext]_ingestVars

\* The replicas poll for ever (run_forever), and the workers are fair.
IngestFairSpec ==
    IngestSpec /\ Fairness
        /\ \A r \in Replicas : WF_ingestVars(Ingest(r) \/ ReadFails(r))

------------------------------------------------------------------------------

Records == [object : Objects, job : Jobs \cup {NoJob}]

\* Every variable keeps to the values the code can write; a replica past its
\* listing has an object in hand, past its read the content, and past the insert
\* its job.
IngestTypeOK ==
    /\ bucket \in [Keys -> Contents \cup {NoContent}]
    /\ past \in [Keys -> SUBSET (Contents \cup {NoContent})]
    /\ seen \subseteq Records
    /\ origin \in [Jobs -> Objects \cup {NoOrigin}]
    /\ step \in [Replicas -> ReplicaSteps]
    /\ batch \in [Replicas -> SUBSET Objects]
    /\ body \in [Replicas -> Contents \cup {NoContent}]
    /\ made \in [Replicas -> Jobs \cup {NoJob}]
    /\ \A r \in Replicas : step[r] # "list" => batch[r] # {}
    /\ \A r \in Replicas : body[r] \in Contents <=> step[r] \notin {"list", "check", "read"}
    /\ \A r \in Replicas : made[r] \in Jobs <=> step[r] \in {"publish", "refuse", "mark"}

\* While nothing is replaced (MayReplace): polling sees an object over and over, and
\* several replicas see it at once, still "polling cannot create duplicate jobs"
\* (models.py:156, ingestor.py:13).
OneJobPerObject ==
    \A i, j \in Jobs : origin[i] = origin[j] /\ origin[i] # NoOrigin => i = j

\* While nothing is replaced: "Has this exact object content already been handled?"
\* (repository.py:366): a recorded object is one that was rejected for what it holds
\* or that became the job named in its record, never one that could not be read or
\* was cut short.
SeenIsHandled ==
    \A s \in seen :
        IF s.job = NoJob THEN Kind[s.object.etag] \in {"invalid", "empty"}
                         ELSE origin[s.job] = s.object /\ status[s.job] # "absent"

ObjectAt(k) == [key |-> k, etag |-> bucket[k]]

\* The object was rejected for what it holds, or its content became a job.
IsHandled(o) ==
    \E s \in seen :
        /\ s.object = o
        /\ IF Kind[o.etag] = "valid" THEN s.job # NoJob /\ origin[s.job] = o
                                     ELSE s.job = NoJob

\* The keys the poll gets to: as many as are listed.
Reached ==
    {k \in Present : /\ Kind[bucket[k]] # "empty"
                     /\ Cardinality({i \in Present : i < k}) < MaxKeys}

\* The poll ends at an object that cannot be stored, at this key or before it.
Obstructed(k) == \E i \in Reached : i <= k /\ Kind[bucket[i]] = "unstorable"

\* The key had this content before: when it was replaced, another may have been read
\* and recorded under its etag.
Returned(k) == bucket[k] \in past[k]

\* Fair.  "the next poll retries it" (ingestor.py:223): objects that are put, replaced
\* or removed at any moment of a poll are handled in the end, each for what it holds,
\* if they are among the first MaxKeys of the bucket (storage.py:69), are not stored
\* behind one that PostgreSQL refuses (the poll ends there, ingestor.py:227), and did
\* not come back after a replacement (the read takes what is there, ingestor.py:166).
EveryObjectHandled ==
    <>[](\A k \in Reached : Obstructed(k) \/ Returned(k) \/ IsHandled(ObjectAt(k)))

\* No message of the job was sent, and no replica is about to send one.
LeftUnsent(j) ==
    /\ \A m \in Messages : JobOf[m] = j => place[m] = "unsent"
    /\ \A r \in Replicas : made[r] # j

\* Fair, with workers.  Every job that was made from an object ends, however its send
\* went, "rather than sitting pending forever" (ingestor.py:253); only after a fault, the
\* death of a replica between the commit of the job and its send, one may be left behind.
IngestedJobEnds ==
    \A j \in Jobs :
        origin[j] # NoOrigin
            ~> status[j] \in TERMINAL_STATUSES \/ (faults > 0 /\ LeftUnsent(j))

==============================================================================
