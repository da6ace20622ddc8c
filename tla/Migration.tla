------------------------------ MODULE Migration ------------------------------
(***************************************************************************)
(* Start-up: the init containers of several API pods migrate the schema    *)
(* (backend/app/migrate.py, backend/alembic/) while workers and ingestors  *)
(* wait for it (backend/app/db.py), over a database that may restart.      *)
(*                                                                         *)
(* schema is the last committed revision; staged[p] is the one the open    *)
(* transaction of p has reached.  The advisory lock belongs to a database  *)
(* session: it is over when the server notices that its client is gone,    *)
(* which may be long after the client was restarted (Dead).  pc[p] is what *)
(* p does next:                                                            *)
(*   database  wait_for_database    lock      ask for the advisory lock    *)
(*   read      read the version     upgrade   apply revisions, commit      *)
(*   unlock    release the lock     rollback  an error that left the       *)
(*   serve     the API container              transaction open             *)
(*   schema    wait_for_schema      run       the loop of the process      *)
(***************************************************************************)
EXTENDS Naturals, FiniteSets

CONSTANTS ApiPods, Workers, Ingestors, Nobody, Dead,
          FaultKinds,  \* which of "pod", "database", "revision" may strike
          MaxFaults    \* bound: faults in all

Waiters == Workers \cup Ingestors
Pods == ApiPods \cup Waiters

ASSUME PodsAssumption ==
    /\ Nobody \notin ApiPods /\ Dead \notin ApiPods /\ Nobody # Dead
    /\ ApiPods \cap Waiters = {} /\ Workers \cap Ingestors = {}

VARIABLES up,          \* the database accepts connections
          installed,   \* the revision found at the start; 0 is a first install
          schema, staged, pc,
          holder,      \* whose session has the advisory lock
          deadWaiting, \* sessions of dead clients that still ask for it
          faults

databaseVars == <<up, installed, schema, holder, deadWaiting>>
migrationVars == <<databaseVars, staged, pc, faults>>

Head == 3

\* The tables each revision creates.
initial == {"conversations"}
ingested_objects == {"ingested_objects"}
demo_failure_tokens == {"demo_failure_tokens"}
Creates == <<initial, ingested_objects, demo_failure_tokens>>
Tables(revision) == UNION {Creates[r] : r \in 1 .. revision}

\* The tables the loop of a process reads and writes.
Needs(p) == {"conversations"} \cup
            (IF p \in Workers THEN {"demo_failure_tokens"} ELSE {"ingested_objects"})

MigrationTypeOK ==
    /\ up \in BOOLEAN
    /\ installed \in 0 .. Head /\ schema \in 0 .. Head
    /\ staged \in [ApiPods -> 0 .. Head]
    /\ pc \in [Pods -> {"database", "lock", "read", "upgrade", "unlock", "rollback",
                        "serve", "schema", "run"}]
    /\ \A p \in ApiPods : pc[p] \notin {"schema", "run"}
    /\ \A w \in Waiters : pc[w] \in {"database", "schema", "run"}
    /\ holder \in ApiPods \cup {Nobody, Dead}
    /\ \A p \in ApiPods : pc[p] \in {"read", "upgrade", "unlock"} => holder = p
    /\ deadWaiting \in Nat
    /\ faults \in Nat

MigrationInit ==
    /\ up \in BOOLEAN
    /\ installed \in 0 .. Head /\ schema = installed
    /\ staged = [p \in ApiPods |-> 0]
    /\ pc = [p \in Pods |-> "database"]
    /\ holder = Nobody /\ deadWaiting = 0
    /\ faults = 0

Fault(kind) == kind \in FaultKinds /\ faults < MaxFaults /\ faults' = faults + 1
Goto(p, step) == pc' = [pc EXCEPT ![p] = step]

------------------------------------------------------------------------------
(* run_migrations, in the init container of an API pod.                    *)

\* Mutant: the init container waits for the schema that only it creates.
FindDatabaseAndSchema(p) ==
    /\ pc[p] = "database" /\ up /\ "conversations" \in Tables(schema)
    /\ Goto(p, IF p \in ApiPods THEN "lock" ELSE "schema")
    /\ UNCHANGED <<databaseVars, staged, faults>>
\* wait_for_database: a failed attempt past the deadline ends the process, and
\* its container starts over here.
FindDatabase(p) ==
    /\ pc[p] = "database" /\ up
    /\ Goto(p, IF p \in ApiPods THEN "lock" ELSE "schema")
    /\ UNCHANGED <<databaseVars, staged, faults>>

\* Mutant: the answer of pg_try_advisory_lock is not looked at.
TakeNoLock(p) ==
    /\ pc[p] = "lock" /\ up
    /\ holder' = p
    /\ Goto(p, "read")
    /\ UNCHANGED <<up, installed, schema, deadWaiting, staged, faults>>
\* pg_advisory_lock answers.
TakeLock(p) ==
    /\ pc[p] = "lock" /\ up /\ holder = Nobody
    /\ holder' = p
    /\ Goto(p, "read")
    /\ UNCHANGED <<up, installed, schema, deadWaiting, staged, faults>>

\* Mutant: REPEATABLE READ, whose snapshot is as old as the wait for the lock.
ReadSnapshot(p) ==
    /\ pc[p] = "read"
    /\ staged' \in {[staged EXCEPT ![p] = seen] : seen \in {installed, schema}}
    /\ Goto(p, "upgrade")
    /\ UNCHANGED <<databaseVars, faults>>
\* Alembic reads the version in the transaction the lock's SELECT began; READ
\* COMMITTED, so it is the version of now and not of when p began to wait.
ReadVersion(p) ==
    /\ pc[p] = "read"
    /\ staged' = [staged EXCEPT ![p] = schema]
    /\ Goto(p, "upgrade")
    /\ UNCHANGED <<databaseVars, faults>>

\* The next revision, unless an open transaction has created the same tables:
\* then the statement waits for it.
Revise(p) ==
    /\ pc[p] = "upgrade" /\ staged[p] < Head
    /\ \A q \in ApiPods : pc[q] = "rollback" => staged[q] <= staged[p]
    /\ staged' = [staged EXCEPT ![p] = @ + 1]
    /\ UNCHANGED <<databaseVars, pc, faults>>

\* Mutant: a transaction for each revision.
MayCommitEach(p) == staged[p] > schema \/ staged[p] = Head
\* One transaction for all revisions, committed when the last is applied.
MayCommit(p) == staged[p] = Head

CommitMigration(p) ==
    /\ pc[p] = "upgrade" /\ MayCommit(p)
    /\ schema' = staged[p]
    /\ Goto(p, IF staged[p] = Head THEN "unlock" ELSE "upgrade")
    /\ UNCHANGED <<up, installed, holder, deadWaiting, staged, faults>>

\* The finally clause after a commit; then the engine is disposed of and main
\* returns 0.
Unlock(p) ==
    /\ pc[p] = "unlock"
    /\ holder' = Nobody
    /\ Goto(p, "serve")
    /\ UNCHANGED <<up, installed, schema, deadWaiting, staged, faults>>

\* An exception that is no database error: the finally clause releases the lock
\* while the transaction is still open.  (After a database error the unlock
\* fails too and the session ends with the process: PodDies.)
RevisionRaises(p) ==
    /\ Fault("revision")
    /\ pc[p] = "upgrade"
    /\ holder' = Nobody
    /\ Goto(p, "rollback")
    /\ UNCHANGED <<up, installed, schema, deadWaiting, staged>>

\* The connection is closed and main returns 1.
AfterFailure == "database"
RollBack(p) ==
    /\ pc[p] = "rollback"
    /\ Goto(p, AfterFailure)
    /\ UNCHANGED <<databaseVars, staged, faults>>

------------------------------------------------------------------------------
(* wait_for_schema, in main of worker.py and ingestor.py.                  *)

\* Mutant: the wait for the database is enough.
SchemaReadyAlways == TRUE
SchemaReady == "conversations" \in Tables(schema)

FindSchema(w) ==
    /\ pc[w] = "schema" /\ up /\ SchemaReady
    /\ Goto(w, "run")
    /\ UNCHANGED <<databaseVars, staged, faults>>

\* The TimeoutError ends the process; its container starts over.
SchemaTimeout(w) ==
    /\ pc[w] = "schema" /\ ~(up /\ SchemaReady)
    /\ Goto(w, "database")
    /\ UNCHANGED <<databaseVars, staged, faults>>

------------------------------------------------------------------------------
(* Faults: pods that die, dead sessions, and a database that restarts.     *)

InSession == {"lock", "read", "upgrade", "unlock", "rollback"}

\* What the session of p leaves behind until the server notices: the lock, or
\* a place in its queue.  A commit on its way may still be carried out.
PodDies(p) ==
    /\ Fault("pod")
    /\ Goto(p, "database")
    /\ holder' = IF holder = p THEN Dead ELSE holder
    /\ deadWaiting' = IF pc[p] = "lock" THEN deadWaiting + 1 ELSE deadWaiting
    /\ \/ schema' = schema
       \/ p \in ApiPods /\ pc[p] = "upgrade" /\ MayCommit(p) /\ schema' = staged[p]
    /\ UNCHANGED <<up, installed, staged>>

DeadTakesLock ==
    /\ up /\ deadWaiting > 0 /\ holder = Nobody
    /\ holder' = Dead /\ deadWaiting' = deadWaiting - 1
    /\ UNCHANGED <<up, installed, schema, staged, pc, faults>>

DeadEnds ==
    /\ holder = Dead
    /\ holder' = Nobody
    /\ UNCHANGED <<up, installed, schema, deadWaiting, staged, pc, faults>>

\* Every session ends; the init containers fail at their next call.  The loops
\* of workers and ingestors and the API live through it.
DatabaseStops ==
    /\ Fault("database")
    /\ up /\ up' = FALSE
    /\ holder' = Nobody /\ deadWaiting' = 0
    /\ pc' = [p \in Pods |-> IF pc[p] \in InSession THEN "database" ELSE pc[p]]
    /\ \/ schema' = schema
       \/ \E p \in ApiPods : /\ pc[p] = "upgrade" /\ MayCommit(p)
                             /\ schema' = staged[p]
    /\ UNCHANGED <<installed, staged>>

DatabaseStarts ==
    /\ ~up /\ up' = TRUE
    /\ UNCHANGED <<installed, schema, holder, deadWaiting, staged, pc, faults>>

------------------------------------------------------------------------------
run_migrations(p) ==
    FindDatabase(p) \/ TakeLock(p) \/ ReadVersion(p) \/ Revise(p)
        \/ CommitMigration(p) \/ Unlock(p) \/ RollBack(p)

wait_for_schema(w) == FindDatabase(w) \/ FindSchema(w)

MigrationNext ==
    \/ \E p \in ApiPods : run_migrations(p) \/ RevisionRaises(p)
    \/ \E w \in Waiters : wait_for_schema(w) \/ SchemaTimeout(w)
    \/ \E p \in Pods : PodDies(p)
    \/ DeadTakesLock \/ DeadEnds
    \/ DatabaseStops \/ DatabaseStarts

\* The processes try for ever, the server drops dead sessions, the database
\* comes back, and no container waits for the lock for ever while others take it.
MigrationSpec ==
    /\ MigrationInit /\ [][MigrationNext]_migrationVars
    /\ \A p \in ApiPods : WF_migrationVars(run_migrations(p)) /\ SF_migrationVars(TakeLock(p))
    /\ \A w \in Waiters : WF_migrationVars(FindDatabase(w)) /\ SF_migrationVars(FindSchema(w))
    /\ WF_migrationVars(DeadTakesLock) /\ WF_migrationVars(DeadEnds)
    /\ WF_migrationVars(DatabaseStarts)

------------------------------------------------------------------------------
(* Properties.                                                             *)

\* The revisions an init container still has to apply are not in the schema,
\* whoever migrated, died or was restarted while it waited: a second CREATE
\* TABLE would fail and keep its pod from starting.  (migrate.py, run_migrations)
NothingIsAppliedTwice ==
    \A p \in ApiPods : pc[p] = "upgrade" => staged[p] >= schema

\* Nobody ever sees a schema between the one installed and the newest, wherever
\* a migration was cut short.  (migrate.py, one commit for all revisions)
SchemaIsWhole == schema \in {installed, Head}

\* The API serves on the newest schema only.  (migrate.py, main)
ServesOnHead == \A p \in ApiPods : pc[p] = "serve" => schema = Head

\* "Waiting here is what keeps them out of a crash loop on a first install"
\* (db.py:124): there, and only there, a loop runs only when every table it uses is
\* there, although wait_for_schema looks for one table and takes no lock.
HasItsTables ==
    installed = 0 => \A w \in Waiters : pc[w] = "run" => Needs(w) \subseteq Tables(schema)

\* Whatever is restarted during the installation, in the end every pod has
\* started and finds its tables, upgrades included.  (migrate.py, db.py)
EverybodyStarts ==
    <>[](/\ \A p \in ApiPods : pc[p] = "serve"
         /\ \A w \in Waiters : pc[w] = "run" /\ Needs(w) \subseteq Tables(schema))
==============================================================================
