--------------------------- MODULE MigrationProofs ---------------------------
(***************************************************************************)
(* Theorems about start-up, for any number of API pods, workers, ingestors *)
(* and faults, from any installed revision.                                *)
(***************************************************************************)
EXTENDS Migration, TLAPS

(* The argument: only the holder of the lock is between the version it read *)
(* and its commit, so the committed schema does not move under it; a commit *)
(* takes the schema to Head at once; who serves or releases the lock has    *)
(* seen that commit, and the schema never falls back.                       *)

UnderLock == \A p \in ApiPods : pc[p] = "upgrade" => staged[p] >= schema

Migrated ==
    /\ \A p \in ApiPods : pc[p] \in {"unlock", "serve"} => schema = Head
    /\ \A w \in Waiters : installed = 0 /\ pc[w] = "run" => schema = Head

MigrationInv == MigrationTypeOK /\ UnderLock /\ SchemaIsWhole /\ Migrated

\* No table exists before the first revision, every table at the newest.
LEMMA TablesOfRevisions ==
    /\ Tables(0) = {}
    /\ \A p \in Pods : Needs(p) \subseteq Tables(Head)
<1>1. Tables(0) = {}
  BY DEF Tables
<1>2. {"conversations", "ingested_objects", "demo_failure_tokens"} \subseteq Tables(Head)
  <2>1. Creates[1] = {"conversations"} /\ 1 \in 1 .. Head
    BY DEF Creates, initial, ingested_objects, demo_failure_tokens, Head
  <2>2. Creates[2] = {"ingested_objects"} /\ 2 \in 1 .. Head
    BY DEF Creates, initial, ingested_objects, demo_failure_tokens, Head
  <2>3. Creates[3] = {"demo_failure_tokens"} /\ 3 \in 1 .. Head
    BY DEF Creates, initial, ingested_objects, demo_failure_tokens, Head
  <2> QED
    BY <2>1, <2>2, <2>3 DEF Tables
<1> QED
  BY <1>1, <1>2 DEF Needs

LEMMA MigrationStarts == MigrationInit => MigrationInv
BY PodsAssumption
DEF MigrationInit, MigrationInv, MigrationTypeOK, UnderLock, SchemaIsWhole, Migrated,
    Pods, Waiters, Head

LEMMA MigrationSteps ==
    ASSUME MigrationInv, [MigrationNext]_migrationVars
    PROVE  MigrationInv'
<1> USE PodsAssumption
    DEF MigrationInv, MigrationTypeOK, UnderLock, SchemaIsWhole, Migrated, Pods, Waiters,
        Head, Goto, Fault, databaseVars
<1>1. ASSUME NEW p \in Pods, FindDatabase(p) PROVE MigrationInv'
  BY <1>1 DEF FindDatabase
<1>2. ASSUME NEW p \in ApiPods, TakeLock(p) PROVE MigrationInv'
  BY <1>2 DEF TakeLock
<1>3. ASSUME NEW p \in ApiPods, ReadVersion(p) PROVE MigrationInv'
  BY <1>3 DEF ReadVersion
<1>4. ASSUME NEW p \in ApiPods, Revise(p) PROVE MigrationInv'
  BY <1>4 DEF Revise
<1>5. ASSUME NEW p \in ApiPods, CommitMigration(p) PROVE MigrationInv'
  BY <1>5 DEF CommitMigration, MayCommit
<1>6. ASSUME NEW p \in ApiPods, Unlock(p) PROVE MigrationInv'
  BY <1>6 DEF Unlock
<1>7. ASSUME NEW p \in ApiPods, RevisionRaises(p) PROVE MigrationInv'
  BY <1>7 DEF RevisionRaises
<1>8. ASSUME NEW p \in ApiPods, RollBack(p) PROVE MigrationInv'
  BY <1>8 DEF RollBack, AfterFailure
<1>9. ASSUME NEW w \in Waiters, FindSchema(w) PROVE MigrationInv'
  \* On a first install a schema that has a table is the newest.
  <2>1. installed = 0 => schema = Head
    BY <1>9, TablesOfRevisions DEF FindSchema, SchemaReady
  <2> QED
    BY <1>9, <2>1 DEF FindSchema
<1>10. ASSUME NEW w \in Waiters, SchemaTimeout(w) PROVE MigrationInv'
  BY <1>10 DEF SchemaTimeout
<1>11. ASSUME NEW p \in Pods, PodDies(p) PROVE MigrationInv'
  BY <1>11 DEF PodDies, MayCommit
<1>12. CASE DeadTakesLock
  BY <1>12 DEF DeadTakesLock
<1>13. CASE DeadEnds
  BY <1>13 DEF DeadEnds
<1>14. CASE DatabaseStops
  <2>1. \A p \in Pods : /\ pc'[p] \in {"database", pc[p]}
                       /\ pc'[p] \notin InSession
    BY <1>14 DEF DatabaseStops, InSession
  <2>2. schema' \in {schema, Head} /\ (schema = Head => schema' = Head)
    BY <1>14 DEF DatabaseStops, MayCommit
  <2>3. MigrationTypeOK'
    <3>1. pc' \in [Pods -> {"database", "lock", "read", "upgrade", "unlock", "rollback",
                           "serve", "schema", "run"}]
      BY <1>14 DEF DatabaseStops
    <3>2. /\ \A p \in ApiPods : pc'[p] \notin {"schema", "run", "read", "upgrade", "unlock"}
          /\ \A w \in Waiters : pc'[w] \in {"database", "schema", "run"}
      BY <2>1 DEF InSession
    <3>3. up' = FALSE
      BY <1>14 DEF DatabaseStops
    <3>4. /\ installed' \in 0 .. Head /\ staged' \in [ApiPods -> 0 .. Head]
          /\ holder' = Nobody /\ deadWaiting' = 0 /\ faults' = faults + 1
      BY <1>14 DEF DatabaseStops
    <3>5. schema' \in 0 .. Head
      BY <2>2 DEF Head
    <3>6. holder' \in ApiPods \cup {Nobody, Dead} /\ deadWaiting' \in Nat /\ faults' \in Nat
      BY <3>4
    <3>7. \A p \in ApiPods : pc'[p] \in {"read", "upgrade", "unlock"} => holder' = p
      BY <3>2
    <3> QED
      BY <3>1, <3>2, <3>3, <3>4, <3>5, <3>6, <3>7
  <2>4. UnderLock'
    BY <2>1 DEF InSession
  <2>5. SchemaIsWhole'
    BY <1>14, <2>2 DEF DatabaseStops
  <2>6. Migrated'
    <3>1. \A p \in ApiPods : pc'[p] \in {"unlock", "serve"} => pc[p] = "serve"
      BY <2>1 DEF InSession
    <3>2. \A w \in Waiters : pc'[w] = "run" => pc[w] = "run"
      BY <2>1
    <3> QED
      BY <1>14, <2>2, <3>1, <3>2 DEF DatabaseStops
  <2> QED
    BY <2>3, <2>4, <2>5, <2>6
<1>15. CASE DatabaseStarts
  BY <1>15 DEF DatabaseStarts
<1>16. CASE UNCHANGED migrationVars
  BY <1>16 DEF migrationVars
<1> QED
  BY <1>1, <1>2, <1>3, <1>4, <1>5, <1>6, <1>7, <1>8, <1>9, <1>10, <1>11, <1>12, <1>13,
     <1>14, <1>15, <1>16
  DEF MigrationNext, run_migrations, wait_for_schema

\* Whatever dies, restarts or waits, the types hold, no revision is applied to
\* a schema that has it, no partial schema is visible, the API serves on the
\* newest schema, and on a first install every loop finds its tables.
\* (migrate.py and db.py)
THEOREM MigrationSafety ==
    MigrationSpec => []MigrationTypeOK /\ []NothingIsAppliedTwice /\ []SchemaIsWhole
                     /\ []ServesOnHead /\ []HasItsTables
<1>1. MigrationInit => MigrationInv
  BY MigrationStarts
<1>2. MigrationInv /\ [MigrationNext]_migrationVars => MigrationInv'
  BY MigrationSteps
<1>3. MigrationInv => /\ MigrationTypeOK /\ NothingIsAppliedTwice /\ SchemaIsWhole
                      /\ ServesOnHead /\ HasItsTables
  BY TablesOfRevisions
  DEF MigrationInv, UnderLock, Migrated, NothingIsAppliedTwice, ServesOnHead, HasItsTables,
      Pods
<1> QED
  BY <1>1, <1>2, <1>3, PTL DEF MigrationSpec
==============================================================================
