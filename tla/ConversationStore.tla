-------------------------- MODULE ConversationStore --------------------------
(***************************************************************************)
(* The conversations table (backend/app/models.py) and the statements of   *)
(* backend/app/repository.py that write it.  Each operator below is one    *)
(* conditional UPDATE: PostgreSQL at READ COMMITTED runs such a statement  *)
(* on a single row atomically, so it is one step.                          *)
(*                                                                         *)
(* Time is a countdown.  claim_job writes locked_until = now() + Visibility*)
(* and a later claim needs locked_until < now(), strictly: the claim is    *)
(* out of the way Visibility + 1 ticks after it was taken.  lock[j] = 0    *)
(* stands for locked_until IS NULL and for one that has passed, which the  *)
(* claim statement treats alike.                                           *)
(***************************************************************************)
EXTENDS Naturals

CONSTANTS Jobs,         \* the ids of the rows
          Visibility    \* settings.visibility_timeout_seconds, in ticks

ASSUME VisibilityAssumption == Visibility \in Nat \ {0}

VARIABLES status,       \* "absent" while no committed row is visible to others
          attempts,     \* attempt_count
          lock,         \* ticks until locked_until has passed
          result,       \* the attempt whose score the row holds, 0 for none
          lastError     \* last_error_type, with the transient ones as one kind

storeVars == <<status, attempts, lock, result, lastError>>

Unfinished == {"pending", "processing"}
TERMINAL_STATUSES == {"completed", "failed"}
JobStatus == Unfinished \cup TERMINAL_STATUSES

\* What decide_retry may record, and what the publishing side records.
ErrorType == {"transient", "permanent", "invalid_llm_response",
              "max_attempts_exhausted", "enqueue_failed"}
NoError == "none"

StoreTypeOK ==
    /\ status \in [Jobs -> JobStatus \cup {"absent"}]
    /\ attempts \in [Jobs -> Nat]
    /\ lock \in [Jobs -> 0 .. Visibility + 1]
    /\ result \in [Jobs -> Nat]
    /\ lastError \in [Jobs -> ErrorType \cup {NoError}]

\* Every row starts in the status given: "pending" when the system under study
\* starts from committed jobs, "absent" when it creates them itself.
StoreInit(initial) ==
    /\ status = [j \in Jobs |-> initial]
    /\ attempts = [j \in Jobs |-> 0]
    /\ lock = [j \in Jobs |-> 0]
    /\ result = [j \in Jobs |-> 0]
    /\ lastError = [j \in Jobs |-> NoError]

------------------------------------------------------------------------------

\* The row becomes visible to other transactions in the status it was left in.
InsertJob(j, s, e) ==
    /\ status[j] = "absent"
    /\ status' = [status EXCEPT ![j] = s]
    /\ lastError' = [lastError EXCEPT ![j] = e]
    /\ UNCHANGED <<attempts, lock, result>>

\* Mutants: a claim that forgets the lock, and one that forgets the status.
ClaimableLocked(j) == status[j] \in Unfinished
ClaimableFinished(j) == status[j] # "absent" /\ lock[j] = 0

Claimable(j) == status[j] \in Unfinished /\ lock[j] = 0

\* Mutants: locked_until <= now() instead of <, and a claim that is too long.
claim_job_short(j) ==
    /\ status' = [status EXCEPT ![j] = "processing"]
    /\ attempts' = [attempts EXCEPT ![j] = @ + 1]
    /\ lock' = [lock EXCEPT ![j] = Visibility]
    /\ UNCHANGED <<result, lastError>>

claim_job_long(j) ==
    /\ status' = [status EXCEPT ![j] = "processing"]
    /\ attempts' = [attempts EXCEPT ![j] = @ + 1]
    /\ lock' = [lock EXCEPT ![j] = Visibility + 2]
    /\ UNCHANGED <<result, lastError>>

claim_job(j) ==
    /\ status' = [status EXCEPT ![j] = "processing"]
    /\ attempts' = [attempts EXCEPT ![j] = @ + 1]
    /\ lock' = [lock EXCEPT ![j] = Visibility + 1]
    /\ UNCHANGED <<result, lastError>>

Completable(j) == status[j] = "processing"

\* Mutant: the error of an earlier attempt stays in the row.
complete_job_keeping_error(j, attempt) ==
    /\ status' = [status EXCEPT ![j] = "completed"]
    /\ result' = [result EXCEPT ![j] = attempt]
    /\ lock' = [lock EXCEPT ![j] = 0]
    /\ UNCHANGED <<attempts, lastError>>

complete_job(j, attempt) ==
    /\ status' = [status EXCEPT ![j] = "completed"]
    /\ result' = [result EXCEPT ![j] = attempt]
    /\ lastError' = [lastError EXCEPT ![j] = NoError]
    /\ lock' = [lock EXCEPT ![j] = 0]
    /\ UNCHANGED attempts

\* The status that releases and failures need, and the row they leave.
Releasable(j) == status[j] = "processing"
FailableFinished(j) == status[j] # "absent"     \* mutant: no status guard
Failable(j) == status[j] \in Unfinished

\* Mutant: the claim is left in the row.
RecordErrorLocked(j, s, e) ==
    /\ status' = [status EXCEPT ![j] = s]
    /\ lastError' = [lastError EXCEPT ![j] = e]
    /\ UNCHANGED <<attempts, lock, result>>

RecordError(j, s, e) ==
    /\ status' = [status EXCEPT ![j] = s]
    /\ lastError' = [lastError EXCEPT ![j] = e]
    /\ lock' = [lock EXCEPT ![j] = 0]
    /\ UNCHANGED <<attempts, result>>

\* The caller ignores whether the row was updated: no row is a no-op.
release_job_for_retry(j, e) ==
    \/ Releasable(j) /\ RecordError(j, "pending", e)
    \/ ~Releasable(j) /\ UNCHANGED storeVars

fail_job(j, e) ==
    \/ Failable(j) /\ RecordError(j, "failed", e)
    \/ ~Failable(j) /\ UNCHANGED storeVars

\* No condition on the status, and the claim is left alone.
mark_enqueue_failed(j) ==
    /\ status' = [status EXCEPT ![j] = "failed"]
    /\ lastError' = [lastError EXCEPT ![j] = "enqueue_failed"]
    /\ UNCHANGED <<attempts, lock, result>>

\* now() advances by one tick.
Countdown(n) == IF n = 0 THEN 0 ELSE n - 1

StoreTick ==
    /\ lock' = [j \in Jobs |-> Countdown(lock[j])]
    /\ UNCHANGED <<status, attempts, result, lastError>>

==============================================================================
