--------------------------- MODULE ScoringPromise ---------------------------
(***************************************************************************)
(* What the pipeline promises about a job, whatever the queue does: the    *)
(* state machine of docs/architecture-local.md, lines 46-58, with the      *)
(* worker that owns the attempt made explicit.  Only the owner records an  *)
(* outcome, a job has one owner at a time, and an outcome is final.        *)
(***************************************************************************)
EXTENDS Naturals

CONSTANTS Jobs, Workers, Nobody

VARIABLES state, owner

promiseVars == <<state, owner>>

Init ==
    /\ state = [j \in Jobs |-> "pending"]
    /\ owner = [j \in Jobs |-> Nobody]

\* An unowned job, new or abandoned, is taken for one attempt.
Take(j, w) ==
    /\ state[j] \in {"pending", "processing"} /\ owner[j] = Nobody
    /\ \A k \in Jobs : owner[k] # w
    /\ state' = [state EXCEPT ![j] = "processing"]
    /\ owner' = [owner EXCEPT ![j] = w]

\* The owner ends its attempt: a score, a final failure, or back to pending.
Record(j, outcome) ==
    /\ state[j] = "processing" /\ owner[j] # Nobody
    /\ state' = [state EXCEPT ![j] = outcome]
    /\ owner' = [owner EXCEPT ![j] = Nobody]

\* The owner is gone; the job stays "processing" until somebody takes it.
Abandon(j) ==
    /\ owner[j] # Nobody
    /\ owner' = [owner EXCEPT ![j] = Nobody]
    /\ UNCHANGED state

Next == \E j \in Jobs :
    \/ \E w \in Workers : Take(j, w)
    \/ \E outcome \in {"completed", "failed", "pending"} : Record(j, outcome)
    \/ Abandon(j)

Spec == Init /\ [][Next]_promiseVars

==============================================================================
