----------------------------- MODULE RetryChain -----------------------------
(***************************************************************************)
(* The failed attempts of one job that no fault disturbs: attempt n is the *)
(* n-th call of _handle_failure (backend/app/worker.py), which decides with*)
(* decide_retry and, for a retry, draws a backoff.                         *)
(***************************************************************************)
EXTENDS RetryPolicy, Sequences, FiniteSets

VARIABLES history,  \* the errors of the attempts so far
          delays,   \* the backoff drawn after each of them that is retried
          verdict   \* "running", "failed", or "scored"

chainVars == <<history, delays, verdict>>

Attempt == Len(history) + 1

ChainTypeOK ==
    /\ history \in Seq(LLMErrors)
    /\ delays \in Seq(1 .. MaxBackoff)
    /\ verdict \in {"running", "failed", "scored"}

Init == history = <<>> /\ delays = <<>> /\ verdict = "running"

Retry(error) ==
    /\ verdict = "running" /\ MayRetry(error, Attempt)
    /\ history' = Append(history, error)
    /\ \E jitter \in 0 .. JitterSteps - 1 :
           delays' = Append(delays, backoff_seconds(Attempt, jitter))
    /\ UNCHANGED verdict

GiveUp(error) ==
    /\ verdict = "running" /\ ~MayRetry(error, Attempt)
    /\ history' = Append(history, error)
    /\ verdict' = "failed"
    /\ UNCHANGED delays

Succeed ==
    /\ verdict = "running" /\ verdict' = "scored"
    /\ UNCHANGED <<history, delays>>

Next == Succeed \/ \E error \in LLMErrors : Retry(error) \/ GiveUp(error)

Spec == Init /\ [][Next]_chainVars

------------------------------------------------------------------------------

InvalidAttempts == {n \in DOMAIN history : history[n] = "invalid_llm_response"}

\* "After max_attempts (3) the job is failed" (DECISIONS.md:109): the attempts
\* end, and at the cap at the latest.
AttemptsEnd == Len(history) <= MaxAttempts /\ (Len(history) = MaxAttempts => verdict # "running")

\* A permanent error and the second invalid response end the job; no attempt
\* follows either (DECISIONS.md:111).
HopelessIsLast ==
    \A n \in DOMAIN history :
        (history[n] = "permanent" \/ (\E k \in InvalidAttempts : n \in InvalidAttempts /\ k < n))
            => n = Len(history) /\ verdict = "failed"

\* Below the cap a later wait is never shorter than the one before, whatever
\* jitter each draws: doubling makes up for the half that jitter may take off.
BackoffGrows ==
    \A n \in 1 .. Len(delays) - 1 :
        BaseBackoff * 2^n <= MaxBackoff => delays[n] <= delays[n + 1]

==============================================================================
