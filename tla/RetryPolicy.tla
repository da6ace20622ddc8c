----------------------------- MODULE RetryPolicy -----------------------------
(***************************************************************************)
(* backoff_seconds and decide_retry of backend/app/worker.py, and the part *)
(* of an LLMError they look at: its class (backend/app/scoring/provider.py)*)
(* The random number in [0, 1) is Jitter / JitterSteps, with Jitter in     *)
(* 0 .. JitterSteps - 1.                                                   *)
(***************************************************************************)
EXTENDS Integers

CONSTANTS MaxAttempts,      \* settings.max_attempts
          BaseBackoff,      \* settings.retry_base_backoff_seconds
          MaxBackoff,       \* settings.retry_max_backoff_seconds
          JitterSteps

\* The ranges backend/app/config.py enforces, without their upper ends.
ASSUME RetryAssumption ==
    /\ MaxAttempts \in Nat \ {0}
    /\ BaseBackoff \in Nat \ {0}
    /\ MaxBackoff \in Nat \ {0}
    /\ JitterSteps \in Nat \ {0}

\* LLMPermanentError, LLMInvalidResponseError and every other LLMError.
LLMErrors == {"permanent", "invalid_llm_response", "transient"}

Smaller(a, b) == IF a < b THEN a ELSE b
Larger(a, b) == IF a > b THEN a ELSE b

Capped(attempt) == Smaller(MaxBackoff, BaseBackoff * 2^Larger(0, attempt - 1))

\* Mutants: full jitter, and no floor.
backoff_full_jitter(attempt, jitter) ==
    Larger(1, (Capped(attempt) * jitter) \div JitterSteps)

backoff_no_floor(attempt, jitter) ==
    (Capped(attempt) * (JitterSteps + jitter)) \div (2 * JitterSteps)

\* int(capped * (0.5 + 0.5 * jitter)), at least one second.
backoff_seconds(attempt, jitter) ==
    Larger(1, (Capped(attempt) * (JitterSteps + jitter)) \div (2 * JitterSteps))

\* The delays an attempt can draw; none is beyond MaxBackoff.
BackoffDelays(attempt) ==
    {d \in 1 .. MaxBackoff : \E jitter \in 0 .. JitterSteps - 1 :
                                 d = backoff_seconds(attempt, jitter)}

\* Mutants: no cap, and a cap off by one.
MayAlwaysRetry(error, attempt) == error # "permanent"
MayRetryOnceMore(error, attempt) == error # "permanent" /\ attempt <= MaxAttempts

MayRetry(error, attempt) ==
    \/ error = "invalid_llm_response" /\ attempt < Smaller(2, MaxAttempts)
    \/ error = "transient" /\ attempt < MaxAttempts

\* The error type that goes into the row with the decision.
RecordedError(error, attempt) ==
    IF error = "transient" /\ attempt >= MaxAttempts
      THEN "max_attempts_exhausted" ELSE error

==============================================================================
