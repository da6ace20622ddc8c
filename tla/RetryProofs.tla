----------------------------- MODULE RetryProofs -----------------------------
(***************************************************************************)
(* Theorems about the retry policy, for any attempt cap and any backoff.   *)
(***************************************************************************)
EXTENDS RetryChain, FiniteSetTheorems, TLAPS

(* A retry is granted below the cap only, never to a permanent error, and to *)
(* an invalid response at the first attempt only.                            *)
LEMMA RetryGranted ==
    ASSUME NEW error \in LLMErrors, NEW n \in Nat, MayRetry(error, n)
    PROVE  n < MaxAttempts /\ error # "permanent" /\ (error = "invalid_llm_response" => n < 2)
BY RetryAssumption DEF MayRetry, Smaller, LLMErrors

(* An attempt that another one follows ended in an error worth a retry.      *)
Followed(n) == n < Len(history) \/ verdict # "failed"

ChainInv ==
    /\ history \in Seq(LLMErrors) /\ verdict \in {"running", "failed", "scored"}
    /\ AttemptsEnd
    /\ \A n \in 1 .. Len(history) :
           Followed(n) => history[n] # "permanent"
                          /\ (history[n] = "invalid_llm_response" => n = 1)

LEMMA ChainInvariant == Spec => []ChainInv
<1>1. Init => ChainInv
  BY RetryAssumption DEF Init, ChainInv, AttemptsEnd
<1>2. ChainInv /\ [Next]_chainVars => ChainInv'
  <2> SUFFICES ASSUME ChainInv, [Next]_chainVars PROVE ChainInv'
    OBVIOUS
  <2> USE DEF ChainInv, AttemptsEnd, Followed, Attempt
  <2>1. CASE UNCHANGED chainVars
    BY <2>1 DEF chainVars
  <2>2. CASE Succeed
    BY <2>2 DEF Succeed
  <2>3. ASSUME NEW error \in LLMErrors, Retry(error) PROVE ChainInv'
    <3>1. Len(history) \in Nat /\ Len(history') = Len(history) + 1
      BY <2>3 DEF Retry
    <3>2. Attempt < MaxAttempts /\ error # "permanent"
          /\ (error = "invalid_llm_response" => Attempt < 2)
      BY <2>3, <3>1, RetryGranted DEF Retry
    <3>3. history' \in Seq(LLMErrors)
      BY <2>3 DEF Retry
    <3>4. \A n \in 1 .. Len(history') :
              history'[n] = IF n = Attempt THEN error ELSE history[n]
      BY <2>3, <3>1 DEF Retry
    <3>5. verdict = "running" /\ verdict' = "running"
      BY <2>3 DEF Retry
    <3>6. AttemptsEnd'
      BY <3>1, <3>2, RetryAssumption
    <3>7. \A n \in 1 .. Len(history') :
              history'[n] # "permanent" /\ (history'[n] = "invalid_llm_response" => n = 1)
      BY <3>1, <3>2, <3>4, <3>5
    <3> QED
      BY <3>3, <3>5, <3>6, <3>7
  <2>4. ASSUME NEW error \in LLMErrors, GiveUp(error) PROVE ChainInv'
    BY <2>4, RetryAssumption DEF GiveUp
  <2> QED
    BY <2>1, <2>2, <2>3, <2>4 DEF Next
<1> QED
  BY <1>1, <1>2, PTL DEF Spec

(* The attempts of a job end at the cap at the latest, and nothing follows a *)
(* permanent error or a second invalid response.                             *)
THEOREM RetriesAreBounded == Spec => []AttemptsEnd /\ []HopelessIsLast
<1>1. ChainInv => AttemptsEnd
  BY DEF ChainInv
<1>2. ChainInv => HopelessIsLast
  BY DEF ChainInv, HopelessIsLast, InvalidAttempts, Followed
<1> QED
  BY <1>1, <1>2, ChainInvariant, PTL

------------------------------------------------------------------------------

(* A power of two is the number of subsets of a set, which doubles with each *)
(* element added.                                                            *)
LEMMA PowerNat == ASSUME NEW n \in Nat PROVE 2^n \in Nat
<1>1. IsFiniteSet(1 .. n) /\ Cardinality(1 .. n) = n
  BY FS_Interval
<1>2. IsFiniteSet(SUBSET (1 .. n)) /\ Cardinality(SUBSET (1 .. n)) = 2^n
  BY <1>1, FS_SUBSET
<1> QED
  BY <1>2, FS_CardinalityType

LEMMA PowerDoubles == ASSUME NEW n \in Nat PROVE 2^(n + 1) = 2 * 2^n
<1> DEFINE old == SUBSET (1 .. n)
           with(X) == X \cup {n + 1}
           new == {with(X) : X \in old}
           joined == [X \in old |-> with(X)]
<1>1. IsFiniteSet(old) /\ Cardinality(old) = 2^n
  <2>1. IsFiniteSet(1 .. n) /\ Cardinality(1 .. n) = n
    BY FS_Interval
  <2> QED
    BY <2>1, FS_SUBSET
<1>2. Cardinality(SUBSET (1 .. n + 1)) = 2^(n + 1)
  <2>1. IsFiniteSet(1 .. n + 1) /\ Cardinality(1 .. n + 1) = n + 1
    BY FS_Interval
  <2> QED
    BY <2>1, FS_SUBSET
<1>3. IsFiniteSet(new) /\ Cardinality(new) = Cardinality(old)
  <2>1. \A X \in old : n + 1 \notin X
    OBVIOUS
  <2>2. \A X, Y \in old : with(X) = with(Y) => X = Y
    BY <2>1
  <2>3. joined \in Bijection(old, new)
    <3>1. joined \in [old -> new]
      OBVIOUS
    <3>2. \A X, Y \in old : joined[X] = joined[Y] => X = Y
      BY <2>2
    <3>3. \A Z \in new : \E X \in old : joined[X] = Z
      OBVIOUS
    <3> HIDE DEF old, new, joined
    <3>4. joined \in Injection(old, new)
      BY <3>1, <3>2 DEF Injection, IsInjective
    <3>5. joined \in Surjection(old, new)
      BY <3>1, <3>3 DEF Surjection
    <3> QED
      BY <3>4, <3>5 DEF Bijection
  <2> QED
    BY <2>3, <1>1, FS_Bijection, Zenon DEF ExistsBijection
<1>4. SUBSET (1 .. n + 1) = old \cup new
  <2>1. \A X \in SUBSET (1 .. n + 1) : n + 1 \notin X => X \in old
    OBVIOUS
  <2>2. ASSUME NEW X \in SUBSET (1 .. n + 1), n + 1 \in X PROVE X \in new
    <3>1. X \ {n + 1} \in old
      OBVIOUS
    <3>2. X = with(X \ {n + 1})
      BY <2>2
    <3> QED
      BY <3>1, <3>2
  <2>3. \A X \in old : X \in SUBSET (1 .. n + 1) /\ with(X) \in SUBSET (1 .. n + 1)
    OBVIOUS
  <2>4. SUBSET (1 .. n + 1) \subseteq old \cup new
    BY <2>1, <2>2, Zenon
  <2>5. \A Z \in new : Z \in SUBSET (1 .. n + 1)
    BY <2>3, Zenon
  <2>6. old \cup new \subseteq SUBSET (1 .. n + 1)
    BY <2>3, <2>5, Zenon
  <2> HIDE DEF old, new
  <2> QED
    BY <2>4, <2>6, Zenon
<1>5. old \cap new = {}
  <2>1. \A X \in old : n + 1 \notin X
    OBVIOUS
  <2> QED
    BY <2>1
<1>6. Cardinality(old \cup new) = Cardinality(old) + Cardinality(new)
  <2>1. Cardinality(old \cap new) = 0
    BY <1>5, FS_EmptySet
  <2>2. Cardinality(old) \in Nat /\ Cardinality(new) \in Nat
    BY <1>1, <1>3, FS_CardinalityType
  <2>3. Cardinality(old \cup new) = Cardinality(old) + Cardinality(new) - Cardinality(old \cap new)
    BY <1>1, <1>3, FS_Union
  <2> QED
    BY <2>1, <2>2, <2>3
<1>7. 2^n \in Nat
  BY PowerNat
<1>8. 2^(n + 1) = 2^n + 2^n
  BY <1>1, <1>2, <1>3, <1>4, <1>6, Zenon
<1> HIDE DEF old, new
<1> DEFINE power == 2^n
<1>9. power \in Nat /\ 2^(n + 1) = power + power
  BY <1>7, <1>8
<1> HIDE DEF power
<1>10. power + power = 2 * power
  BY <1>9
<1> QED
  BY <1>9, <1>10 DEF power

(* The jitter takes at most half away and adds nothing.                      *)
LEMMA JitterTakesHalf ==
    ASSUME NEW capped \in Nat, NEW jitter \in 0 .. JitterSteps - 1
    PROVE  /\ (capped * (JitterSteps + jitter)) \div (2 * JitterSteps) \in Nat
           /\ (capped * (JitterSteps + jitter)) \div (2 * JitterSteps) <= capped
           /\ capped <= ((2 * capped) * (JitterSteps + jitter)) \div (2 * JitterSteps)
<1> DEFINE s == JitterSteps
<1> s \in Nat \ {0}
  BY RetryAssumption
<1>1. capped * (s + jitter) \in Nat /\ capped * (s + jitter) <= capped * (2 * s)
  OBVIOUS
<1>2. (capped * (2 * s)) \div (2 * s) = capped
  OBVIOUS
<1>3. capped * (2 * s) <= (2 * capped) * (s + jitter)
  OBVIOUS
<1> HIDE DEF s
<1>4. (capped * (s + jitter)) \div (2 * s) \in Nat
  BY <1>1
<1>5. (capped * (s + jitter)) \div (2 * s) <= capped
  BY <1>1, <1>2
<1>6. capped <= ((2 * capped) * (s + jitter)) \div (2 * s)
  BY <1>2, <1>3
<1> QED
  BY <1>4, <1>5, <1>6 DEF s

LEMMA CappedBelow ==
    ASSUME NEW n \in Nat \ {0}
    PROVE  Capped(n) \in Nat /\ Capped(n) <= MaxBackoff
<1>1. Larger(0, n - 1) = n - 1 /\ n - 1 \in Nat
  BY DEF Larger
<1>2. 2^(n - 1) \in Nat
  BY <1>1, PowerNat
<1>3. BaseBackoff * 2^(n - 1) \in Nat
  BY <1>2, RetryAssumption
<1> QED
  BY <1>1, <1>3, RetryAssumption DEF Capped, Smaller

(* While the cap is not reached, the next backoff before jitter is twice this. *)
LEMMA CappedDoubles ==
    ASSUME NEW n \in Nat \ {0}, BaseBackoff * 2^n <= MaxBackoff
    PROVE  Capped(n + 1) = 2 * Capped(n)
<1>1. Larger(0, n - 1) = n - 1 /\ n - 1 \in Nat /\ Larger(0, (n + 1) - 1) = n
  BY DEF Larger
<1>2. 2^(n - 1) \in Nat /\ 2^n = 2 * 2^(n - 1)
  <2>1. (n - 1) + 1 = n
    OBVIOUS
  <2> QED
    BY <1>1, <2>1, PowerNat, PowerDoubles
<1> DEFINE c == BaseBackoff * 2^(n - 1)
<1>3. c \in Nat /\ BaseBackoff * 2^n = 2 * c
  BY <1>2, RetryAssumption
<1>4. Capped(n) = Smaller(MaxBackoff, c) /\ Capped(n + 1) = Smaller(MaxBackoff, 2 * c)
  BY <1>1, <1>3 DEF Capped
<1> HIDE DEF c
<1>5. 2 * c <= MaxBackoff
  BY <1>3
<1> QED
  BY <1>3, <1>4, <1>5, RetryAssumption DEF Smaller

(* A backoff is at least a second and never beyond the maximum.              *)
LEMMA BackoffInRange ==
    ASSUME NEW n \in Nat \ {0}, NEW jitter \in 0 .. JitterSteps - 1
    PROVE  backoff_seconds(n, jitter) \in 1 .. MaxBackoff
<1> DEFINE d == (Capped(n) * (JitterSteps + jitter)) \div (2 * JitterSteps)
<1>1. d \in Nat /\ d <= Capped(n) /\ Capped(n) \in Nat /\ Capped(n) <= MaxBackoff
  BY CappedBelow, JitterTakesHalf
<1>2. backoff_seconds(n, jitter) = Larger(1, d)
  BY DEF backoff_seconds
<1> HIDE DEF d
<1> QED
  BY <1>1, <1>2, RetryAssumption DEF Larger

(* The shortest backoff of an attempt is the longest of the one before.      *)
LEMMA NextIsNoShorter ==
    ASSUME NEW n \in Nat \ {0}, BaseBackoff * 2^n <= MaxBackoff,
           NEW j \in 0 .. JitterSteps - 1, NEW k \in 0 .. JitterSteps - 1
    PROVE  backoff_seconds(n, j) <= backoff_seconds(n + 1, k)
<1> DEFINE c == Capped(n)
           this == (c * (JitterSteps + j)) \div (2 * JitterSteps)
           next == ((2 * c) * (JitterSteps + k)) \div (2 * JitterSteps)
           later == (c * (JitterSteps + k)) \div (2 * JitterSteps)
<1>1. c \in Nat /\ Capped(n + 1) = 2 * c
  BY CappedBelow, CappedDoubles
<1>2. this \in Nat /\ this <= c
  BY <1>1, JitterTakesHalf
<1>3. c <= next
  BY <1>1, JitterTakesHalf
<1>4. next \in Nat
  BY <1>1, JitterTakesHalf
<1>5. backoff_seconds(n, j) = Larger(1, this) /\ backoff_seconds(n + 1, k) = Larger(1, next)
  BY <1>1 DEF backoff_seconds
<1> HIDE DEF c, this, next
<1> QED
  BY <1>1, <1>2, <1>3, <1>4, <1>5 DEF Larger

(* The n-th delay is a backoff of the n-th attempt: one is drawn for each    *)
(* attempt that is retried, and no attempt follows one that is not.          *)
DelayInv ==
    /\ ChainTypeOK
    /\ verdict = "running" => Len(delays) = Len(history)
    /\ \A n \in 1 .. Len(delays) :
           \E jitter \in 0 .. JitterSteps - 1 : delays[n] = backoff_seconds(n, jitter)

LEMMA DelayInvariant == Spec => []DelayInv
<1>1. Init => DelayInv
  BY DEF Init, DelayInv, ChainTypeOK
<1>2. DelayInv /\ [Next]_chainVars => DelayInv'
  <2> SUFFICES ASSUME DelayInv, [Next]_chainVars PROVE DelayInv'
    OBVIOUS
  <2> USE DEF DelayInv, ChainTypeOK
  <2>1. CASE UNCHANGED chainVars
    BY <2>1 DEF chainVars
  <2>2. CASE Succeed
    BY <2>2 DEF Succeed
  <2>3. ASSUME NEW error \in LLMErrors, Retry(error) PROVE DelayInv'
    <3>1. PICK jitter \in 0 .. JitterSteps - 1 :
              delays' = Append(delays, backoff_seconds(Attempt, jitter))
      BY <2>3 DEF Retry
    <3>2. Attempt \in Nat \ {0} /\ Attempt = Len(delays) + 1
      BY <2>3 DEF Retry, Attempt
    <3> DEFINE d == backoff_seconds(Attempt, jitter)
    <3>3. d \in 1 .. MaxBackoff
      BY <3>2, BackoffInRange
    <3>4. delays' = Append(delays, d)
      BY <3>1
    <3>5. history' = Append(history, error) /\ verdict' = verdict /\ verdict = "running"
      BY <2>3 DEF Retry
    <3>6. \A n \in 1 .. Len(delays') :
              \E k \in 0 .. JitterSteps - 1 : delays'[n] = backoff_seconds(n, k)
      <4> SUFFICES ASSUME NEW n \in 1 .. Len(delays')
                   PROVE  \E k \in 0 .. JitterSteps - 1 : delays'[n] = backoff_seconds(n, k)
        OBVIOUS
      <4>1. CASE n = Attempt
        <5>1. delays'[n] = d
          BY <3>2, <3>3, <3>4, <4>1
        <5> QED
          BY <5>1, <4>1
      <4>2. CASE n # Attempt
        <5>1. n \in 1 .. Len(delays) /\ delays'[n] = delays[n]
          BY <3>2, <3>3, <3>4, <4>2
        <5> QED
          BY <5>1
      <4> QED
        BY <4>1, <4>2
    <3> HIDE DEF d
    <3>7. ChainTypeOK'
      BY <3>3, <3>4, <3>5
    <3>8. Len(delays') = Len(history')
      BY <3>3, <3>4, <3>5
    <3> QED
      BY <3>6, <3>7, <3>8
  <2>4. ASSUME NEW error \in LLMErrors, GiveUp(error) PROVE DelayInv'
    BY <2>4 DEF GiveUp
  <2> QED
    BY <2>1, <2>2, <2>3, <2>4 DEF Next
<1> QED
  BY <1>1, <1>2, PTL DEF Spec

(* Every wait lies between a second and the configured maximum.              *)
THEOREM ChainTypeCorrect == Spec => []ChainTypeOK
<1>1. DelayInv => ChainTypeOK
  BY DEF DelayInv
<1> QED
  BY <1>1, DelayInvariant, PTL

(* Below the maximum no wait of a job is shorter than the one before it,     *)
(* whatever the jitter, for any base and any maximum.                        *)
THEOREM WaitsGrow == Spec => []BackoffGrows
<1>1. DelayInv => BackoffGrows
  <2> SUFFICES ASSUME DelayInv, NEW n \in 1 .. Len(delays) - 1, BaseBackoff * 2^n <= MaxBackoff
               PROVE  delays[n] <= delays[n + 1]
    BY DEF BackoffGrows
  <2>1. n \in Nat \ {0} /\ n \in 1 .. Len(delays) /\ n + 1 \in 1 .. Len(delays)
    BY DEF DelayInv, ChainTypeOK
  <2>2. PICK j \in 0 .. JitterSteps - 1 : delays[n] = backoff_seconds(n, j)
    BY <2>1 DEF DelayInv
  <2>3. PICK k \in 0 .. JitterSteps - 1 : delays[n + 1] = backoff_seconds(n + 1, k)
    BY <2>1 DEF DelayInv
  <2> QED
    BY <2>1, <2>2, <2>3, NextIsNoShorter
<1> QED
  BY <1>1, DelayInvariant, PTL

==============================================================================
