----------------------------- MODULE DemoProofs -----------------------------
(***************************************************************************)
(* Theorems about the armed failures, for any number of workers, jobs,     *)
(* armed failures, attempts and workers that die.                          *)
(***************************************************************************)
EXTENDS DemoFailures, FiniteSetTheorems, TLAPS

(* A call is in the hands of one worker, and an attempt beyond the cap was   *)
(* cut short by a worker that died.                                         *)

Calling(j) == \E w \in Workers : working[w] = j

CallsAreOneEach ==
    /\ \A w \in Workers : pc[w] = "idle" <=> working[w] = NoJob
    /\ \A v, w \in Workers : working[v] = working[w] /\ working[v] # NoJob => v = w
    /\ \A w \in Workers : working[w] # NoJob => verdict[working[w]] = "pending"
                                                /\ attempts[working[w]] > 0

AttemptsAreExplained ==
    \A j \in Jobs :
        verdict[j] = "pending" /\ ~Calling(j) => attempts[j] < MaxAttempts + crashes

AttemptsAreCapped == \A j \in Jobs : attempts[j] <= MaxAttempts + crashes

CallInv ==
    /\ DemoTypeOK /\ crashes \in 0 .. MaxCrashes
    /\ CallsAreOneEach /\ AttemptsAreExplained /\ AttemptsAreCapped

\* A worker has a token from its UPDATE until its call ends.
TokensAreTaken ==
    \A w \in Workers :
        /\ pc[w] \in Modes \cup {"idle", "call"} => token[w] = NoMode
        /\ pc[w] = "inject" => token[w] \in Modes

\* A row is locked by the one worker that is about to commit its UPDATE of it, and
\* has a token for it.
RowsAreLocked ==
    \A m \in Modes, w \in Workers :
        /\ writer[m] = w <=> pc[w] = "commit" /\ token[w] = m
        /\ writer[m] = w => remaining[m] > 0

TokenInv == TokensAreTaken /\ RowsAreLocked /\ AtMostAsArmed /\ owed \in [Modes -> Int]

\* The attempts of a job that an armed failure has ended, or is about to.
InDoubt(j) == \E w \in Workers : working[w] = j /\ pc[w] # "inject"
Hits == {h \in onlyArmed \X Nat :
            /\ 1 <= h[2] /\ h[2] <= attempts[h[1]]
            /\ InDoubt(h[1]) => h[2] < attempts[h[1]]}

Owed == owed["timeout"] + owed["http_500"] + owed["malformed"]

HitsAreArmed ==
    /\ everArmed \in Nat
    /\ IsFiniteSet(Hits)
    /\ Cardinality(Hits) + Owed <= everArmed

FailedAfterRetries ==
    \A j \in onlyArmed : verdict[j] = "failed" => attempts[j] >= Smaller(2, MaxAttempts)

DemoInv == CallInv /\ TokenInv /\ HitsAreArmed /\ FailedAfterRetries
LEMMA ModeTables ==
    ASSUME NEW m \in Modes
    PROVE  /\ After[m] \in Modes \cup {"commit"}
           /\ InjectedError[m] \in {"transient", "invalid_llm_response"}
BY DEF Modes, After, InjectedError

\* What decides about another attempt.
LEMMA Retries ==
    ASSUME NEW error, NEW n \in Nat
    PROVE  /\ MayRetry(error, n) => n < MaxAttempts
           /\ error \in {"transient", "invalid_llm_response"} /\ ~MayRetry(error, n)
                 => n >= Smaller(2, MaxAttempts)
BY RetryAssumption DEF MayRetry, Smaller

------------------------------------------------------------------------------
(* Types, calls and attempts.                                               *)

\* A step that starts and ends no call.
LEMMA CallGoesOn ==
    ASSUME CallInv, DemoTypeOK',
           UNCHANGED <<working, attempts, verdict, crashes>>,
           \A w \in Workers : pc'[w] = "idle" <=> pc[w] = "idle"
    PROVE  CallInv'
<1>1. \A j \in Jobs : Calling(j)' <=> Calling(j)
  BY DEF Calling
<1>2. CallsAreOneEach'
  BY DEF CallInv, CallsAreOneEach
<1>3. AttemptsAreExplained' /\ AttemptsAreCapped'
  BY <1>1 DEF CallInv, AttemptsAreExplained, AttemptsAreCapped
<1> QED
  BY <1>2, <1>3 DEF CallInv

\* The call of a worker ends: v is the verdict about its job.
LEMMA CallEnds ==
    ASSUME CallInv, NEW w \in Workers, pc[w] # "idle", EndCall(w), UNCHANGED attempts,
           NEW v \in {"pending", "completed", "failed"},
           verdict' = [verdict EXCEPT ![working[w]] = v],
           crashes' \in 0 .. MaxCrashes, crashes <= crashes',
           v = "pending" => attempts[working[w]] < MaxAttempts + crashes',
           UNCHANGED request, onlyArmed' \subseteq onlyArmed,
           remaining' \in [Modes -> 0 .. MaxArmed],
           writer' \in [Modes -> Workers \cup {Operator, Nobody}]
    PROVE  CallInv'
<1> DEFINE j == working[w]
<1> USE DEF CallInv, DemoTypeOK
<1>1. j \in Jobs /\ verdict[j] = "pending"
  BY DEF CallsAreOneEach
<1>2. \A k \in Jobs : verdict'[k] = IF k = j THEN v ELSE verdict[k]
  BY <1>1
<1>3. /\ pc'[w] = "idle" /\ working'[w] = NoJob
      /\ \A u \in Workers : u # w => pc'[u] = pc[u] /\ working'[u] = working[u]
  BY DEF EndCall
<1>4. DemoTypeOK'
  BY <1>1 DEF EndCall
<1>5. \A u \in Workers : working'[u] # NoJob => u # w /\ working'[u] # j /\ working[u] \in Jobs
  BY <1>1, <1>3, DemoAssumption DEF CallsAreOneEach
<1>6. CallsAreOneEach'
  BY <1>2, <1>3, <1>5 DEF CallsAreOneEach
<1>7. \A k \in Jobs : k # j /\ ~Calling(k)' => ~Calling(k)
  BY <1>3 DEF Calling
<1>8. \A k \in Jobs : attempts[k] \in Nat
  BY DemoAssumption, RetryAssumption
<1>9. crashes \in Nat /\ crashes' \in Nat /\ MaxAttempts \in Nat
  BY DemoAssumption, RetryAssumption
<1>10. AttemptsAreExplained' /\ AttemptsAreCapped'
  BY <1>2, <1>7, <1>8, <1>9 DEF AttemptsAreExplained, AttemptsAreCapped
<1> QED
  BY <1>4, <1>6, <1>10

LEMMA CallStep ==
    ASSUME CallInv, TokenInv, [DemoNext]_demoVars
    PROVE  CallInv'
<1> USE DEF CallInv, DemoTypeOK
<1>1. MaxArmed \in Nat /\ MaxCrashes \in Nat /\ MaxAttempts \in Nat \ {0}
  BY DemoAssumption, RetryAssumption
<1>2. \A who : Released(who) \in [Modes -> Workers \cup {Operator, Nobody}]
  BY DEF Released
<1>3. CASE UNCHANGED demoVars
  BY <1>3, CallGoesOn DEF demoVars, tokenVars, callVars, jobVars
<1>4. CASE OperatorNext
  <2>1. UNCHANGED <<pc, token, working, attempts, verdict, onlyArmed, crashes>>
    BY <1>4
    DEF OperatorNext, Arm, Clear, LockRow, CommitRequest, RequestFails, callVars, jobVars
  <2>2. DemoTypeOK'
    <3>1. request' \in [Modes -> 0 .. Keep]
      BY <1>1, <1>4
      DEF OperatorNext, Arm, Clear, LockRow, CommitRequest, RequestFails, Keep
    <3>2. remaining' \in [Modes -> 0 .. MaxArmed]
      BY <1>1, <1>4
      DEF OperatorNext, Arm, Clear, LockRow, CommitRequest, RequestFails, Keep, NewCount, Asked
    <3>3. writer' \in [Modes -> Workers \cup {Operator, Nobody}]
      BY <1>2, <1>4 DEF OperatorNext, Arm, Clear, LockRow, CommitRequest, RequestFails
    <3> QED
      BY <2>1, <3>1, <3>2, <3>3
  <2> QED
    BY <2>1, <2>2, CallGoesOn
<1>5. ASSUME NEW w \in Workers, NEW j \in Jobs, StartCall(w, j) PROVE CallInv'
  <2>1. verdict[j] = "pending" /\ ~Calling(j) /\ attempts[j] < MaxAttempts + crashes
    BY <1>5 DEF StartCall, Calling, AttemptsAreExplained
  <2>2. /\ pc'[w] = "timeout" /\ working'[w] = j
        /\ \A u \in Workers : u # w => pc'[u] = pc[u] /\ working'[u] = working[u]
        /\ \A k \in Jobs : attempts'[k] = IF k = j THEN attempts[k] + 1 ELSE attempts[k]
    BY <1>5 DEF StartCall
  <2>3. \A k \in Jobs : attempts[k] \in Nat
    BY <1>1
  <2>4. DemoTypeOK'
    BY <1>1, <1>5, <2>1, <2>3 DEF StartCall, tokenVars, Modes
  <2>5. CallsAreOneEach'
    BY <1>5, <2>1, <2>2, <2>3, DemoAssumption DEF StartCall, CallsAreOneEach, Calling
  <2>6. Calling(j)' /\ \A k \in Jobs : k # j => (Calling(k) => Calling(k)')
    BY <1>5, <2>2, DemoAssumption DEF StartCall, Calling, CallsAreOneEach
  <2>7. AttemptsAreExplained' /\ AttemptsAreCapped' /\ crashes' = crashes
    BY <1>1, <1>5, <2>1, <2>2, <2>3, <2>6 DEF StartCall, AttemptsAreExplained, AttemptsAreCapped
  <2> QED
    BY <2>4, <2>5, <2>7
<1>6. ASSUME NEW w \in Workers,
             TakeToken(w) \/ NoneLeft(w) \/ CommitConsume(w) \/ ConsumeFails(w)
      PROVE  CallInv'
  <2>1. UNCHANGED <<working, attempts, verdict, crashes, onlyArmed, request>>
    BY <1>6 DEF TakeToken, NoneLeft, CommitConsume, ConsumeFails, tokenVars, jobVars
  <2>2. pc' \in [Workers -> Modes \cup {"idle", "commit", "inject", "call"}]
    BY <1>6, ModeTables DEF TakeToken, NoneLeft, CommitConsume, ConsumeFails
  <2>3. \A v \in Workers : pc'[v] = "idle" <=> pc[v] = "idle"
    BY <1>6, ModeTables DEF TakeToken, NoneLeft, CommitConsume, ConsumeFails, Modes
  <2>4. token' \in [Workers -> Modes \cup {NoMode}]
    BY <1>6 DEF TakeToken, NoneLeft, CommitConsume, ConsumeFails, tokenVars
  <2>5. writer' \in [Modes -> Workers \cup {Operator, Nobody}]
    BY <1>2, <1>6 DEF TakeToken, NoneLeft, CommitConsume, ConsumeFails, tokenVars
  <2>6. \A m \in Modes : remaining[m] > 0 => OneTaken(m) \in [Modes -> 0 .. MaxArmed]
    BY <1>1 DEF OneTaken
  <2>7. pc[w] = "commit" /\ token[w] # NoMode => token[w] \in Modes /\ remaining[token[w]] > 0
    BY DEF TokenInv, RowsAreLocked
  <2>8. remaining' \in [Modes -> 0 .. MaxArmed]
    <3>1. CASE TakeToken(w) \/ NoneLeft(w)
      BY <3>1 DEF TakeToken, NoneLeft, tokenVars
    <3>2. CASE CommitConsume(w)
      BY <3>2, <2>6, <2>7 DEF CommitConsume
    <3>3. CASE ConsumeFails(w)
      BY <3>3, <2>6, <2>7 DEF ConsumeFails, TokenInv, TokensAreTaken
    <3> QED
      BY <1>6, <3>1, <3>2, <3>3
  <2> QED
    BY <2>1, <2>2, <2>3, <2>4, <2>5, <2>8, CallGoesOn
<1>7. ASSUME NEW w \in Workers, pc[w] # "idle", EndCall(w), NEW error, Failed(working[w], error),
             UNCHANGED <<attempts, crashes, remaining, writer, request>>,
             onlyArmed' \subseteq onlyArmed
      PROVE  CallInv'
  <2>1. working[w] \in Jobs /\ verdict[working[w]] = "pending" /\ attempts[working[w]] \in Nat
    BY <1>1, <1>7 DEF CallsAreOneEach
  <2> DEFINE v == IF MayRetry(error, attempts[working[w]]) THEN "pending" ELSE "failed"
  <2>2. verdict' = [verdict EXCEPT ![working[w]] = v]
    BY <1>7, <2>1 DEF Failed
  <2>3. v = "pending" => attempts[working[w]] < MaxAttempts + crashes
    BY <1>1, <2>1, Retries
  <2>4. v \in {"pending", "completed", "failed"}
    OBVIOUS
  <2>5. /\ remaining' \in [Modes -> 0 .. MaxArmed]
        /\ writer' \in [Modes -> Workers \cup {Operator, Nobody}]
        /\ crashes' \in 0 .. MaxCrashes /\ crashes' = crashes /\ crashes <= crashes'
    BY <1>1, <1>7
  <2> HIDE DEF v, CallInv, DemoTypeOK
  <2> QED
    BY <1>7, <2>2, <2>3, <2>4, <2>5, CallEnds
<1>8. ASSUME NEW w \in Workers, Inject(w) PROVE CallInv'
  BY <1>7, <1>8 DEF Inject, tokenVars
<1>9. ASSUME NEW w \in Workers, CallProvider(w) PROVE CallInv'
  <2>1. CASE verdict' = [verdict EXCEPT ![working[w]] = "completed"]
    <3>1. /\ remaining' \in [Modes -> 0 .. MaxArmed]
          /\ writer' \in [Modes -> Workers \cup {Operator, Nobody}]
          /\ crashes' \in 0 .. MaxCrashes /\ crashes <= crashes'
      BY <1>1, <1>9 DEF CallProvider, tokenVars
    <3>2. /\ pc[w] # "idle" /\ EndCall(w) /\ UNCHANGED <<attempts, request>>
          /\ onlyArmed' \subseteq onlyArmed
      BY <1>9 DEF CallProvider, tokenVars
    <3> HIDE DEF CallInv, DemoTypeOK
    <3> QED
      BY <2>1, <3>1, <3>2, CallEnds
  <2>2. ASSUME NEW answer, Failed(working[w], ErrorOf(answer)) PROVE CallInv'
    BY <1>7, <1>9, <2>2 DEF CallProvider, tokenVars
  <2> QED
    BY <1>9, <2>1, <2>2 DEF CallProvider
<1>10. ASSUME NEW w \in Workers, CrashInCall(w) PROVE CallInv'
  <2>1. working[w] \in Jobs /\ verdict[working[w]] = "pending" /\ attempts[working[w]] \in Nat
    BY <1>1, <1>10 DEF CrashInCall, CallsAreOneEach
  <2>2. verdict' = [verdict EXCEPT ![working[w]] = "pending"]
    BY <1>10, <2>1 DEF CrashInCall
  <2>3. attempts[working[w]] < MaxAttempts + crashes'
    BY <1>1, <1>10, <2>1 DEF CrashInCall, AttemptsAreCapped
  <2>4. crashes' \in 0 .. MaxCrashes /\ crashes <= crashes'
    BY <1>1, <1>10 DEF CrashInCall
  <2> QED
    BY <1>2, <1>10, <2>2, <2>3, <2>4, CallEnds DEF CrashInCall
<1> QED
  BY <1>3, <1>4, <1>5, <1>6, <1>8, <1>9, <1>10 DEF DemoNext, GoOn

------------------------------------------------------------------------------
(* Rows and tokens.                                                         *)

\* Whoever ends a transaction lets go of the rows it has locked, and no others.
LEMMA RowsReleased ==
    ASSUME DemoTypeOK, NEW who, who # Nobody, writer' = Released(who)
    PROVE  \A m \in Modes : /\ writer[m] = who => writer'[m] = Nobody
                            /\ writer[m] # who => writer'[m] = writer[m]
BY DEF DemoTypeOK, Released

\* A worker's step that ends no transaction on a row and takes no lock.
LEMMA TokensStay ==
    ASSUME DemoTypeOK, TokenInv, UNCHANGED <<remaining, writer, owed>>,
           NEW w \in Workers,
           \A v \in Workers : v # w => pc'[v] = pc[v] /\ token'[v] = token[v],
           pc[w] = "commit" => token[w] = NoMode,
           pc'[w] = "commit" => token'[w] = NoMode,
           pc'[w] \in Modes \cup {"idle", "call"} => token'[w] = NoMode,
           pc'[w] = "inject" => token'[w] \in Modes
    PROVE  TokenInv'
<1> USE DEF TokenInv
<1>1. TokensAreTaken'
  BY DEF TokensAreTaken
<1>2. RowsAreLocked'
  BY DemoAssumption DEF RowsAreLocked
<1> QED
  BY <1>1, <1>2 DEF AtMostAsArmed

\* A transaction of a worker ends: it lets go of its row, and the count of the row
\* goes down by one or stays.
LEMMA RowLetGo ==
    ASSUME DemoTypeOK, TokenInv, NEW w \in Workers, pc'[w] \notin {"commit"} \cup Modes,
           writer' = Released(w),
           \A v \in Workers : v # w => pc'[v] = pc[v] /\ token'[v] = token[v],
           pc'[w] \in {"idle", "call"} => token'[w] = NoMode,
           pc'[w] = "inject" => token'[w] \in Modes,
           owed' \in [Modes -> Int],
           \A m \in Modes : /\ writer[m] # w => remaining'[m] = remaining[m]
                            /\ remaining'[m] <= owed'[m] /\ owed'[m] >= 0
    PROVE  TokenInv'
<1> USE DEF TokenInv
<1>1. TokensAreTaken'
  BY DEF TokensAreTaken
<1>2. \A m \in Modes : /\ writer[m] = w => writer'[m] = Nobody
                       /\ writer[m] # w => writer'[m] = writer[m]
  BY RowsReleased, DemoAssumption
<1>3. RowsAreLocked'
  BY <1>2, DemoAssumption DEF RowsAreLocked
<1> QED
  BY <1>1, <1>3 DEF AtMostAsArmed

LEMMA TokenStep ==
    ASSUME CallInv, TokenInv, [DemoNext]_demoVars
    PROVE  TokenInv'
<1> USE DEF TokenInv
<1>1. DemoTypeOK /\ MaxArmed \in Nat
  BY DemoAssumption DEF CallInv
<1>2. \A m \in Modes : remaining[m] \in Nat /\ owed[m] \in Int
  BY <1>1 DEF DemoTypeOK
<1>3. CASE UNCHANGED demoVars
  BY <1>3 DEF demoVars, tokenVars, callVars, TokensAreTaken, RowsAreLocked, AtMostAsArmed
<1>4. CASE OperatorNext
  <2>1. UNCHANGED <<pc, token>>
    BY <1>4 DEF OperatorNext, Arm, Clear, LockRow, CommitRequest, RequestFails, callVars
  <2>2. \A m \in Modes, w \in Workers : writer'[m] = w <=> writer[m] = w
    <3>1. CASE CommitRequest \/ RequestFails
      <4>1. writer' = Released(Operator)
        BY <3>1 DEF CommitRequest, RequestFails
      <4> QED
        BY <1>1, <4>1, RowsReleased, DemoAssumption
    <3>2. CASE Clear
      BY <3>2 DEF Clear
    <3>3. ASSUME NEW m \in Modes, writer[m] = Nobody, writer' = [writer EXCEPT ![m] = Operator]
          PROVE  \A n \in Modes, w \in Workers : writer'[n] = w <=> writer[n] = w
      BY <1>1, <3>3, DemoAssumption DEF DemoTypeOK
    <3> QED
      BY <1>4, <3>1, <3>2, <3>3 DEF OperatorNext, Arm, LockRow
  <2>3. \A m \in Modes : \/ remaining'[m] = remaining[m] /\ owed'[m] = owed[m]
                         \/ /\ writer[m] = Operator
                            /\ remaining'[m] = request[m] /\ owed'[m] = request[m]
                            /\ request[m] \in Nat
    BY <1>1, <1>4
    DEF OperatorNext, Arm, Clear, LockRow, CommitRequest, RequestFails, NewCount, Asked, Keep,
        DemoTypeOK
  <2>4. owed' \in [Modes -> Int]
    BY <1>1, <1>4
    DEF OperatorNext, Arm, Clear, LockRow, CommitRequest, RequestFails, DemoTypeOK
  <2>5. RowsAreLocked'
    BY <2>1, <2>2, <2>3, DemoAssumption DEF RowsAreLocked
  <2>6. AtMostAsArmed'
    BY <1>2, <2>3 DEF AtMostAsArmed
  <2> QED
    BY <2>1, <2>4, <2>5, <2>6 DEF TokensAreTaken
<1>5. ASSUME NEW w \in Workers, NEW j \in Jobs, StartCall(w, j) PROVE TokenInv'
  <2>1. /\ pc[w] = "idle" /\ pc'[w] = "timeout" /\ token' = token
        /\ \A v \in Workers : v # w => pc'[v] = pc[v]
        /\ UNCHANGED <<remaining, writer, owed>>
    BY <1>1, <1>5 DEF StartCall, tokenVars, DemoTypeOK
  <2> QED
    BY <1>1, <2>1, TokensStay DEF TokensAreTaken
<1>6. ASSUME NEW w \in Workers, NoneLeft(w) PROVE TokenInv'
  <2>1. /\ pc[w] \in Modes /\ pc'[w] \in Modes \cup {"commit"} /\ token' = token
        /\ \A v \in Workers : v # w => pc'[v] = pc[v]
        /\ UNCHANGED <<remaining, writer, owed>>
    BY <1>1, <1>6, ModeTables DEF NoneLeft, tokenVars, DemoTypeOK
  <2>2. token[w] = NoMode
    BY <2>1 DEF TokensAreTaken
  <2> QED
    BY <1>1, <2>1, <2>2, TokensStay DEF Modes
<1>7. ASSUME NEW w \in Workers, TakeToken(w) PROVE TokenInv'
  <2> DEFINE n == pc[w]
  <2>1. /\ n \in Modes /\ remaining[n] > 0 /\ writer[n] = Nobody
        /\ pc'[w] = "commit" /\ token'[w] = n
        /\ \A v \in Workers : v # w => pc'[v] = pc[v] /\ token'[v] = token[v]
        /\ \A m \in Modes : writer'[m] = IF m = n THEN w ELSE writer[m]
        /\ UNCHANGED <<remaining, owed>>
    BY <1>1, <1>7 DEF TakeToken, MayTake, DemoTypeOK
  <2>2. token[w] = NoMode /\ NoMode \notin Modes
    BY <2>1, DemoAssumption DEF TokensAreTaken
  <2>3. TokensAreTaken'
    BY <2>1 DEF TokensAreTaken, Modes
  <2>4. RowsAreLocked'
    BY <2>1, <2>2, DemoAssumption DEF RowsAreLocked
  <2> QED
    BY <2>1, <2>3, <2>4 DEF AtMostAsArmed
<1>8. ASSUME NEW w \in Workers, CommitConsume(w) PROVE TokenInv'
  <2>1. \A v \in Workers : v # w => pc'[v] = pc[v] /\ token'[v] = token[v]
    BY <1>1, <1>8 DEF CommitConsume, DemoTypeOK
  <2>2. CASE token[w] = NoMode
    BY <1>1, <1>8, <2>1, <2>2, TokensStay DEF CommitConsume, DemoTypeOK
  <2>3. CASE token[w] # NoMode
    <3> DEFINE n == token[w]
    <3>1. n \in Modes /\ writer[n] = w /\ remaining[n] > 0
      BY <1>1, <1>8, <2>3 DEF CommitConsume, DemoTypeOK, RowsAreLocked
    <3>2. /\ pc'[w] = "inject" /\ token' = token /\ writer' = Released(w)
          /\ owed' = [owed EXCEPT ![n] = @ - 1]
          /\ \A m \in Modes : /\ remaining'[m] = IF m = n THEN remaining[m] - 1 ELSE remaining[m]
                              /\ owed'[m] = IF m = n THEN owed[m] - 1 ELSE owed[m]
      BY <1>1, <1>8, <2>3, <3>1 DEF CommitConsume, OneTaken, DemoTypeOK
    <3>3. owed' \in [Modes -> Int]
      BY <1>2, <3>1, <3>2
    <3>4. \A m \in Modes : /\ writer[m] # w => remaining'[m] = remaining[m]
                           /\ remaining'[m] <= owed'[m] /\ owed'[m] >= 0
      BY <1>2, <3>1, <3>2 DEF AtMostAsArmed
    <3>5. pc'[w] \notin {"commit"} \cup Modes
      BY <3>2 DEF Modes
    <3> QED
      BY <1>1, <2>1, <3>1, <3>2, <3>3, <3>4, <3>5, RowLetGo
  <2> QED
    BY <2>2, <2>3
<1>9. ASSUME NEW w \in Workers, ConsumeFails(w) PROVE TokenInv'
  <2>1. /\ pc'[w] = "call" /\ token'[w] = NoMode /\ writer' = Released(w) /\ owed' = owed
        /\ \A v \in Workers : v # w => pc'[v] = pc[v] /\ token'[v] = token[v]
    BY <1>1, <1>9 DEF ConsumeFails, DemoTypeOK
  <2>2. \A m \in Modes : /\ writer[m] # w => remaining'[m] = remaining[m]
                         /\ remaining'[m] <= remaining[m]
    <3>1. CASE remaining' = remaining
      BY <1>2, <3>1
    <3>2. CASE token[w] # NoMode /\ remaining' = OneTaken(token[w])
      <4>1. token[w] \in Modes /\ writer[token[w]] = w
        BY <1>1, <1>9, <3>2 DEF ConsumeFails, DemoTypeOK, TokensAreTaken, RowsAreLocked
      <4> QED
        BY <1>1, <1>2, <3>2, <4>1 DEF OneTaken, DemoTypeOK
    <3> QED
      BY <1>9, <3>1, <3>2 DEF ConsumeFails
  <2>3. \A m \in Modes : remaining'[m] <= owed'[m] /\ owed'[m] >= 0
    <3>1. \A m \in Modes : remaining'[m] \in Int
      BY <1>1, <1>2, <1>9 DEF ConsumeFails, OneTaken, DemoTypeOK
    <3> QED
      BY <1>2, <2>1, <2>2, <3>1 DEF AtMostAsArmed
  <2>4. pc'[w] \notin {"commit"} \cup Modes
    BY <2>1 DEF Modes
  <2> QED
    BY <1>1, <2>1, <2>2, <2>3, <2>4, RowLetGo
<1>10. ASSUME NEW w \in Workers, Inject(w) \/ CallProvider(w) PROVE TokenInv'
  <2>1. /\ pc[w] \in {"inject", "call"} /\ pc'[w] = "idle" /\ token'[w] = NoMode
        /\ \A v \in Workers : v # w => pc'[v] = pc[v] /\ token'[v] = token[v]
        /\ UNCHANGED <<remaining, writer, owed>>
    BY <1>1, <1>10 DEF Inject, CallProvider, EndCall, tokenVars, DemoTypeOK
  <2> QED
    BY <1>1, <2>1, TokensStay
<1>11. ASSUME NEW w \in Workers, CrashInCall(w) PROVE TokenInv'
  <2>1. /\ pc'[w] = "idle" /\ token'[w] = NoMode /\ writer' = Released(w)
        /\ \A v \in Workers : v # w => pc'[v] = pc[v] /\ token'[v] = token[v]
        /\ UNCHANGED <<remaining, owed>>
    BY <1>1, <1>11 DEF CrashInCall, EndCall, DemoTypeOK
  <2>2. pc'[w] \notin {"commit"} \cup Modes
    BY <2>1 DEF Modes
  <2>3. \A m \in Modes : remaining'[m] <= owed'[m] /\ owed'[m] >= 0
    BY <2>1 DEF AtMostAsArmed
  <2> QED
    BY <1>1, <2>1, <2>2, <2>3, RowLetGo
<1> QED
  BY <1>3, <1>4, <1>5, <1>6, <1>7, <1>8, <1>9, <1>10, <1>11 DEF DemoNext, GoOn

------------------------------------------------------------------------------
(* Armed failures and the attempts they ended.                              *)

LEMMA OwedTypes ==
    ASSUME TokenInv
    PROVE  /\ Owed \in Int /\ Owed >= 0
           /\ \A m \in Modes : owed[m] \in Int /\ owed[m] >= 0
BY DEF TokenInv, AtMostAsArmed, Owed, Modes

\* No attempt more is ended by an armed failure, and what is owed grows by no more
\* than is armed.
LEMMA HitsKept ==
    ASSUME TokenInv, HitsAreArmed, Hits' \subseteq Hits, everArmed' \in Nat, Owed' \in Int,
           Owed' - Owed <= everArmed' - everArmed
    PROVE  HitsAreArmed'
<1>1. IsFiniteSet(Hits') /\ Cardinality(Hits') <= Cardinality(Hits)
      /\ Cardinality(Hits') \in Nat /\ Cardinality(Hits) \in Nat
  BY FS_Subset, FS_CardinalityType DEF HitsAreArmed
<1>2. everArmed \in Nat /\ Owed \in Int /\ Cardinality(Hits) + Owed <= everArmed
  BY OwedTypes DEF HitsAreArmed
<1>3. ASSUME NEW a \in Nat, NEW b \in Nat, NEW x \in Int, NEW y \in Int,
             NEW n \in Nat, NEW k \in Nat, a <= b, b + x <= n, y - x <= k - n
      PROVE  a + y <= k
  BY <1>3
<1>4. Cardinality(Hits') + Owed' <= everArmed'
  BY <1>1, <1>2, <1>3
<1> QED
  BY <1>1, <1>4 DEF HitsAreArmed

\* The attempts of the jobs that only armed failures have hit stay as they are.
LEMMA HitsStay ==
    ASSUME onlyArmed' \subseteq onlyArmed,
           \A j \in onlyArmed' : /\ attempts'[j] = attempts[j]
                                 /\ InDoubt(j) => InDoubt(j)'
    PROVE  Hits' \subseteq Hits
BY DEF Hits

LEMMA HitStep ==
    ASSUME CallInv, TokenInv, TokenInv', HitsAreArmed, FailedAfterRetries, [DemoNext]_demoVars
    PROVE  HitsAreArmed' /\ FailedAfterRetries'
<1>1. DemoTypeOK /\ everArmed \in Nat /\ Owed \in Int /\ Owed' \in Int
  BY DEF CallInv, HitsAreArmed, TokenInv, Owed, Modes
<1>2. \A j \in Jobs : attempts[j] \in Nat
  BY <1>1, DemoAssumption, RetryAssumption DEF CallInv, DemoTypeOK, CallsAreOneEach
(* Steps that end no attempt by an armed failure, nor arm or use one.        *)
<1>3. ASSUME UNCHANGED <<owed, everArmed>>, onlyArmed' \subseteq onlyArmed,
             \A j \in onlyArmed' : /\ attempts'[j] = attempts[j]
                                   /\ InDoubt(j) => InDoubt(j)'
      PROVE  HitsAreArmed'
  <2>1. Owed' = Owed
    BY <1>3 DEF Owed
  <2> QED
    BY <1>1, <1>3, <2>1, HitsStay, HitsKept
<1>4. ASSUME UNCHANGED <<attempts, verdict, onlyArmed>> PROVE FailedAfterRetries'
  BY <1>4 DEF FailedAfterRetries
<1>5. CASE UNCHANGED demoVars
  <2>1. UNCHANGED <<owed, everArmed, onlyArmed, attempts, verdict, pc, working>>
    BY <1>5 DEF demoVars, tokenVars, callVars, jobVars
  <2>2. \A j : InDoubt(j)' <=> InDoubt(j)
    BY <2>1 DEF InDoubt
  <2> QED
    BY <1>3, <1>4, <2>1, <2>2
<1>6. CASE OperatorNext
  <2>1. UNCHANGED <<pc, working, attempts, verdict, onlyArmed>>
    BY <1>6
    DEF OperatorNext, Arm, Clear, LockRow, CommitRequest, RequestFails, callVars, jobVars
  <2>2. \A j : InDoubt(j)' <=> InDoubt(j)
    BY <2>1 DEF InDoubt
  <2>3. CASE CommitRequest
    <3> DEFINE added(m) == IF m \in Asked THEN request[m] ELSE 0
    <3>1. \A m \in Modes : added(m) \in Nat /\ owed'[m] <= owed[m] + added(m) /\ owed'[m] \in Int
      BY <1>1, <2>3, OwedTypes, DemoAssumption DEF CommitRequest, DemoTypeOK, Asked, Keep
    <3>2. everArmed' = everArmed + added("timeout") + added("http_500") + added("malformed")
      BY <2>3 DEF CommitRequest
    <3> HIDE DEF added
    <3>3. everArmed' \in Nat /\ Owed' - Owed <= everArmed' - everArmed
      BY <1>1, <3>1, <3>2, OwedTypes DEF Owed, Modes
    <3>4. Hits' \subseteq Hits
      BY <2>1, <2>2, HitsStay
    <3> QED
      BY <1>1, <1>4, <2>1, <3>3, <3>4, HitsKept
  <2>4. CASE ~CommitRequest
    <3>1. UNCHANGED <<owed, everArmed>>
      BY <1>6, <2>4 DEF OperatorNext, Arm, Clear, LockRow, RequestFails
    <3> QED
      BY <1>3, <1>4, <2>1, <2>2, <3>1
  <2> QED
    BY <2>3, <2>4
<1>7. ASSUME NEW w \in Workers, NEW j \in Jobs, StartCall(w, j)
      PROVE  HitsAreArmed' /\ FailedAfterRetries'
  <2>1. /\ verdict[j] = "pending" /\ ~InDoubt(j)
        /\ UNCHANGED <<owed, everArmed, onlyArmed, verdict>>
        /\ \A k \in Jobs : attempts'[k] = IF k = j THEN attempts[k] + 1 ELSE attempts[k]
    BY <1>1, <1>7 DEF StartCall, InDoubt, tokenVars, DemoTypeOK
  <2>2. pc[w] = "idle" /\ working[w] = NoJob
    BY <1>7 DEF StartCall, CallInv, CallsAreOneEach
  <2>3. /\ pc'[w] = "timeout" /\ working'[w] = j
        /\ \A v \in Workers : v # w => pc'[v] = pc[v] /\ working'[v] = working[v]
    BY <1>1, <1>7 DEF StartCall, DemoTypeOK
  <2>4. InDoubt(j)' /\ \A k \in Jobs : k # j => (InDoubt(k) => InDoubt(k)')
    BY <2>2, <2>3, DemoAssumption DEF InDoubt
  <2>5. Hits' \subseteq Hits
    <3> SUFFICES ASSUME NEW h \in Hits' PROVE h \in Hits
      OBVIOUS
    <3>1. /\ h \in onlyArmed \X Nat /\ h[1] \in Jobs /\ h[2] \in Nat
          /\ 1 <= h[2] /\ h[2] <= attempts'[h[1]]
          /\ InDoubt(h[1])' => h[2] < attempts'[h[1]]
      BY <1>1, <2>1 DEF Hits, DemoTypeOK
    <3>2. CASE h[1] = j
      <4>1. h[2] < attempts[j] + 1
        BY <2>1, <2>4, <3>1, <3>2
      <4> QED
        BY <1>2, <2>1, <3>1, <3>2, <4>1 DEF Hits
    <3>3. CASE h[1] # j
      BY <2>1, <2>4, <3>1, <3>3 DEF Hits
    <3> QED
      BY <3>2, <3>3
  <2>6. Owed' = Owed
    BY <2>1 DEF Owed
  <2>7. FailedAfterRetries'
    BY <1>1, <2>1 DEF FailedAfterRetries, DemoTypeOK
  <2> QED
    BY <1>1, <2>1, <2>5, <2>6, <2>7, HitsKept
<1>8. ASSUME NEW w \in Workers,
             \/ TakeToken(w) \/ NoneLeft(w) \/ ConsumeFails(w)
             \/ CommitConsume(w) /\ token[w] = NoMode
      PROVE  HitsAreArmed' /\ FailedAfterRetries'
  <2>1. UNCHANGED <<working, attempts, verdict, onlyArmed, owed, everArmed>>
    BY <1>8 DEF TakeToken, NoneLeft, CommitConsume, ConsumeFails, tokenVars, jobVars
  <2>2. pc'[w] # "inject" /\ \A v \in Workers : v # w => pc'[v] = pc[v]
    BY <1>1, <1>8, ModeTables
    DEF TakeToken, NoneLeft, CommitConsume, ConsumeFails, DemoTypeOK, Modes
  <2>3. \A j : InDoubt(j) => InDoubt(j)'
    BY <2>1, <2>2 DEF InDoubt
  <2> QED
    BY <1>3, <1>4, <2>1, <2>3
<1>9. ASSUME NEW w \in Workers, CommitConsume(w), token[w] # NoMode
      PROVE  HitsAreArmed' /\ FailedAfterRetries'
  <2> DEFINE j == working[w]
             x == <<j, attempts[j]>>
  <2>1. token[w] \in Modes
    BY <1>1, <1>9 DEF DemoTypeOK
  <2>2. /\ pc[w] = "commit" /\ owed' = [owed EXCEPT ![token[w]] = @ - 1]
        /\ UNCHANGED <<working, attempts, verdict, onlyArmed, everArmed>>
        /\ \A v \in Workers : v # w => pc'[v] = pc[v]
    BY <1>1, <1>9 DEF CommitConsume, jobVars, DemoTypeOK
  <2>3. Owed' = Owed - 1
    BY <2>1, <2>2, OwedTypes DEF Owed, Modes, TokenInv
  <2>4. Hits' \subseteq Hits \cup {x}
    <3> SUFFICES ASSUME NEW h \in Hits', h # x PROVE h \in Hits
      OBVIOUS
    <3>1. /\ h \in onlyArmed \X Nat /\ h[1] \in Jobs /\ h[2] \in Nat
          /\ 1 <= h[2] /\ h[2] <= attempts[h[1]]
          /\ InDoubt(h[1])' => h[2] < attempts[h[1]]
      BY <1>1, <2>2 DEF Hits, DemoTypeOK
    <3>2. CASE h[1] = j
      <4>1. h[2] # attempts[j]
        BY <3>1, <3>2
      <4> QED
        BY <1>2, <3>1, <3>2, <4>1 DEF Hits
    <3>3. CASE h[1] # j
      <4>1. InDoubt(h[1]) => InDoubt(h[1])'
        BY <2>2, <3>3 DEF InDoubt
      <4> QED
        BY <3>1, <4>1 DEF Hits
    <3> QED
      BY <3>2, <3>3
  <2>5. /\ IsFiniteSet(Hits') /\ Cardinality(Hits') \in Nat /\ Cardinality(Hits) \in Nat
        /\ Cardinality(Hits') <= Cardinality(Hits) + 1
    <3>1. IsFiniteSet(Hits) /\ Cardinality(Hits) \in Nat
      BY FS_CardinalityType DEF HitsAreArmed
    <3>2. IsFiniteSet(Hits \cup {x}) /\ Cardinality(Hits \cup {x}) \in Nat
          /\ Cardinality(Hits \cup {x}) <= Cardinality(Hits) + 1
      <4> HIDE DEF x
      <4>1. IsFiniteSet(Hits \cup {x})
            /\ Cardinality(Hits \cup {x}) \in {Cardinality(Hits), Cardinality(Hits) + 1}
        BY <3>1, FS_AddElement
      <4> QED
        BY <3>1, <4>1
    <3>3. IsFiniteSet(Hits') /\ Cardinality(Hits') <= Cardinality(Hits \cup {x})
      BY <2>4, <3>2, FS_Subset
    <3>4. Cardinality(Hits') \in Nat
      BY <3>3, FS_CardinalityType
    <3> QED
      BY <3>1, <3>2, <3>3, <3>4
  <2>6. HitsAreArmed'
    BY <1>1, <2>2, <2>3, <2>5 DEF HitsAreArmed
  <2> QED
    BY <1>4, <2>2, <2>6
<1>10. ASSUME NEW w \in Workers, Inject(w) PROVE HitsAreArmed' /\ FailedAfterRetries'
  <2> DEFINE j == working[w]
  <2>1. /\ pc[w] = "inject" /\ pc'[w] = "idle" /\ working'[w] = NoJob
        /\ \A v \in Workers : v # w => pc'[v] = pc[v] /\ working'[v] = working[v]
        /\ UNCHANGED <<owed, everArmed, attempts, onlyArmed>>
    BY <1>1, <1>10 DEF Inject, EndCall, tokenVars, DemoTypeOK
  <2>2. \A k : InDoubt(k) => InDoubt(k)'
    BY <2>1 DEF InDoubt
  <2>3. /\ j \in Jobs /\ verdict[j] = "pending"
        /\ InjectedError[token[w]] \in {"transient", "invalid_llm_response"}
    BY <1>1, <2>1, ModeTables
    DEF CallInv, CallsAreOneEach, DemoTypeOK, TokenInv, TokensAreTaken
  <2>4. verdict'[j] = "failed" => attempts[j] >= Smaller(2, MaxAttempts)
    BY <1>1, <1>2, <1>10, <2>3, Retries DEF Inject, Failed, DemoTypeOK
  <2>5. \A k \in Jobs : k # j => verdict'[k] = verdict[k]
    BY <1>1, <1>10, <2>3 DEF Inject, Failed, DemoTypeOK
  <2>6. FailedAfterRetries'
    BY <1>1, <2>1, <2>4, <2>5 DEF FailedAfterRetries, DemoTypeOK
  <2> QED
    BY <1>3, <2>1, <2>2, <2>6
<1>11. ASSUME NEW w \in Workers, CallProvider(w) \/ CrashInCall(w)
       PROVE  HitsAreArmed' /\ FailedAfterRetries'
  <2> DEFINE j == working[w]
  <2>1. /\ onlyArmed' = onlyArmed \ {j}
        /\ \A v \in Workers : v # w => pc'[v] = pc[v] /\ working'[v] = working[v]
        /\ UNCHANGED <<owed, everArmed, attempts>>
    BY <1>1, <1>11 DEF CallProvider, CrashInCall, EndCall, tokenVars, DemoTypeOK
  <2>2. \A k \in onlyArmed' : InDoubt(k) => InDoubt(k)'
    BY <2>1 DEF InDoubt
  <2>3. \A k \in Jobs : k # j => verdict'[k] = verdict[k]
    BY <1>1, <1>11 DEF CallProvider, CrashInCall, Failed, DemoTypeOK
  <2>4. FailedAfterRetries'
    BY <1>1, <2>1, <2>3 DEF FailedAfterRetries, DemoTypeOK
  <2> QED
    BY <1>3, <2>1, <2>2, <2>4
<1>12. ASSUME NEW w \in Workers, GoOn(w) PROVE HitsAreArmed' /\ FailedAfterRetries'
  <2>1. CASE CommitConsume(w)
    BY <1>8, <1>9, <2>1
  <2>2. CASE TakeToken(w) \/ NoneLeft(w) \/ ConsumeFails(w)
    BY <1>8, <2>2
  <2>3. CASE Inject(w) \/ CallProvider(w)
    BY <1>10, <1>11, <2>3
  <2> QED
    BY <1>12, <2>1, <2>2, <2>3 DEF GoOn
<1> QED
  BY <1>5, <1>6, <1>7, <1>11, <1>12 DEF DemoNext

\* A failed job that only armed failures have hit has used up Smaller(2, MaxAttempts)
\* of them.
LEMMA FailuresAreHits ==
    ASSUME DemoInv
    PROVE  FewFailuresAreAbsorbed
<1> DEFINE F == {j \in onlyArmed : verdict[j] = "failed"}
           c == Smaller(2, MaxAttempts)
<1>1. c \in Nat /\ c >= 1
  BY RetryAssumption DEF Smaller
<1>2. F \X (1 .. c) \subseteq Hits
  <2> SUFFICES ASSUME NEW j \in F, NEW n \in 1 .. c PROVE <<j, n>> \in Hits
    OBVIOUS
  <2>1. j \in Jobs /\ j # NoJob /\ attempts[j] \in Nat /\ attempts[j] >= c
    BY DemoAssumption, RetryAssumption DEF DemoInv, CallInv, DemoTypeOK, FailedAfterRetries
  <2>2. ~InDoubt(j)
    BY <2>1 DEF InDoubt, DemoInv, CallInv, CallsAreOneEach
  <2> HIDE DEF c
  <2> QED
    BY <1>1, <2>1, <2>2 DEF Hits
<1>3. IsFiniteSet(Hits) /\ Cardinality(Hits) \in Nat
  BY FS_CardinalityType DEF DemoInv, HitsAreArmed
<1>4. IsFiniteSet(F)
  <2> DEFINE f == [j \in F |-> <<j, 1>>]
  <2>1. f \in Injection(F, Hits)
    BY <1>1, <1>2 DEF Injection, IsInjective
  <2> QED
    BY <1>3, <2>1, FS_Injection
<1>5. Cardinality(F \X (1 .. c)) = Cardinality(F) * c
  <2> HIDE DEF F, c
  <2>1. IsFiniteSet(1 .. c) /\ Cardinality(1 .. c) = IF 1 > c THEN 0 ELSE c - 1 + 1
    BY <1>1, FS_Interval
  <2>2. Cardinality(1 .. c) = c
    BY <1>1, <2>1
  <2> QED
    BY <1>4, <2>1, <2>2, FS_Product
<1>6. Cardinality(F \X (1 .. c)) <= Cardinality(Hits)
  BY <1>2, <1>3, FS_Subset
<1>7. Cardinality(Hits) <= everArmed
  BY <1>3, OwedTypes DEF DemoInv, HitsAreArmed
<1>8. Cardinality(F) * c \in Nat /\ everArmed \in Nat
  BY <1>1, <1>4, FS_CardinalityType DEF DemoInv, HitsAreArmed
<1> HIDE DEF F, c
<1>9. Cardinality(F) * c <= everArmed
  BY <1>3, <1>5, <1>6, <1>7, <1>8
<1> QED
  BY <1>9 DEF FewFailuresAreAbsorbed, F, c

LEMMA DemoInvInit == DemoInit => DemoInv
<1> SUFFICES ASSUME DemoInit PROVE DemoInv
  OBVIOUS
<1>1. CallInv
  BY DemoAssumption, RetryAssumption
  DEF DemoInit, CallInv, DemoTypeOK, CallsAreOneEach, AttemptsAreExplained, AttemptsAreCapped, Keep
<1>2. TokenInv
  BY DemoAssumption
  DEF DemoInit, TokenInv, TokensAreTaken, RowsAreLocked, AtMostAsArmed, Modes
<1>3. Hits = {}
  BY DEF DemoInit, Hits
<1>4. HitsAreArmed
  BY <1>3, FS_EmptySet DEF DemoInit, HitsAreArmed, Owed, Modes
<1>5. FailedAfterRetries
  BY DEF DemoInit, FailedAfterRetries
<1> QED
  BY <1>1, <1>2, <1>4, <1>5 DEF DemoInv

LEMMA DemoInvariant == DemoSpec => []DemoInv
<1>1. DemoInv /\ [DemoNext]_demoVars => DemoInv'
  BY CallStep, TokenStep, HitStep DEF DemoInv
<1> QED
  BY <1>1, DemoInvInit, PTL DEF DemoSpec

(* Each token fails one call: however workers, operator and lost commits      *)
(* interleave, a mode fails no more calls than its last arming asked for.     *)
THEOREM TokensAreUsedOnce == DemoSpec => []AtMostAsArmed
<1>1. DemoInv => AtMostAsArmed
  BY DEF DemoInv, TokenInv
<1> QED
  BY <1>1, DemoInvariant, PTL

(* Jobs that only armed failures have hit fail only when two were armed for   *)
(* each (one, with a single attempt), for any caps, workers and jobs.         *)
THEOREM ArmedFailuresAreAbsorbed == DemoSpec => []FewFailuresAreAbsorbed
<1>1. DemoInv => FewFailuresAreAbsorbed
  BY FailuresAreHits
<1> QED
  BY <1>1, DemoInvariant, PTL

=============================================================================
