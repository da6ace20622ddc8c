---------------------------- MODULE DemoFailures ----------------------------
(***************************************************************************)
(* The scoring calls of several workers through FaultInjectingProvider     *)
(* (backend/app/demo.py) and OpenAIProvider (backend/app/scoring/          *)
(* provider.py), while an operator arms and clears failures                *)
(* (backend/app/api/demo.py).                                              *)
(*                                                                         *)
(* A token is counted in the row of its mode.  An UPDATE keeps its row     *)
(* locked until its transaction ends; another UPDATE of the row waits and  *)
(* then looks again, unless the committed count is 0 and it passes the row *)
(* by (READ COMMITTED).  pc[w] is what worker w does next:                 *)
(*   idle    take a job        <a mode>  consume's UPDATE of that mode     *)
(*   commit  end consume       inject    fail as the token says            *)
(*   call    call the real provider                                        *)
(***************************************************************************)
EXTENDS RetryPolicy, FiniteSets

CONSTANTS Workers, Jobs, NoJob, NoMode, Nobody, Operator,
          MaxArmed,    \* bound: failures armed in all
          MaxCrashes   \* bound: workers that die in a call

VARIABLES remaining,   \* the committed count of each mode
          writer,      \* who holds the lock of its row
          request,     \* the operator's transaction: the new count of each
                       \* mode it sets, or Keep
          pc, token,   \* of each worker; token is the mode of the token it took
          working,     \* the job each worker scores
          attempts, verdict,
          onlyArmed,   \* the jobs whose attempts all ended with an armed failure
          owed,        \* of each mode: the last count armed, less the calls
                       \* that were bound to fail since
          everArmed, crashes

tokenVars == <<remaining, writer, request, owed, everArmed>>
callVars == <<pc, token, working>>
jobVars == <<attempts, verdict, onlyArmed>>
demoVars == <<tokenVars, callVars, jobVars, crashes>>

Modes == {"timeout", "http_500", "malformed"}

ASSUME DemoAssumption ==
    /\ NoJob \notin Jobs /\ NoMode \notin Modes
    /\ Nobody \notin Workers /\ Operator \notin Workers /\ Nobody # Operator
    /\ MaxArmed \in Nat /\ MaxCrashes \in Nat

Keep == MaxArmed + 1

\* consume tries the modes in the order FailureMode declares them.
After == [timeout |-> "http_500", http_500 |-> "malformed", malformed |-> "commit"]

\* What an armed failure raises; the malformed payload is refused by the contract.
InjectedError ==
    [timeout |-> "transient", http_500 |-> "transient", malformed |-> "invalid_llm_response"]

DemoTypeOK ==
    /\ remaining \in [Modes -> 0 .. MaxArmed]
    /\ writer \in [Modes -> Workers \cup {Operator, Nobody}]
    /\ request \in [Modes -> 0 .. Keep]
    /\ pc \in [Workers -> Modes \cup {"idle", "commit", "inject", "call"}]
    /\ token \in [Workers -> Modes \cup {NoMode}]
    /\ working \in [Workers -> Jobs \cup {NoJob}]
    /\ attempts \in [Jobs -> 0 .. MaxAttempts + MaxCrashes]
    /\ verdict \in [Jobs -> {"pending", "completed", "failed"}]
    /\ onlyArmed \subseteq Jobs

DemoInit ==
    /\ remaining = [m \in Modes |-> 0] /\ writer = [m \in Modes |-> Nobody]
    /\ request = [m \in Modes |-> Keep]
    /\ pc = [w \in Workers |-> "idle"] /\ token = [w \in Workers |-> NoMode]
    /\ working = [w \in Workers |-> NoJob]
    /\ attempts = [j \in Jobs |-> 0] /\ verdict = [j \in Jobs |-> "pending"]
    /\ onlyArmed = Jobs
    /\ owed = [m \in Modes |-> 0]
    /\ everArmed = 0 /\ crashes = 0

------------------------------------------------------------------------------
(* The operator: one transaction per request, committed by get_db.         *)

Asked == {m \in Modes : request[m] # Keep}
Released(who) == [m \in Modes |-> IF writer[m] = who THEN Nobody ELSE writer[m]]

\* POST /demo/llm-failure: the count of one mode, whatever it was before.  While
\* it waits for the row it has no effect.
Arm(m, count) ==
    /\ Asked = {} /\ everArmed + count <= MaxArmed
    /\ writer[m] = Nobody
    /\ request' = [request EXCEPT ![m] = count]
    /\ writer' = [writer EXCEPT ![m] = Operator]
    /\ UNCHANGED <<remaining, owed, everArmed, callVars, jobVars, crashes>>

\* DELETE /demo/llm-failure: one UPDATE that comes to the rows one by one.
Clear ==
    /\ Asked = {}
    /\ request' = [m \in Modes |-> 0]
    /\ UNCHANGED <<remaining, writer, owed, everArmed, callVars, jobVars, crashes>>

LockRow(m) ==
    /\ m \in Asked /\ writer[m] = Nobody
    /\ writer' = [writer EXCEPT ![m] = Operator]
    /\ UNCHANGED <<remaining, request, owed, everArmed, callVars, jobVars, crashes>>

\* Mutant: the count is added to what is armed.
NewCountAdded(m) == IF m \in Asked THEN Smaller(MaxArmed, remaining[m] + request[m]) ELSE remaining[m]

NewCount(m) == IF m \in Asked THEN request[m] ELSE remaining[m]

CommitRequest ==
    /\ Asked # {} /\ \A m \in Asked : writer[m] = Operator
    /\ remaining' = [m \in Modes |-> NewCount(m)]
    /\ owed' = [m \in Modes |-> IF m \in Asked THEN request[m] ELSE owed[m]]
    /\ LET added(m) == IF m \in Asked THEN request[m] ELSE 0
       IN  everArmed' = everArmed + added("timeout") + added("http_500") + added("malformed")
    /\ writer' = Released(Operator) /\ request' = [m \in Modes |-> Keep]
    /\ UNCHANGED <<callVars, jobVars, crashes>>

\* An exception, or the statement timeout while it waits for a row.
RequestFails ==
    /\ Asked # {}
    /\ writer' = Released(Operator) /\ request' = [m \in Modes |-> Keep]
    /\ UNCHANGED <<remaining, owed, everArmed, callVars, jobVars, crashes>>
------------------------------------------------------------------------------
(* The workers.                                                            *)

\* A claimed job comes to provider.score; its claim keeps the others away.
StartCall(w, j) ==
    /\ pc[w] = "idle" /\ verdict[j] = "pending" /\ \A v \in Workers : working[v] # j
    /\ pc' = [pc EXCEPT ![w] = "timeout"]
    /\ working' = [working EXCEPT ![w] = j]
    /\ attempts' = [attempts EXCEPT ![j] = @ + 1]
    /\ UNCHANGED <<tokenVars, token, verdict, onlyArmed, crashes>>

MayTake(m) == remaining[m] > 0 /\ writer[m] = Nobody

\* consume's UPDATE of mode pc[w].
TakeToken(w) ==
    /\ pc[w] \in Modes /\ MayTake(pc[w])
    /\ writer' = [writer EXCEPT ![pc[w]] = w]
    /\ token' = [token EXCEPT ![w] = pc[w]]
    /\ pc' = [pc EXCEPT ![w] = "commit"]
    /\ UNCHANGED <<remaining, request, owed, everArmed, working, jobVars, crashes>>

NoneLeft(w) ==
    /\ pc[w] \in Modes /\ remaining[pc[w]] = 0
    /\ pc' = [pc EXCEPT ![w] = After[@]]
    /\ UNCHANGED <<tokenVars, token, working, jobVars, crashes>>

\* Mutants: the decrement is lost, and nothing ends a wait for a row.
OneTakenNone(m) == remaining
ConsumeFailsNever(w) == FALSE

OneTaken(m) == [remaining EXCEPT ![m] = @ - 1]

CommitConsume(w) ==
    /\ pc[w] = "commit"
    /\ IF token[w] = NoMode
          THEN /\ pc' = [pc EXCEPT ![w] = "call"]
               /\ UNCHANGED <<remaining, writer, owed>>
          ELSE /\ pc' = [pc EXCEPT ![w] = "inject"]
               /\ remaining' = OneTaken(token[w])
               /\ writer' = Released(w)
               /\ owed' = [owed EXCEPT ![token[w]] = @ - 1]
    /\ UNCHANGED <<request, everArmed, token, working, jobVars, crashes>>

\* Whatever raises in _next_failure, the statement timeout of an UPDATE that
\* waits included, leads to the real provider.  A commit that raises may have
\* been carried out.
ConsumeFails(w) ==
    /\ pc[w] \in Modes \cup {"commit"}
    /\ remaining' \in {remaining} \cup {OneTaken(m) : m \in {token[w]} \ {NoMode}}
    /\ writer' = Released(w)
    /\ token' = [token EXCEPT ![w] = NoMode]
    /\ pc' = [pc EXCEPT ![w] = "call"]
    /\ UNCHANGED <<request, owed, everArmed, working, jobVars, crashes>>

\* The worker puts the call's outcome into the row and lets go of the job.
EndCall(w) ==
    /\ pc' = [pc EXCEPT ![w] = "idle"]
    /\ token' = [token EXCEPT ![w] = NoMode]
    /\ working' = [working EXCEPT ![w] = NoJob]

Failed(j, error) ==
    verdict' = [verdict EXCEPT ![j] = IF MayRetry(error, attempts[j]) THEN @ ELSE "failed"]

Inject(w) ==
    /\ pc[w] = "inject" /\ EndCall(w)
    /\ Failed(working[w], InjectedError[token[w]])
    /\ UNCHANGED <<tokenVars, attempts, onlyArmed, crashes>>

\* What OpenAIProvider.score can meet: the exceptions classify_provider_error
\* tells apart, a response without a result, one that breaks the contract.
Refusals == {"refused_request", "status_4xx"}
Outages == {"timeout", "rate_limit", "server_error", "connection", "status_429",
            "status_5xx", "unrecognised"}
BadAnswers == {"no_result", "off_contract"}

classify_provider_error(exc) == IF exc \in Refusals THEN "permanent" ELSE "transient"

ErrorOf(answer) ==
    IF answer \in BadAnswers THEN "invalid_llm_response" ELSE classify_provider_error(answer)

CallProvider(w) ==
    /\ pc[w] = "call" /\ EndCall(w)
    /\ \/ verdict' = [verdict EXCEPT ![working[w]] = "completed"]
       \/ \E answer \in Refusals \cup Outages \cup BadAnswers :
              Failed(working[w], ErrorOf(answer))
    /\ onlyArmed' = onlyArmed \ {working[w]}
    /\ UNCHANGED <<tokenVars, attempts, crashes>>

\* The worker dies: PostgreSQL rolls its transaction back, and the claim of
\* its job runs out.  A token whose consumption is committed is gone.
CrashInCall(w) ==
    /\ pc[w] # "idle" /\ crashes < MaxCrashes /\ crashes' = crashes + 1
    /\ EndCall(w) /\ writer' = Released(w)
    /\ onlyArmed' = onlyArmed \ {working[w]}
    /\ UNCHANGED <<remaining, request, owed, everArmed, attempts, verdict>>

OperatorNext ==
    \/ \E m \in Modes, count \in 0 .. MaxArmed : Arm(m, count)
    \/ Clear \/ CommitRequest \/ RequestFails
    \/ \E m \in Modes : LockRow(m)

GoOn(w) ==
    \/ TakeToken(w) \/ NoneLeft(w) \/ CommitConsume(w) \/ ConsumeFails(w)
    \/ Inject(w) \/ CallProvider(w)

DemoNext ==
    \/ OperatorNext
    \/ \E w \in Workers : GoOn(w) \/ CrashInCall(w) \/ \E j \in Jobs : StartCall(w, j)

\* A worker in a call goes on, for statements and provider calls have timeouts;
\* an UPDATE that waits for a row is ended by its timeout (ConsumeFails).  Nothing
\* is assumed of the operator's requests.
DemoSpec == DemoInit /\ [][DemoNext]_demoVars /\ \A w \in Workers : WF_demoVars(GoOn(w))

------------------------------------------------------------------------------

\* "exactly one call consumes each token" (demo.py:17, models.py:208): no more
\* calls fail by a mode than its last arming asked for, whoever else consumes,
\* arms or clears meanwhile.
AtMostAsArmed == \A m \in Modes : remaining[m] <= owed[m] /\ owed[m] >= 0

\* "One armed failure is absorbed by a retry" (DECISIONS.md:274): jobs that
\* nothing but armed failures has hit fail only when enough were armed for each
\* of them, however the tokens fell.
FewFailuresAreAbsorbed ==
    Cardinality({j \in onlyArmed : verdict[j] = "failed"}) * Smaller(2, MaxAttempts) <= everArmed

\* "A failure to reach the database here must not break scoring" (demo.py:156):
\* every scoring call ends, even while a request of the operator hangs with the
\* rows locked.
ScoringGoesOn == \A w \in Workers : pc[w] # "idle" ~> pc[w] = "idle"

==============================================================================
