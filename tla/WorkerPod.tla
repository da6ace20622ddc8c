------------------------------ MODULE WorkerPod ------------------------------
(***************************************************************************)
(* One worker pod in time: main and the loop of backend/app/worker.py, the *)
(* heartbeat file (backend/app/heartbeat.py), the client of the queue and  *)
(* its cached URL (backend/app/queue.py), which the thread that answers    *)
(* the metrics scrapes shares, and the kubelet, which probes the file and  *)
(* stops the container (helm/convoscore/templates/worker.yaml).            *)
(*                                                                         *)
(* A step of the process ends at any time up to its limit (Limit), in      *)
(* ticks, unless it hangs.  pc is what the process is at:                  *)
(*   database, schema   wait_for_schema      gauges   install_queue_gauges *)
(*   pass               the head of run_forever's while                    *)
(*   url, return, answer   queue_url resolves, queue_url returns, and the  *)
(*                      answer of the SQS operation "call"                 *)
(*   claim, load, score, persist   the steps of process                    *)
(*   sleep              _sleep after a failed pass                         *)
(* One message at a time; which outcome it has does not matter here.       *)
(***************************************************************************)
EXTENDS Naturals

CONSTANTS ReceiveLimit,   \* of receive_message: the long poll and its answer
          CallLimit,      \* of the other SQS calls, get_queue_url among them
          DatabaseLimit,  \* of a transaction
          ScoreLimit,     \* of the provider call
          WaitLimit,      \* timeout_seconds of the waits at start-up
          StartupLimit,   \* periodSeconds * failureThreshold of the startupProbe
          MaxAge,         \* --max-age of the probes
          ProbeWindow,    \* from the first to the last of the failureThreshold
                          \* liveness probes in a row
          ProbePeriod,
          GraceLimit,     \* terminationGracePeriodSeconds
          FaultKinds,     \* which of "hang", "crash", "database", "queue", "rollout",
                          \* "unexpected"
          MaxFaults       \* bound: faults in all

ASSUME PodAssumption ==
    /\ {ReceiveLimit, CallLimit, DatabaseLimit, ScoreLimit, WaitLimit, StartupLimit,
        MaxAge, ProbeWindow, ProbePeriod, GraceLimit} \subseteq Nat \ {0}
    /\ MaxFaults \in Nat

VARIABLES pc, call,    \* of the process
          spent,       \* ticks in this step
          stuck,       \* the step will never end
          stop,        \* _stop: SIGTERM was heard
          errors,      \* consecutive_queue_errors, at most MaxErrors
          url,         \* _queue_url of the shared SqsQueue
          using,       \* the URL of the loop's call
          scraping,    \* the URL of the scrape's call
          beat,        \* the age of the heartbeat file
          started,     \* the startupProbe has succeeded
          age,         \* of the container, until it has
          ending,      \* the kubelet stops the container, to restart or replace it
          grace,       \* ticks until SIGKILL
          since,       \* the messages in hand since SIGTERM was heard
          dbUp, queueUp, faults

processVars == <<pc, call, spent, stuck, stop, errors>>
clientVars == <<url, using, scraping>>
kubeletVars == <<started, age, ending, grace, since>>
worldVars == <<dbUp, queueUp>>
podVars == <<processVars, clientVars, kubeletVars, worldVars, beat, faults>>

StartUp == {"database", "schema", "gauges"}
AtWork == {"claim", "load", "score", "persist"}
Steps == StartUp \cup AtWork \cup {"pass", "url", "return", "answer", "sleep"}
Calls == {"receive", "delete", "change_visibility"}
Urls == {"None", "current", "gone"}
MaxErrors == 5
Old == MaxAge + ProbeWindow + ProbePeriod   \* an older file is as old as this
NoFile == Old + 1

\* A message was received and is not acknowledged yet.
InHand == pc \in AtWork \/ (pc \in {"url", "return", "answer"} /\ call # "receive")

\* min(30, 2 ** consecutive_queue_errors) seconds, or 5, in ticks of ten.
Nap == [n \in 0 .. MaxErrors |-> CASE n <= 3 -> 1 [] n = 4 -> 2 [] OTHER -> 3]

Limit ==
    CASE pc \in {"database", "schema"} -> WaitLimit
      [] pc = "gauges" -> 4 * CallLimit
      [] pc = "answer" /\ call = "receive" -> ReceiveLimit
      [] pc = "url" \/ (pc = "answer" /\ call # "receive") -> CallLimit
      [] pc \in {"claim", "load", "persist"} -> DatabaseLimit
      [] pc = "score" -> ScoreLimit
      [] pc = "sleep" -> Nap[errors]
      [] OTHER -> 0

PodTypeOK ==
    /\ pc \in Steps /\ call \in Calls /\ spent \in Nat
    /\ stuck \in BOOLEAN /\ stop \in BOOLEAN /\ errors \in 0 .. MaxErrors
    /\ url \in Urls /\ using \in Urls /\ scraping \in Urls
    /\ beat \in 0 .. NoFile
    /\ started \in BOOLEAN /\ age \in 0 .. StartupLimit
    /\ ending \in {"no", "restart", "replace"} /\ grace \in 0 .. GraceLimit /\ since \in Nat
    /\ dbUp \in BOOLEAN /\ queueUp \in BOOLEAN /\ faults \in 0 .. MaxFaults
    /\ ~stuck => spent <= Limit

NewProcess ==
    /\ pc' = "database" /\ call' = "receive" /\ spent' = 0
    /\ stuck' = FALSE /\ stop' = FALSE /\ errors' = 0
    /\ url' = "None" /\ using' = "None" /\ scraping' = "None"
    /\ started' = FALSE /\ age' = 0 /\ ending' = "no" /\ grace' = 0 /\ since' = 0

PodInit ==
    /\ pc = "database" /\ call = "receive" /\ spent = 0
    /\ stuck = FALSE /\ stop = FALSE /\ errors = 0
    /\ url = "None" /\ using = "None" /\ scraping = "None"
    /\ beat = NoFile
    /\ started = FALSE /\ age = 0 /\ ending = "no" /\ grace = 0 /\ since = 0
    /\ dbUp \in BOOLEAN /\ queueUp = TRUE /\ faults = 0

Fault(kind) == kind \in FaultKinds /\ faults < MaxFaults /\ faults' = faults + 1
Goto(step) == pc' = step /\ spent' = 0

------------------------------------------------------------------------------
(* main, before the loop: no heartbeat is written, no signal is handled.   *)

\* The database accepts connections; in the other wait, it also has the table.
WaitForDatabase ==
    /\ ~stuck /\ pc = "database" /\ dbUp
    /\ Goto("schema")
    /\ UNCHANGED <<call, stuck, stop, errors, clientVars, kubeletVars, worldVars, beat, faults>>

WaitForSchema ==
    /\ ~stuck /\ pc = "schema" /\ dbUp
    /\ Goto("gauges")
    /\ UNCHANGED <<call, stuck, stop, errors, clientVars, kubeletVars, worldVars, beat, faults>>

\* The wait is over: the error ends the process and the container starts over.
\* The file outlives it.
WaitFails ==
    /\ ~stuck /\ pc \in {"database", "schema"} /\ ~dbUp /\ spent = WaitLimit
    /\ NewProcess
    /\ UNCHANGED <<worldVars, beat, faults>>

\* Registering the gauges collects them once, for two queues; failures are logged.
InstallGauges ==
    /\ ~stuck /\ pc = "gauges"
    /\ url' = IF queueUp THEN "current" ELSE "None"
    /\ Goto("pass")
    /\ UNCHANGED <<call, stuck, stop, errors, using, scraping, kubeletVars, worldVars, beat,
                   faults>>

------------------------------------------------------------------------------
(* The loop.                                                               *)

\* Mutant: the heartbeat is written when the loop begins.
touch_once == beat' = IF started THEN beat ELSE 0
touch_heartbeat == beat' = 0

\* Mutant: the loop asks for more although SIGTERM was heard.
GoesOnAlways == TRUE
GoesOn == ~stop

Pass ==
    /\ ~stuck /\ pc = "pass" /\ GoesOn
    /\ touch_heartbeat
    /\ Goto("url") /\ call' = "receive"
    /\ UNCHANGED <<stuck, stop, errors, clientVars, kubeletVars, worldVars, faults>>

\* run_forever returns; the container is restarted, or replaced by a new pod
\* with an empty directory.
Exit ==
    /\ ~stuck /\ pc = "pass" /\ ~GoesOn
    /\ NewProcess
    /\ beat' = IF ending = "replace" THEN NoFile ELSE beat
    /\ UNCHANGED <<worldVars, faults>>

forget_url == url' = "None"

\* QueueUnavailableError, as receive and delete raise it and run_forever takes it.
QueueUnavailable ==
    /\ forget_url
    /\ errors' = IF errors < MaxErrors THEN errors + 1 ELSE errors
    /\ Goto("sleep") /\ using' = "None"
    /\ UNCHANGED <<call, stuck, stop, scraping, kubeletVars, worldVars, beat>>

\* run_once returned: the next pass.
PassDone ==
    /\ Goto("pass") /\ errors' = 0 /\ using' = "None"
    /\ UNCHANGED <<call, stuck, stop, scraping, kubeletVars, worldVars, beat, faults>>

\* change_visibility logs the error and keeps the URL.
CallRaises ==
    IF call = "change_visibility" THEN PassDone /\ UNCHANGED url
                                  ELSE QueueUnavailable /\ UNCHANGED faults

\* queue_url, up to the assignment.
ResolveUrl ==
    /\ ~stuck /\ pc = "url" /\ (url # "None" \/ queueUp)
    /\ url' = IF url = "None" THEN "current" ELSE url
    /\ Goto("return")
    /\ UNCHANGED <<call, stuck, stop, errors, using, scraping, kubeletVars, worldVars,
                   beat, faults>>

ResolveFails ==
    /\ ~stuck /\ pc = "url" /\ url = "None" /\ ~queueUp
    /\ CallRaises

\* queue_url reads the attribute again: the scrape may have forgotten it.  boto3
\* refuses a call without a URL.
ReturnUrl ==
    /\ ~stuck /\ pc = "return"
    /\ using' = url
    /\ Goto("answer")
    /\ UNCHANGED <<call, stuck, stop, errors, url, scraping, kubeletVars, worldVars, beat,
                   faults>>

CallFails ==
    /\ ~stuck /\ pc = "answer" /\ ~(using = "current" /\ queueUp)
    /\ CallRaises

\* A poll that was in flight at SIGTERM may still bring a message.
CallAnswers ==
    /\ ~stuck /\ pc = "answer" /\ using = "current" /\ queueUp
    /\ \/ PassDone /\ UNCHANGED url          \* nothing received, or acknowledged
       \/ /\ call = "receive"
          /\ \/ Goto("claim") /\ UNCHANGED call
             \/ Goto("url") /\ call' = "delete"           \* malformed
          /\ using' = "None"
          /\ since' = IF stop THEN since + 1 ELSE since
          /\ UNCHANGED <<stuck, stop, errors, url, scraping, started, age, ending, grace,
                         worldVars, beat, faults>>

\* What process does with the message next, up to its last call.
After(step) ==
    CASE step = "claim" -> {"load", "delete", "pass"}
      [] step = "load" -> {"score", "delete"}
      [] step = "score" -> {"persist"}
      [] step = "persist" -> {"delete", "change_visibility"}

Process ==
    /\ ~stuck /\ pc \in AtWork /\ (dbUp \/ pc = "score")
    /\ \E next \in After(pc) :
          \/ next = "pass" /\ PassDone
          \/ /\ next \in AtWork
             /\ Goto(next)
             /\ UNCHANGED <<call, stuck, stop, errors, using, scraping, kubeletVars,
                            worldVars, beat, faults>>
          \/ /\ next \in Calls
             /\ Goto("url") /\ call' = next
             /\ UNCHANGED <<stuck, stop, errors, using, scraping, kubeletVars, worldVars,
                            beat, faults>>
    /\ UNCHANGED url

\* A database error or an unexpected one: the message is left alone.
ProcessFails ==
    /\ ~stuck /\ pc \in AtWork
    /\ \/ ~dbUp /\ pc # "score" /\ UNCHANGED faults
       \/ Fault("unexpected")
    /\ Goto("sleep")
    /\ UNCHANGED <<call, stuck, stop, errors, clientVars, kubeletVars, worldVars, beat>>

\* The end of a sleep; SIGTERM cuts it short.
Wake ==
    /\ ~stuck /\ pc = "sleep"
    /\ Goto("pass")
    /\ UNCHANGED <<call, stuck, stop, errors, clientVars, kubeletVars, worldVars, beat, faults>>

------------------------------------------------------------------------------
(* The scrape thread: attributes, by CallbackGauges.collect, which logs    *)
(* what fails.                                                             *)

ScrapeCalls ==
    /\ pc \notin StartUp /\ scraping = "None" /\ (url # "None" \/ queueUp)
    /\ url' = IF url = "None" THEN "current" ELSE url
    /\ scraping' = url'
    /\ UNCHANGED <<processVars, using, kubeletVars, worldVars, beat, faults>>

ScrapeEnds ==
    /\ scraping # "None"
    /\ IF scraping = "current" /\ queueUp THEN UNCHANGED url ELSE forget_url
    /\ scraping' = "None"
    /\ UNCHANGED <<processVars, using, kubeletVars, worldVars, beat, faults>>

------------------------------------------------------------------------------
(* The kubelet.                                                            *)

\* Mutant: that there is a heartbeat is enough.
is_fresh_exists == beat # NoFile
is_fresh == beat <= MaxAge

\* Failed liveness probes in a row, the last of them now.
Expired == started /\ beat > MaxAge + ProbeWindow

ProbeStarts ==
    /\ ending = "no" /\ ~started /\ is_fresh
    /\ started' = TRUE /\ age' = 0
    /\ UNCHANGED <<processVars, clientVars, ending, grace, since, worldVars, beat, faults>>

\* SIGTERM; before the loop main has no handler for it, and the first process
\* of a container has no default one.
Terminate(how) ==
    /\ ending' = how /\ grace' = GraceLimit
    /\ stop' = (pc \notin StartUp)
    /\ since' = IF InHand THEN 1 ELSE 0
    /\ UNCHANGED <<pc, call, spent, stuck, errors, clientVars, started, age, worldVars, beat>>

StartupProbeFails ==
    /\ ending = "no" /\ ~started /\ age = StartupLimit
    /\ Terminate("restart") /\ UNCHANGED faults
LivenessProbeFails ==
    /\ ending = "no" /\ ~is_fresh /\ Expired
    /\ Terminate("restart") /\ UNCHANGED faults

\* A new version, a drained node.
Rollout ==
    /\ Fault("rollout")
    /\ ending = "no" /\ Terminate("replace")

Kill ==
    /\ ending # "no" /\ grace = 0
    /\ NewProcess
    /\ beat' = IF ending = "replace" THEN NoFile ELSE beat
    /\ UNCHANGED <<worldVars, faults>>

------------------------------------------------------------------------------
(* Time and faults.                                                        *)

Due ==
    \/ ~stuck /\ (spent >= Limit \/ (pc = "sleep" /\ stop))
    \/ ~stuck /\ pc \in {"database", "schema"} /\ dbUp   \* an attempt every 2 s
    \/ ending # "no" /\ grace = 0
    \/ ending = "no" /\ ~started /\ (is_fresh \/ age = StartupLimit)
    \/ ending = "no" /\ started /\ ~is_fresh /\ beat = Old

Tick ==
    /\ ~Due
    /\ spent' = IF stuck THEN spent ELSE spent + 1
    /\ beat' = IF beat < Old THEN beat + 1 ELSE beat
    /\ age' = IF started \/ ending # "no" THEN age ELSE age + 1
    /\ grace' = IF ending # "no" THEN grace - 1 ELSE grace
    /\ UNCHANGED <<pc, call, stuck, stop, errors, clientVars, started, ending, since, worldVars,
                   faults>>

Hang ==
    /\ Fault("hang")
    /\ ~stuck /\ stuck' = TRUE
    /\ UNCHANGED <<pc, call, spent, stop, errors, clientVars, kubeletVars, worldVars, beat>>

Crash ==
    /\ Fault("crash")
    /\ NewProcess
    /\ beat' = IF ending = "replace" THEN NoFile ELSE beat
    /\ UNCHANGED worldVars

DatabaseStops ==
    /\ Fault("database") /\ dbUp' = FALSE
    /\ UNCHANGED <<processVars, clientVars, kubeletVars, queueUp, beat>>
DatabaseStarts ==
    /\ ~dbUp /\ dbUp' = TRUE
    /\ UNCHANGED <<processVars, clientVars, kubeletVars, queueUp, beat, faults>>

QueueStops ==
    /\ Fault("queue") /\ queueUp' = FALSE
    /\ UNCHANGED <<processVars, clientVars, kubeletVars, dbUp, beat>>

\* The queue is back, under its URL or recreated under another.
Aged(u) == IF u = "current" THEN "gone" ELSE u
QueueStarts ==
    /\ ~queueUp /\ queueUp' = TRUE
    /\ \/ UNCHANGED clientVars
       \/ url' = Aged(url) /\ using' = Aged(using) /\ scraping' = Aged(scraping)
    /\ UNCHANGED <<processVars, kubeletVars, dbUp, beat, faults>>

------------------------------------------------------------------------------
main == WaitForDatabase \/ WaitForSchema \/ WaitFails \/ InstallGauges
run_once ==
    Pass \/ ResolveUrl \/ ResolveFails \/ ReturnUrl \/ CallFails \/ CallAnswers
         \/ Process \/ ProcessFails
run_forever == run_once \/ Wake \/ Exit
Scrape == ScrapeCalls \/ ScrapeEnds
Kubelet == ProbeStarts \/ StartupProbeFails \/ LivenessProbeFails \/ Kill

PodNext ==
    \/ main \/ run_forever \/ Scrape \/ Kubelet \/ Rollout \/ Tick
    \/ Hang \/ Crash \/ DatabaseStops \/ DatabaseStarts \/ QueueStops \/ QueueStarts

PodSpec == PodInit /\ [][PodNext]_podVars

\* The process goes on unless it hangs, the kubelet probes, time passes, and the
\* database and the queue come back.
PodFairSpec ==
    /\ PodSpec
    /\ WF_podVars(main) /\ WF_podVars(run_forever) /\ WF_podVars(Scrape)
    /\ WF_podVars(Kubelet) /\ WF_podVars(Tick)
    /\ WF_podVars(DatabaseStarts) /\ WF_podVars(QueueStarts)

------------------------------------------------------------------------------
(* Properties.                                                             *)

\* What OnlyStuckIsStopped asks of the limits: a pass with all its calls ends before
\* the last failed probe in a row.  The client does not enforce it: with its read
\* timeout and its retries a call on the queue may take longer (queue.py:85).
PassFits ==
    3 * CallLimit + ReceiveLimit + 3 * DatabaseLimit + ScoreLimit + Nap[MaxErrors]
        <= MaxAge + ProbeWindow

\* If the limits fit (PassFits), the liveness probe never gives up a process that
\* works, however long its calls take within their limits and however the queue URL
\* is lost: only one that hangs, or one that was restarted and has not begun a pass.
\* "a false positive" (worker.yaml:48)
OnlyStuckIsStopped ==
    ending = "no" /\ Expired => stuck \/ pc \in StartUp \cup {"pass"}

\* "Stop after the current message" (worker.py:145): a process that has heard SIGTERM
\* handles at most one message from then on, the one it had or, when it had none, one
\* that the poll in flight still brings.  However the loop fails, retries or sleeps,
\* it begins no other poll, and that holds whatever the limits of its calls are.
OneMoreAtMost == stop => since <= 1

\* The loop always asks the queue again, under a URL it has: whatever hangs, stops
\* or is recreated, and whatever the scrape does to the URL.  (heartbeat.py, queue.py)
LoopKeepsTurning == []<>(pc = "answer" /\ using = "current" /\ queueUp)
==============================================================================
