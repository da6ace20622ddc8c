------------------------------ MODULE PodProofs ------------------------------
(***************************************************************************)
(* Theorems about the worker pod, for any limits (those that fit, PassFits, *)
(* where the theorem says so), any number of faults and of scrapes.        *)
(***************************************************************************)
EXTENDS WorkerPod, TLAPS

(* The argument: a pass touches the heartbeat first, so the file is at most *)
(* as old as the limits of the steps the pass has behind it and the time of *)
(* the step it is at.  After SIGTERM no new poll begins, and while one is   *)
(* under way no message has been handled.                                   *)

Received == CallLimit + ReceiveLimit
Worked == Received + 3 * DatabaseLimit + ScoreLimit

HeartbeatInv ==
    ~stuck => /\ pc = "url" /\ call = "receive" => beat <= spent
              /\ pc \in {"return", "answer"} /\ call = "receive" => beat <= CallLimit + spent
              /\ pc = "claim" => beat <= Received + spent
              /\ pc = "load" => beat <= Received + DatabaseLimit + spent
              /\ pc = "score" => beat <= Received + 2 * DatabaseLimit + spent
              /\ pc = "persist" => beat <= Received + 2 * DatabaseLimit + ScoreLimit + spent
              /\ pc = "url" /\ call # "receive" => beat <= Worked + spent
              /\ pc \in {"return", "answer"} /\ call # "receive" =>
                     beat <= Worked + CallLimit + spent
              /\ pc = "sleep" => beat <= Worked + 2 * CallLimit + spent

StopInv ==
    /\ stop => ending # "no" /\ pc \notin StartUp /\ since <= 1
    /\ stop /\ call = "receive" /\ pc \in {"url", "return", "answer"} => since = 0

PodInv == PodTypeOK /\ HeartbeatInv /\ StopInv

LEMMA Positive ==
    /\ ReceiveLimit \in Nat \ {0} /\ CallLimit \in Nat \ {0} /\ DatabaseLimit \in Nat \ {0}
    /\ ScoreLimit \in Nat \ {0} /\ WaitLimit \in Nat \ {0} /\ StartupLimit \in Nat \ {0}
    /\ MaxAge \in Nat \ {0} /\ ProbeWindow \in Nat \ {0} /\ ProbePeriod \in Nat \ {0}
    /\ GraceLimit \in Nat \ {0} /\ MaxFaults \in Nat
BY PodAssumption

\* The limits, step by step.
LEMMA Limits ==
    ASSUME pc \in Steps, call \in Calls, errors \in 0 .. MaxErrors
    PROVE  /\ pc \in {"database", "schema"} => Limit = WaitLimit
           /\ pc = "gauges" => Limit = 4 * CallLimit
           /\ pc = "answer" /\ call = "receive" => Limit = ReceiveLimit
           /\ pc = "answer" /\ call # "receive" => Limit = CallLimit
           /\ pc = "url" => Limit = CallLimit
           /\ pc \in {"claim", "load", "persist"} => Limit = DatabaseLimit
           /\ pc = "score" => Limit = ScoreLimit
           /\ pc = "sleep" => Limit \in 1 .. 3
           /\ pc \in {"pass", "return"} => Limit = 0
           /\ Limit \in Nat
<1>1. Nap[errors] \in 1 .. 3 /\ Nap[MaxErrors] = 3
  BY DEF Nap, MaxErrors
<1> QED
  BY <1>1, Positive DEF Limit, Steps, StartUp, AtWork, Calls

LEMMA PodStarts == PodInit => PodInv
<1> SUFFICES ASSUME PodInit PROVE PodInv
  OBVIOUS
<1>1. pc \in Steps /\ call \in Calls /\ errors \in 0 .. MaxErrors
  BY DEF PodInit, Steps, StartUp, Calls, MaxErrors
<1>2. spent <= Limit
  BY <1>1, Limits DEF PodInit
<1>3. /\ stuck \in BOOLEAN /\ stop \in BOOLEAN /\ started \in BOOLEAN
      /\ dbUp \in BOOLEAN /\ queueUp \in BOOLEAN
  BY DEF PodInit
<1>4. /\ url \in Urls /\ using \in Urls /\ scraping \in Urls
      /\ ending \in {"no", "restart", "replace"}
  BY DEF PodInit, Urls
<1>5. /\ spent \in Nat /\ beat \in 0 .. NoFile /\ age \in 0 .. StartupLimit
      /\ grace \in 0 .. GraceLimit /\ since \in Nat /\ faults \in 0 .. MaxFaults
  BY Positive DEF PodInit, NoFile, Old
<1>6. PodTypeOK
  BY <1>1, <1>2, <1>3, <1>4, <1>5 DEF PodTypeOK
<1> QED
  BY <1>6 DEF PodInit, PodInv, HeartbeatInv, StopInv

\* A new process satisfies the invariant whatever file it finds.
LEMMA NewProcessInv ==
    ASSUME PodInv, NewProcess, beat' \in 0 .. NoFile,
           dbUp' \in BOOLEAN, queueUp' \in BOOLEAN, faults' \in 0 .. MaxFaults
    PROVE  PodInv'
<1>1. pc' \in Steps /\ call' \in Calls /\ errors' \in 0 .. MaxErrors
  BY DEF NewProcess, Steps, StartUp, Calls, MaxErrors
<1>2. Limit' = WaitLimit
  BY DEF NewProcess, Limit
<1>3. /\ stuck' = FALSE /\ stop' = FALSE /\ started' = FALSE
  BY DEF NewProcess
<1>4. /\ url' \in Urls /\ using' \in Urls /\ scraping' \in Urls
      /\ ending' \in {"no", "restart", "replace"}
  BY DEF NewProcess, Urls
<1>5. /\ spent' = 0 /\ age' \in 0 .. StartupLimit /\ grace' \in 0 .. GraceLimit
      /\ since' \in Nat
  BY Positive DEF NewProcess
<1>6. spent' <= Limit'
  BY <1>2, <1>5, Positive
<1>7. PodTypeOK'
  BY <1>1, <1>3, <1>4, <1>5, <1>6 DEF PodTypeOK
<1> QED
  BY <1>7 DEF NewProcess, PodInv, HeartbeatInv, StopInv

\* A step of the process keeps the types when it keeps those of what it assigns.
LEMMA ProcessTypes ==
    ASSUME PodInv, pc' \in Steps, call' \in Calls, errors' \in 0 .. MaxErrors, spent' = 0,
           url' \in Urls, using' \in Urls, scraping' \in Urls,
           beat' \in 0 .. NoFile, faults' \in 0 .. MaxFaults, since' \in Nat,
           UNCHANGED <<stuck, stop, started, age, ending, grace, worldVars>>
    PROVE  PodTypeOK'
<1>1. Limit' \in Nat
  <2>1. pc' \in {"database", "schema"} => Limit' = WaitLimit
    BY DEF Limit
  <2>2. pc' = "gauges" => Limit' = 4 * CallLimit
    BY DEF Limit
  <2>3. pc' \in {"url", "answer"} => Limit' \in {CallLimit, ReceiveLimit}
    BY DEF Limit
  <2>4. pc' \in {"claim", "load", "persist"} => Limit' = DatabaseLimit
    BY DEF Limit
  <2>5. pc' = "score" => Limit' = ScoreLimit
    BY DEF Limit
  <2>6. pc' = "sleep" => Limit' \in Nat
    BY DEF Limit, Nap, MaxErrors
  <2>7. pc' \in {"pass", "return"} => Limit' = 0
    BY DEF Limit
  <2> QED
    BY <2>1, <2>2, <2>3, <2>4, <2>5, <2>6, <2>7, Positive DEF Steps, StartUp, AtWork
<1>2. spent' <= Limit'
  BY <1>1
<1> QED
  BY <1>2 DEF PodInv, PodTypeOK, worldVars

LEMMA MainSteps == ASSUME PodInv, main PROVE PodInv'
<1> USE DEF PodInv, PodTypeOK, HeartbeatInv, StopInv, Goto, clientVars, kubeletVars, worldVars
<1>1. CASE WaitForDatabase
  <2>1. PodTypeOK'
    BY <1>1, ProcessTypes DEF WaitForDatabase, Steps, StartUp
  <2> QED
    BY <1>1, <2>1 DEF WaitForDatabase, StartUp
<1>2. CASE WaitForSchema
  <2>1. PodTypeOK'
    BY <1>2, ProcessTypes DEF WaitForSchema, Steps, StartUp
  <2> QED
    BY <1>2, <2>1 DEF WaitForSchema, StartUp
<1>3. CASE WaitFails
  BY <1>3, NewProcessInv DEF WaitFails
<1>4. CASE InstallGauges
  <2>1. PodTypeOK'
    BY <1>4, ProcessTypes DEF InstallGauges, Steps, Urls
  <2> QED
    BY <1>4, <2>1 DEF InstallGauges, StartUp
<1> QED
  BY <1>1, <1>2, <1>3, <1>4 DEF main

\* The two ways a call on the queue can fail.
LEMMA CallRaisesInv ==
    ASSUME PodInv, CallRaises, ~stuck,
           pc \in {"url", "answer"}
    PROVE  PodInv'
<1>1. /\ pc' \in {"pass", "sleep"} /\ spent' = 0 /\ errors' \in 0 .. MaxErrors
      /\ url' \in Urls /\ using' \in Urls
      /\ UNCHANGED <<call, stuck, stop, scraping, kubeletVars, worldVars, beat, faults>>
  BY DEF CallRaises, QueueUnavailable, PassDone, Goto, forget_url, Urls, PodInv, PodTypeOK,
         MaxErrors
<1>2. PodTypeOK'
  BY <1>1, ProcessTypes DEF PodInv, PodTypeOK, Steps, kubeletVars
<1>3. beat <= Worked + 2 * CallLimit
  BY Limits, Positive DEF PodInv, PodTypeOK, HeartbeatInv, Received, Worked
<1>4. HeartbeatInv'
  BY <1>1, <1>3, Positive DEF HeartbeatInv, PodInv, PodTypeOK, Received, Worked
<1>5. StopInv'
  BY <1>1 DEF StopInv, PodInv, kubeletVars, StartUp
<1> QED
  BY <1>2, <1>4, <1>5 DEF PodInv

LEMMA LoopSteps == ASSUME PodInv, run_forever PROVE PodInv'
<1> USE Positive DEF PodInv, PodTypeOK, Goto, clientVars, kubeletVars, worldVars
<1>1. CASE Pass
  <2>1. PodTypeOK'
    BY <1>1, ProcessTypes DEF Pass, Steps, Calls, touch_heartbeat, NoFile, Old
  <2> QED
    BY <1>1, <2>1 DEF Pass, touch_heartbeat, GoesOn, HeartbeatInv, StopInv
<1>2. CASE ResolveUrl
  <2>1. PodTypeOK'
    BY <1>2, ProcessTypes DEF ResolveUrl, Steps, Urls
  <2>2. HeartbeatInv'
    BY <1>2, Limits DEF ResolveUrl, HeartbeatInv, Received, Worked
  <2>3. StopInv'
    BY <1>2, Limits DEF ResolveUrl, StopInv, StartUp
  <2> QED
    BY <2>1, <2>2, <2>3
<1>3. CASE ResolveFails
  BY <1>3, CallRaisesInv DEF ResolveFails
<1>4. CASE ReturnUrl
  <2>1. PodTypeOK'
    BY <1>4, ProcessTypes DEF ReturnUrl, Steps
  <2>2. HeartbeatInv'
    BY <1>4, Limits DEF ReturnUrl, HeartbeatInv
  <2>3. StopInv'
    BY <1>4, Limits DEF ReturnUrl, StopInv, StartUp
  <2> QED
    BY <2>1, <2>2, <2>3
<1>5. CASE CallFails
  BY <1>5, CallRaisesInv DEF CallFails
<1>6. CASE CallAnswers
  <2>1. /\ pc = "answer" /\ ~stuck /\ spent' = 0 /\ url' = url /\ using' = "None"
        /\ errors' \in 0 .. MaxErrors
        /\ UNCHANGED <<stuck, stop, scraping, started, age, ending, grace, worldVars, beat,
                       faults>>
        /\ \/ pc' = "pass" /\ call' = call /\ since' = since
           \/ /\ call = "receive" /\ since' = IF stop THEN since + 1 ELSE since
              /\ \/ pc' = "claim" /\ call' = call
                 \/ pc' = "url" /\ call' = "delete"
    <3>1. CASE PassDone /\ UNCHANGED url
      BY <1>6, <3>1 DEF CallAnswers, PassDone, MaxErrors
    <3>2. CASE call = "receive" /\ ~(PassDone /\ UNCHANGED url)
      BY <1>6, <3>2 DEF CallAnswers
    <3> QED
      BY <1>6, <3>1, <3>2 DEF CallAnswers
  <2>2. PodTypeOK'
    <3>1. since' \in Nat
      BY <2>1
    <3> QED
      BY <2>1, <3>1, ProcessTypes DEF Steps, AtWork, Calls, Urls
  <2>3. HeartbeatInv'
    BY <2>1, Limits DEF HeartbeatInv, Received, Worked
  <2>4. StopInv'
    BY <2>1 DEF StopInv, StartUp
  <2> QED
    BY <2>2, <2>3, <2>4
<1>7. CASE Process
  <2>1. PICK next \in After(pc) :
          /\ pc \in AtWork /\ ~stuck /\ spent' = 0 /\ url' = url /\ using' \in Urls
          /\ errors' \in 0 .. MaxErrors
          /\ UNCHANGED <<stuck, stop, scraping, kubeletVars, worldVars, beat, faults>>
          /\ \/ next = "pass" /\ pc' = "pass" /\ call' = call
             \/ next \in AtWork /\ pc' = next /\ call' = call
             \/ next \in Calls /\ pc' = "url" /\ call' = next
    <3>1. PICK next \in After(pc) :
            \/ next = "pass" /\ PassDone
            \/ /\ next \in AtWork /\ Goto(next)
               /\ UNCHANGED <<call, stuck, stop, errors, using, scraping, kubeletVars,
                              worldVars, beat, faults>>
            \/ /\ next \in Calls /\ Goto("url") /\ call' = next
               /\ UNCHANGED <<stuck, stop, errors, using, scraping, kubeletVars, worldVars,
                              beat, faults>>
      BY <1>7 DEF Process
    <3>2. pc \in AtWork /\ ~stuck /\ url' = url
      BY <1>7 DEF Process
    <3>3. CASE next = "pass" /\ PassDone
      BY <3>2, <3>3 DEF PassDone, MaxErrors, Urls
    <3>4. CASE ~(next = "pass" /\ PassDone)
      BY <3>1, <3>2, <3>4
    <3> QED
      BY <3>3, <3>4
  <2>2. /\ pc = "claim" => next \in {"load", "delete", "pass"}
        /\ pc = "load" => next \in {"score", "delete"}
        /\ pc = "score" => next = "persist"
        /\ pc = "persist" => next \in {"delete", "change_visibility"}
    BY <2>1 DEF After
  <2>3. PodTypeOK'
    BY <2>1, ProcessTypes DEF Steps, AtWork, Calls
  <2>4. HeartbeatInv'
    BY <2>1, <2>2, Limits DEF HeartbeatInv, Received, Worked, AtWork, Calls
  <2>5. StopInv'
    BY <2>1, <2>2 DEF StopInv, StartUp, AtWork, Calls
  <2> QED
    BY <2>3, <2>4, <2>5
<1>8. CASE ProcessFails
  <2>1. PodTypeOK'
    BY <1>8, ProcessTypes DEF ProcessFails, Steps, Fault
  <2>2. HeartbeatInv'
    BY <1>8, Limits DEF ProcessFails, HeartbeatInv, Received, Worked, AtWork
  <2>3. StopInv'
    BY <1>8 DEF ProcessFails, StopInv, StartUp
  <2> QED
    BY <2>1, <2>2, <2>3
<1>9. CASE Wake
  <2>1. PodTypeOK'
    BY <1>9, ProcessTypes DEF Wake, Steps
  <2> QED
    BY <1>9, <2>1 DEF Wake, HeartbeatInv, StopInv, StartUp
<1>10. CASE Exit
  BY <1>10, NewProcessInv DEF Exit, NoFile, Old
<1> QED
  BY <1>1, <1>2, <1>3, <1>4, <1>5, <1>6, <1>7, <1>8, <1>9, <1>10 DEF run_forever, run_once

LEMMA ScrapeSteps == ASSUME PodInv, Scrape PROVE PodInv'
<1>1. /\ url' \in Urls /\ scraping' \in Urls
      /\ UNCHANGED <<processVars, using, kubeletVars, worldVars, beat, faults>>
  BY DEF Scrape, ScrapeCalls, ScrapeEnds, forget_url, PodInv, PodTypeOK, Urls
<1>2. Limit' = Limit
  BY <1>1 DEF Limit, processVars
<1> QED
  BY <1>1, <1>2
  DEF PodInv, PodTypeOK, HeartbeatInv, StopInv, processVars, kubeletVars, worldVars

\* A stop begins with the whole grace; only a loop hears it.
LEMMA TerminateInv ==
    ASSUME PodInv, NEW how \in {"restart", "replace"}, ending = "no", Terminate(how),
           faults' \in 0 .. MaxFaults
    PROVE  PodInv'
<1> USE Positive DEF PodInv, PodTypeOK, Terminate, clientVars, worldVars
<1>1. Limit' = Limit
  BY DEF Limit
<1>2. PodTypeOK'
  BY <1>1
<1>3. HeartbeatInv'
  BY DEF HeartbeatInv
<1>4. StopInv'
  BY DEF StopInv, InHand, AtWork
<1> QED
  BY <1>2, <1>3, <1>4

LEMMA KubeletSteps == ASSUME PodInv, Kubelet \/ Rollout PROVE PodInv'
<1>1. CASE ProbeStarts
  <2>1. Limit' = Limit
    BY <1>1 DEF ProbeStarts, Limit, processVars
  <2> QED
    BY <1>1, <2>1, Positive
    DEF ProbeStarts, PodInv, PodTypeOK, HeartbeatInv, StopInv, processVars, clientVars, worldVars
<1>2. CASE StartupProbeFails
  BY <1>2, TerminateInv DEF StartupProbeFails, PodInv, PodTypeOK
<1>3. CASE LivenessProbeFails
  BY <1>3, TerminateInv DEF LivenessProbeFails, PodInv, PodTypeOK
<1>4. CASE Rollout
  BY <1>4, TerminateInv, Positive DEF Rollout, Fault, PodInv, PodTypeOK
<1>5. CASE Kill
  BY <1>5, NewProcessInv DEF Kill, worldVars, NoFile, Old, PodInv, PodTypeOK
<1> QED
  BY <1>1, <1>2, <1>3, <1>4, <1>5 DEF Kubelet

LEMMA TickInv == ASSUME PodInv, Tick PROVE PodInv'
<1> USE Positive DEF PodInv, PodTypeOK, Tick, Due, clientVars, worldVars
<1>1. Limit' = Limit
  BY DEF Limit
<1>2. ~stuck => spent < Limit
  BY Limits
<1>3. /\ spent' \in Nat /\ (~stuck => spent' = spent + 1 /\ spent' <= Limit')
      /\ beat' \in 0 .. NoFile /\ beat' <= beat + 1
      /\ age' \in 0 .. StartupLimit
  BY <1>1, <1>2, Limits DEF NoFile, Old
<1>4. grace' \in 0 .. GraceLimit /\ (ending # "no" => grace' = grace - 1)
  OBVIOUS
<1>5. PodTypeOK'
  BY <1>3, <1>4
<1>6. HeartbeatInv'
  BY <1>3 DEF HeartbeatInv, Received, Worked
<1>7. StopInv'
  BY <1>3, <1>4 DEF StopInv
<1> QED
  BY <1>5, <1>6, <1>7

LEMMA WorldSteps ==
    ASSUME PodInv,
           Hang \/ Crash \/ DatabaseStops \/ DatabaseStarts \/ QueueStops \/ QueueStarts
    PROVE  PodInv'
<1> USE Positive DEF PodInv, PodTypeOK, Fault, processVars, clientVars, kubeletVars, worldVars
<1>1. CASE Hang
  <2>1. Limit' = Limit
    BY <1>1 DEF Hang, Limit
  <2> QED
    BY <1>1, <2>1 DEF Hang, HeartbeatInv, StopInv
<1>2. CASE Crash
  BY <1>2, NewProcessInv DEF Crash, NoFile, Old
<1>3. CASE DatabaseStops \/ DatabaseStarts \/ QueueStops \/ QueueStarts
  <2>1. /\ UNCHANGED <<processVars, kubeletVars, beat>>
        /\ url' \in Urls /\ using' \in Urls /\ scraping' \in Urls
        /\ dbUp' \in BOOLEAN /\ queueUp' \in BOOLEAN /\ faults' \in 0 .. MaxFaults
    <3>1. CASE DatabaseStops
      <4>1. faults' \in 0 .. MaxFaults /\ dbUp' = FALSE
        BY <3>1 DEF DatabaseStops
      <4> QED
        BY <3>1, <4>1 DEF DatabaseStops
    <3>2. CASE DatabaseStarts
      BY <3>2 DEF DatabaseStarts
    <3>3. CASE QueueStops
      <4>1. faults' \in 0 .. MaxFaults /\ queueUp' = FALSE
        BY <3>3 DEF QueueStops
      <4> QED
        BY <3>3, <4>1 DEF QueueStops
    <3>4. CASE QueueStarts
      <4>1. \A u \in Urls : Aged(u) \in Urls
        BY DEF Aged, Urls
      <4> QED
        BY <3>4, <4>1 DEF QueueStarts
    <3> QED
      BY <1>3, <3>1, <3>2, <3>3, <3>4
  <2>2. Limit' = Limit
    BY <2>1 DEF Limit
  <2> QED
    BY <2>1, <2>2 DEF HeartbeatInv, StopInv
<1> QED
  BY <1>1, <1>2, <1>3

LEMMA PodInvHolds == PodSpec => []PodInv
<1>1. PodInit => PodInv
  BY PodStarts
<1>2. PodInv /\ [PodNext]_podVars => PodInv'
  <2> SUFFICES ASSUME PodInv, [PodNext]_podVars PROVE PodInv'
    OBVIOUS
  <2>1. CASE UNCHANGED podVars
    BY <2>1 DEF podVars, processVars, clientVars, kubeletVars, worldVars, PodInv, PodTypeOK,
                HeartbeatInv, StopInv, Limit
  <2> QED
    BY <2>1, MainSteps, LoopSteps, ScrapeSteps, KubeletSteps, TickInv, WorldSteps DEF PodNext
<1> QED
  BY <1>1, <1>2, PTL DEF PodSpec

\* Nothing is assumed of the limits: once SIGTERM was heard at most one message is
\* handled, the one in hand or the one of the poll in flight.  (worker.py:145, 177)
THEOREM StopTakesOneMore == PodSpec => []PodTypeOK /\ []OneMoreAtMost
<1>1. PodInv => PodTypeOK /\ OneMoreAtMost
  BY DEF PodInv, StopInv, OneMoreAtMost
<1> QED
  BY <1>1, PodInvHolds, PTL

\* If the limits of a pass add up to less than the probes allow, the kubelet never
\* gives up a process that works.  (worker.yaml:45)
THEOREM ProbesSpareTheWorking ==
    ASSUME PassFits
    PROVE  PodSpec => []OnlyStuckIsStopped
<1>1. PodInv => OnlyStuckIsStopped
  <2> SUFFICES ASSUME PodInv PROVE OnlyStuckIsStopped
    OBVIOUS
  <2> USE Positive, Limits, PassFits DEF PodInv, PodTypeOK, PassFits
  <2>1. Nap[MaxErrors] = 3
    BY DEF Nap, MaxErrors
  <2>2. ~stuck /\ pc \notin StartUp \cup {"pass"} => beat <= MaxAge + ProbeWindow
    BY <2>1 DEF HeartbeatInv, Received, Worked, Steps, AtWork, StartUp, Calls
  <2> QED
    BY <2>2 DEF OnlyStuckIsStopped, Expired, NoFile, Old
<1> QED
  BY <1>1, PodInvHolds, PTL
==============================================================================
