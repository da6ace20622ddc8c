\* Ticks of ten seconds, the deployed probes; calls well below their timeouts.
SPECIFICATION PodFairSpec
CONSTANTS
  ReceiveLimit = 3
  CallLimit = 2
  DatabaseLimit = 1
  ScoreLimit = 3
  WaitLimit = 18
  StartupLimit = 15
  MaxAge = 18
  ProbeWindow = 6
  ProbePeriod = 3
  GraceLimit = 6
  FaultKinds = {"hang", "crash", "database", "queue", "unexpected", "rollout"}
  MaxFaults = 2
INVARIANTS OnlyStuckIsStopped OneMoreAtMost
PROPERTY LoopKeepsTurning
