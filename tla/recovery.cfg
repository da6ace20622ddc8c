\* The deployed attempt cap and redrive limit, a malformed message, one fault, fair.
SPECIFICATION FairSpec
CONSTANTS
  w1 = w1  w2 = w2
  j1 = j1
  m1 = m1  m2 = m2
  NoJob = NoJob
  NoMessage = NoMessage
  Nobody = Nobody
  Workers = {w1, w2}
  Jobs = {j1}
  Messages = {m1, m2}
  JobOf <- WithMalformed
  Visibility = 2
  QueueVisibility = 2
  MaxBusy = 1
  MaxReceive = 5
  MaxAttempts = 3
  BaseBackoff = 1
  MaxBackoff = 2
  JitterSteps = 2
  FaultKinds = {"crash", "database", "queue", "unexpected", "redelivery"}
  MaxFaults = 1
INVARIANTS NotStranded AttemptsCapped
PROPERTIES EveryJobEnds QueueDrains
