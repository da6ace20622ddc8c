\* One request, two fair workers, a send that may leave two messages, one fault.
SPECIFICATION SubmissionFairSpec
CONSTANTS
  w1 = w1  w2 = w2
  j1 = j1
  m1 = m1  m2 = m2
  NoJob = NoJob
  NoMessage = NoMessage
  Nobody = Nobody
  Workers = {w1, w2}
  Jobs = {j1}
  Messages = {m1, m2}
  JobOf <- SentTwice
  Visibility = 2
  QueueVisibility = 2
  MaxBusy = 1
  MaxReceive = 5
  MaxAttempts = 2
  BaseBackoff = 1
  MaxBackoff = 2
  JitterSteps = 2
  FaultKinds = {"api", "crash"}
  MaxFaults = 1
INVARIANTS RefusedIsNeverScored ClaimedIsNotOrphaned
PROPERTY ClaimedJobEnds
