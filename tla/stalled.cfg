\* A worker may hold a message for longer than its claim lasts.
SPECIFICATION Spec
CONSTANTS
  w1 = w1  w2 = w2
  j1 = j1
  m1 = m1  m2 = m2
  NoJob = NoJob
  NoMessage = NoMessage
  Nobody = Nobody
  Workers = {w1, w2}
  Jobs = {j1}
  Messages = {m1}
  JobOf <- OneMessage
  Visibility = 2
  QueueVisibility = 2
  MaxBusy = 4
  MaxReceive = 3
  MaxAttempts = 2
  BaseBackoff = 1
  MaxBackoff = 2
  JitterSteps = 2
  FaultKinds = {"crash", "database", "queue", "unexpected", "redelivery"}
  MaxFaults = 1
SYMMETRY WorkerSymmetry
INVARIANT RowConsistent
PROPERTY OutcomeIsFinal
