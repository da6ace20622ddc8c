\* Two replicas and a worker, two keys, every kind of content, one fault; nothing is
\* replaced.  A message for one of the jobs only: the other is refused.
SPECIFICATION IngestFairSpec
CONSTANTS
  w1 = w1  r1 = r1  r2 = r2
  j1 = j1  j2 = j2  j3 = j3  j4 = j4
  m1 = m1
  good = good  bad = bad  blank = blank  nul = nul
  NoJob = NoJob
  NoMessage = NoMessage
  NoContent = NoContent
  Nobody = Nobody
  Workers = {w1}
  Replicas = {r1, r2}
  Jobs = {j1, j2}
  Messages = {m1}
  JobOf <- OneMessage
  Keys = {1, 2}
  Contents = {good, bad, blank, nul}
  Kind <- ContentKinds
  MaxKeys = 2
  MayReplace = FALSE
  MaxUploads = 2
  Visibility = 1
  QueueVisibility = 1
  MaxBusy = 1
  MaxReceive = 2
  MaxAttempts = 1
  BaseBackoff = 1
  MaxBackoff = 1
  JitterSteps = 2
  FaultKinds = {"ingestor", "storage"}
  MaxFaults = 1
INVARIANTS OneJobPerObject SeenIsHandled
PROPERTY IngestedJobEnds
