\* A fair replica, three keys of which two are listed, four uploads that may replace or
\* remove an object, contents that cannot be stored among them, a read that fails.
SPECIFICATION IngestFairSpec
CONSTANTS
  w1 = w1  r1 = r1  r2 = r2
  j1 = j1  j2 = j2  j3 = j3  j4 = j4
  m1 = m1
  good = good  bad = bad  blank = blank  nul = nul
  NoJob = NoJob
  NoMessage = NoMessage
  NoContent = NoContent
  Nobody = Nobody
  Workers = {}
  Replicas = {r1}
  Jobs = {j1, j2, j3, j4}
  Messages = {m1}
  JobOf <- OneMessage
  Keys = {1, 2, 3}
  Contents = {good, bad, nul}
  Kind <- GoodBadNul
  MaxKeys = 2
  MayReplace = TRUE
  MaxUploads = 4
  Visibility = 1
  QueueVisibility = 1
  MaxBusy = 1
  MaxReceive = 2
  MaxAttempts = 1
  BaseBackoff = 1
  MaxBackoff = 1
  JitterSteps = 2
  FaultKinds = {"storage"}
  MaxFaults = 1
PROPERTY EveryObjectHandled
