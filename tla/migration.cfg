\* Two API pods, a worker and an ingestor, from every installed revision, two faults.
\* The behaviour ends when everybody has started.
SPECIFICATION MigrationSpec
CONSTANTS
  a1 = a1  a2 = a2  a3 = a3
  w1 = w1  i1 = i1
  Nobody = Nobody
  Dead = Dead
  ApiPods = {a1, a2}
  Workers = {w1}
  Ingestors = {i1}
  FaultKinds = {"pod", "database", "revision"}
  MaxFaults = 2
INVARIANTS MigrationTypeOK NothingIsAppliedTwice SchemaIsWhole HasItsTables
PROPERTY EverybodyStarts
CHECK_DEADLOCK FALSE
