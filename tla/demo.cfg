\* Two workers, two jobs, two failures armed in all, one worker that dies.
SPECIFICATION DemoSpec
CONSTANTS
  w1 = w1  w2 = w2
  j1 = j1  j2 = j2
  NoJob = NoJob
  NoMode = NoMode
  Nobody = Nobody
  Operator = Operator
  Workers = {w1, w2}
  Jobs = {j1, j2}
  MaxArmed = 2
  MaxCrashes = 1
  MaxAttempts = 2
  BaseBackoff = 1
  MaxBackoff = 1
  JitterSteps = 1
INVARIANTS AtMostAsArmed FewFailuresAreAbsorbed
PROPERTY ScoringGoesOn
