\* Waits from one tick, where int() rounds to nothing, to the maximum, and six attempts.
SPECIFICATION Spec
CONSTANTS
  MaxAttempts = 6
  BaseBackoff = 1
  MaxBackoff = 12
  JitterSteps = 4
CHECK_DEADLOCK FALSE
INVARIANTS ChainTypeOK AttemptsEnd BackoffGrows
