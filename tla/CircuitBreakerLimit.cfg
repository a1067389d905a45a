SPECIFICATION Spec
CONSTANTS
  w1 = w1
  w2 = w2
  w3 = w3
  Callers <- TwoWorkers
  FailureThreshold = 1
  HalfOpenBase = 1
  HalfOpenMax = 2
  MaxInt64 = 3
  CounterCap = 6
INVARIANT HalfOpenLimit
