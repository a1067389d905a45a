SPECIFICATION LiveSpec
CONSTANTS
  m1 = m1
  m2 = m2
  w1 = w1
  Messages <- Twins
  Outcome <- AllOk
  Matching <- Single
  Workers <- OneWorker
  QueuedPerWorker = 1
  BatchSize = 1
  RetryAttempts = 1
  MaxDeliver = 0
  ParseErrorAction = "drop"
  FailureThreshold = 1
  HalfOpenBase = 1
  HalfOpenMax = 1
  MaxInt64 = 1
  CounterCap = 2
INVARIANT InFlightIsTicketed
PROPERTY EverySettled
PROPERTY ShutdownCompletes
