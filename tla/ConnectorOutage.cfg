SPECIFICATION OutageSpec
CONSTANTS
  m1 = m1
  m2 = m2
  w1 = w1
  Messages <- Twins
  Outcome <- AllOk
  Matching <- Twins
  Workers <- OneWorker
  QueuedPerWorker = 2
  BatchSize = 1
  RetryAttempts = 1
  MaxDeliver = 3
  ParseErrorAction = "drop"
  FailureThreshold = 1
  HalfOpenBase = 1
  HalfOpenMax = 1
  MaxInt64 = 1
  CounterCap = 2
PROPERTY NoDataLoss
