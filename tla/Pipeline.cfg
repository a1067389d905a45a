SPECIFICATION Spec
CONSTANTS
  m1 = m1
  m3 = m3
  w1 = w1
  w2 = w2
  Messages <- Pair
  Outcome <- PairOutcome
  Matching <- Pair
  Workers <- TwoWorkers
  QueuedPerWorker = 2
  BatchSize = 2
  RetryAttempts = 2
  MaxDeliver = 0
  ParseErrorAction = "drop"
SYMMETRY WorkerSymmetry
INVARIANT TypeOK
PROPERTY DeliversAtLeastOnce
