SPECIFICATION Spec
CONSTANTS
  w1 = w1
  w2 = w2
  Workers <- OneWorker
  StuckThreshold = 4
  MonitorInterval = 2
  PetInterval = 3
  RetryBase = 1
  RetryMax = 4
  RetryAttempts = 5
  FetchTime = 1
  RestTime = 5
  PushTime = 1
  Latency = 1
  MayWedge = TRUE
INVARIANT WedgeIsKilled
PROPERTY RetryReportIsMarginal
PROPERTY FetchLoopStuckInDispatch
