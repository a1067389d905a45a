SPECIFICATION CommandSpec
CONSTANTS
  w1 = w1
  w2 = w2
  Settings <- CommandLines
  Workloads <- SomeWorkloads
  Workers <- TwoWorkers
  Tables <- TwoTables
  EventChanCap = 1
  WindowBuckets = 2
  MaxDistinct = 1
  FirstMinute = 2
  Bounds <- SomeBounds
  Lags <- SomeLags
  Readers = {"stats", "scrape"}
  MaxAge = 2
  RpcTimeout = 1
  BatchWait = 1
  MaxNow = 3
INVARIANT SinkModesAsAsked
INVARIANT SinkOutlivesWrites
INVARIANT CleanExit
INVARIANT CountersBalance
INVARIANT EventsConserved
INVARIANT WindowIsExact
INVARIANT LagEstimates
INVARIANT PendingFresh
PROPERTY Exits
CHECK_DEADLOCK FALSE
