SPECIFICATION LiveSpec
CONSTANTS
  RebindAttempts = 3
  WorkerCount = 2
INVARIANT RebindingReported
PROPERTY DeadIsNoticed
PROPERTY LadderEnds
PROPERTY StallIsReported
PROPERTY StallIsCleared
PROPERTY Shutdown
