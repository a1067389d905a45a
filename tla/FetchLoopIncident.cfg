SPECIFICATION Spec
CONSTANTS
  RebindAttempts = 3
  WorkerCount = 2
PROPERTY OneIncidentOneCondition
