SPECIFICATION LiveSpec
CONSTANTS
  w1 = w1
  w2 = w2
  w3 = w3
  Callers <- ThreeWorkers
  FailureThreshold = 2
  HalfOpenBase = 1
  HalfOpenMax = 0
  MaxInt64 = 3
  CounterCap = 6
INVARIANTS
  TypeOK
  SlotAccounting
  AdmissionBound
PROPERTIES
  OpensOnEvidence
  ClosesAfterLadder
  NoAdmissionInCooldown
  OpenIsLeft
  Recovery
