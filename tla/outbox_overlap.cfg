SPECIFICATION Spec
CONSTANTS
  w1 = w1  w2 = w2
  Workers = {w1, w2}
  MaxEvents = 2
  BatchSize = 2
  MaxAttempts = 2
  MaxFaults = 3
SYMMETRY WorkerSymmetry
INVARIANTS
  ProcessedWasSent
  FailedOnlyAfterMaxAttempts
  DuplicatesNeedFaults
  RetriesBounded
PROPERTIES
  ImplementsSharedDelivery
