SPECIFICATION Spec
CONSTANTS
  w1 = w1  w2 = w2
  Workers = {w1}
  MaxEvents = 2
  BatchSize = 2
  MaxAttempts = 5
  MaxFaults = 0
INVARIANTS
  PublishedInCreationOrder
