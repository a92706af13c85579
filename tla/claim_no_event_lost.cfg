SPECIFICATION Spec
CONSTANTS
  w1 = w1  w2 = w2
  Workers = {w1}
  MaxEvents = 1
  BatchSize = 1
  MaxAttempts = 5
  MaxFaults = 1
INVARIANTS
  NoEventLost
