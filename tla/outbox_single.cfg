SPECIFICATION FairSpec
CONSTANTS
  w1 = w1  w2 = w2
  Workers = {w1}
  MaxEvents = 3
  BatchSize = 2
  MaxAttempts = 3
  MaxFaults = 3
INVARIANTS
  TypeOK
  PendingIsSelected
  DuplicatesNeedFaults
  PublishedInOrder
PROPERTIES
  OutcomeIsFinal
  ImplementsEventDelivery
  EverySettled
