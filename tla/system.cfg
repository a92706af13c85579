SPECIFICATION FairSystemSpec
CONSTANTS
  c1 = c1  c2 = c2  c3 = c3  r1 = r1
  Calls = {c1, c2}
  Refs = {r1}
  Requests <- WriteRequests
  PoolSize = 1
  MaxCrashes = 1
  NoShipment = NoShipment
  Worker = Worker
  BatchSize = 2
  MaxAttempts = 2
  MaxFaults = 2
INVARIANTS
  CausesAnnouncedFirst
  RefusedNeverAnnounced
  AcknowledgedIsAccounted
PROPERTIES
  SystemImplementsWorker
  AcknowledgedIsSettled
