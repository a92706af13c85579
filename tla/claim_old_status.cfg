SPECIFICATION Spec
CONSTANTS
  c1 = c1  c2 = c2  c3 = c3  c4 = c4
  r1 = r1  r2 = r2
  Calls = {c1, c2}
  Refs = {r1, r2}
  Requests <- ContendingRequests
  PoolSize = 1
  MaxCrashes = 0
  NoShipment = NoShipment
INVARIANTS
  OldStatusIsStatusBefore
