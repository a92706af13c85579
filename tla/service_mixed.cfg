SPECIFICATION Spec
CONSTANTS
  c1 = c1  c2 = c2  c3 = c3  c4 = c4
  r1 = r1  r2 = r2
  Calls = {c1, c2, c3}
  Refs = {r1, r2}
  Requests <- AllRequests
  PoolSize = 2
  MaxCrashes = 1
  NoShipment = NoShipment
SYMMETRY CallSymmetry
INVARIANTS
  TypeOK
  StoredWithEvent
  UniqueReference
  AnswersMatchStore
  CreationRefusedAsByEntity
PROPERTIES
  ImplementsAtomicShipments
