SPECIFICATION FairSpec
CONSTANTS
  p1 = p1  p2 = p2
  Processes = {p1, p2}
  Messages = {1, 2}
  KeyOf <- TwoKeys
  DebugProcesses = {p1, p2}
  ConsumerQueue = "shipment-debug"
  MaxCalls = 1
  NoMessage = NoMessage
INVARIANTS
  TypeOK
  RoutedToDurableQueues
  NothingLostButWithQueue
  RunningCallsHaveDatabase
PROPERTIES
  ShutdownEnds
