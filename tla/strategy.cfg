SPECIFICATION FairSpec
CONSTANTS
  Updates <- SomeUpdates
  MaxUpdates = 5
  Securities = {666666, 777777}
  Slots = 2
  OrderStallLatency = 1
  LateUpdates = 1
INVARIANTS OrdersInOrder LogInOrder EngineOutlivesThreads
PROPERTY ProgramEnds
CHECK_DEADLOCK FALSE
