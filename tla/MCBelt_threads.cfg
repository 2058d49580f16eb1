SPECIFICATION Spec
CONSTANTS
  p1 = p1
  p2 = p2
  c1 = c1
  c2 = c2
  Producers <- TwoProducers
  Consumers <- TwoConsumers
  Capacity = 2
  Initially = 0
  Interruptible <- TwoProducers
  MaxCalls = 2
SYMMETRY ThreadSymmetry
INVARIANTS
  TypeOK
  IndicesInBounds
  AloneWhenWoken
  AllStored
CHECK_DEADLOCK FALSE
