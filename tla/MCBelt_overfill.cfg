SPECIFICATION Spec
CONSTANTS
  p1 = p1
  p2 = p2
  c1 = c1
  c2 = c2
  Producers <- TwoProducers
  Consumers <- NoThreads
  Capacity = 1
  Initially = 0
  Interruptible <- NoThreads
  MaxCalls = 1
INVARIANTS
  NoOverfill
CHECK_DEADLOCK FALSE
