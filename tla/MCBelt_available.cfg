SPECIFICATION FairSpec
CONSTANTS
  p1 = p1
  p2 = p2
  c1 = c1
  c2 = c2
  Producers <- OneProducer
  Consumers <- OneConsumer
  Capacity = 2
  Initially = 0
  Interruptible <- NoThreads
  MaxCalls = 1
PROPERTIES
  BlocksUntilAvailable
CHECK_DEADLOCK FALSE
