\* Expected to be violated.
SPECIFICATION Spec
CONSTANTS
  t1 = t1
  t2 = t2
  Size = 2
  PieceNumbers <- Dot
  LevelStep = 50
  TimerId <- TwoTimers
  MaxScore = 0
  MaxQueue = 2
PROPERTIES
  LivesLostToRunningTimer
CHECK_DEADLOCK FALSE
