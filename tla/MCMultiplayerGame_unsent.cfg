\* Which changes of the board the server is told of.
SPECIFICATION Spec
CONSTANTS
  t1 = t1
  t2 = t2
  Size = 2
  PieceNumbers <- DotPlus
  LevelStep = 50
  TimerId <- TwoTimers
  MaxScore = 0
  MaxQueue = 1
INVARIANTS
  BoardReported
CHECK_DEADLOCK FALSE
