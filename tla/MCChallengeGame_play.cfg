\* The whole game on a 2 x 2 board: placements, timers, an idle player, leaving.
SPECIFICATION FairSpec
CONSTANTS
  t1 = t1
  t2 = t2
  Size = 2
  PieceNumbers <- DotDouble
  LevelStep = 50
  TimerId <- TwoTimers
  MaxScore = 20
  MaxQueue = 1
INVARIANTS
  TypeOK
  NoFullLine
  OneTimerScheduled
  DelayFollowsLevel
  PieceBoardsCurrent
  EndsAfterLastLife
PROPERTIES
  ImplementsRules
  IdleGameEnds
\* A game that was closed and has no gameLoop waiting has nothing left to do.
CHECK_DEADLOCK FALSE
