\* The whole game on a 2 x 2 board, with the server and the web socket thread.
SPECIFICATION FairSpec
CONSTANTS
  t1 = t1
  t2 = t2
  Size = 2
  PieceNumbers <- DotPlus
  LevelStep = 50
  TimerId <- TwoTimers
  MaxScore = 0
  MaxQueue = 1
INVARIANTS
  TypeOK
  OneAnswerPerWait
  ServerKnowsScore
  GameWholeBetweenHandlers
PROPERTIES
  ImplementsFeed
  PlayResumes
\* A game that was left, with no gameLoop waiting, has nothing left to do.
CHECK_DEADLOCK FALSE
