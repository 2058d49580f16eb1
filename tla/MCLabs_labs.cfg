SPECIFICATION FairSpec
CONSTANTS
  Gates = 3
  Guests <- TwoGuestsOneTwo
  Numbers = {0, 1, 2}
  QueueCapacity = 3
  SeatCount = 5
  Blocks = {1, 2}
  Colours = {0, 1, 2}
  Rounds = 2
  MaxClicks = 2
  Sizes = {0, 1, 2, 3}
  Values = {7, 8}
  Garbage <- SomeGarbage
  Sources = {"a", "b"}
  Outputs = {"out.java", "out.txt"}
  JavaOutputs = {"out.java"}
  Contents <- SomeContents
  MaxBytes = 5
  Letters = {"a", "b", "c"}
  MaxLength = 5
  MaxK = 2
  Points = {1, 2, 3}
  Buttons = 2
  Drawings <- SomeDrawings
  MaxStrokes = 2
  MaxPoints = 3
  MaxReceived = 1
  p1 = p1
  p2 = p2
  c1 = c1
  c2 = c2
INVARIANTS
  TypeOK
  SentScoreStands
  BlockHoldsTable
  Concatenated
  NoExactly
  NothingMixed
PROPERTIES
  EveryGuestCounted
  ImplementsFifo
  SomebodyEats
  HitRepaints
  OthersSeeStroke
  DequeueNotHeldUp
  WakeupFollows
CHECK_DEADLOCK FALSE
