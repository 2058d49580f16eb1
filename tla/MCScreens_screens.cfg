SPECIFICATION FairSpec
CONSTANTS
  Me <- Mine
  Others <- TwoOthers
  ScoreLists <- Lists
  MaxRebuilds = 1
  MaxVersion = 1
  MaxLoads = 7
  Points <- TwoScores
  Names = {"plain", "colon"}
  Stored <- OneLine
  Online <- OneLine
  Top = 2
  MaxScenes = 2
  MaxClicks = 2
INVARIANTS
  TypeOK
  PanelFollowsScores
  OnlyOpponentShown
  OrderlyScenes
  FileKeepsScores
  HighScoreFirst
PROPERTIES
  RunnersUpShown
  ScenesComeAlive
  AnswerShown
CHECK_DEADLOCK FALSE
