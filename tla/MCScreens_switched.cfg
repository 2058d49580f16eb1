SPECIFICATION Spec
CONSTANTS
  Me <- Mine
  Others <- TwoOthers
  ScoreLists <- Lists
  MaxRebuilds = 1
  MaxVersion = 1
  MaxLoads = 7
  Points <- TwoScores
  Names = {"plain", "colon"}
  Stored <- OneLine
  Online <- OneLine
  Top = 2
  MaxScenes = 2
  MaxClicks = 2
PROPERTIES
  SwitchedPlaces
CHECK_DEADLOCK FALSE
