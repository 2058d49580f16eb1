-------------------------------- MODULE Screens --------------------------------
(***************************************************************************)
(* The windows around the game, checked together: what a multiplayer game   *)
(* shows of its opponents (Opponents), the changes from one scene to the    *)
(* next (Scenes) and the scores scene (Scores).                             *)
(*                                                                         *)
(* The three share no state that their properties speak of, so a behaviour  *)
(* is one of one of them, chosen at the start, and the other two stay as    *)
(* they begin.                                                              *)
(***************************************************************************)
EXTENDS Integers, Sequences, FiniteSets

CONSTANTS
  Me, Others, ScoreLists, MaxRebuilds, MaxVersion,        \* Opponents
  MaxLoads,                                               \* Scenes
  Points, Names, Stored, Online, Top, MaxScenes, MaxClicks   \* Scores

VARIABLES
  part,   \* which of them the behaviour is of
  \* Opponents
  roster, built, scores, todo, socket, rebuilds, building, lines, modified, missed,
  panel, runnerUps, labels, boards, latest,
  \* Scenes
  loaded, inits, fxQueue, settling, polling, timers, running, ended, requests, seats,
  starting, late,
  \* Scores
  file, submitted, cut, scene, screen, userScores, local, fx, clicks, reactions,
  handlers, delivery, asked, answers, server

O == INSTANCE Opponents WITH scene <- built
W == INSTANCE Scenes
S == INSTANCE Scores WITH fxQueue <- reactions, requests <- asked

oVars == <<roster, built, scores, todo, socket, rebuilds, building, lines, modified,
           missed, panel, runnerUps, labels, boards, latest>>
wVars == <<loaded, inits, fxQueue, settling, polling, timers, running, ended, requests,
           seats, starting, late>>
sVars == <<file, submitted, cut, scene, screen, userScores, local, fx, clicks, reactions,
           handlers, delivery, asked, answers, server>>
vars  == <<part, oVars, wVars, sVars>>

ASSUME ScreensAssumption ==
  O!OpponentsAssumption /\ W!ScenesAssumption /\ S!ScoresAssumption

Opponents == part = "opponents"
Scenes    == part = "scenes"
Scores    == part = "scores"

\* Who plays matters to nobody else.
Init ==
  /\ part \in {"opponents", "scenes", "scores"}
  /\ O!Init /\ W!Init /\ S!Init
  /\ Opponents \/ roster = CHOOSE r \in O!Rosters : TRUE

InOpponents(A) == Opponents /\ A /\ UNCHANGED <<part, wVars, sVars>>
InScenes(A)    == Scenes /\ A /\ UNCHANGED <<part, oVars, sVars>>
InScores(A)    == Scores /\ A /\ UNCHANGED <<part, oVars, wVars>>

Next == InOpponents(O!Next) \/ InScenes(W!Next) \/ InScores(S!Next)

(***************************************************************************)
(* The fairness of the three modules.                                       *)
(***************************************************************************)
Fairness ==
  /\ WF_wVars(InScenes(W!RunNext))
  /\ WF_sVars(InScores(S!WriteLine \/ S!SendRequest \/ S!AddListener \/ S!RunNext))
  /\ WF_sVars(InScores(S!StartDelivery \/ S!Deliver))
  /\ WF_sVars(InScores(S!ServerAnswers))

Spec == Init /\ [][Next]_vars

FairSpec == Spec /\ Fairness

-----------------------------------------------------------------------------
(***************************************************************************)
(* The properties of the three modules, each of the part it is about.       *)
(***************************************************************************)
\* Types, and what each module's type invariant relates.
TypeOK ==
  O!TypeOK /\ W!TypeOK /\ S!TypeOK

\* The side panel shows the scores once all rebuilds are done (buildSideTopVBox).
PanelFollowsScores == O!PanelFollowsScores

\* With one opponent the first board is that opponent's last (receiveMessage, BOARD).
OnlyOpponentShown == O!OnlyOpponentShown

\* The names above the boards are of the best others (BOARD, updateRunnerUpBoards).
RunnersUpShown == [][O!BoardHandled]_vars

\* Until a runnable of a scene already left is run, scenes are initialised once and
\* only the scene shown has Timers (loadScene, LobbyScene, ChallengeScene).
OrderlyScenes == W!OrderlyScenes

\* The scene that stays is initialised (loadScene's deferred initialise).
ScenesComeAlive == []<>(Scenes => W!Alive)

\* No score on file is lost (writeScores, loadScores).
FileKeepsScores == S!FileKeepsScores

\* The first line of the file is the best score (getHighScore, comparatorTo).
HighScoreFirst == S!HighScoreFirst

\* A scene that listens before its request is answered shows the scores
\* (loadOnlineScores, Communicator.receive).
AnswerShown == (Scores /\ S!AnswerExpected) ~> (Scores /\ S!AnswerDone)

(***************************************************************************)
(* What the comments say and the code does not do.                          *)
(***************************************************************************)
\* "if runner ups have switched places", the boards do too (MultiplayerGame).
SwitchedPlaces == [][Opponents => O!BoardsFollow]_vars

\* "Initialise this scene. Called after creation": once, and the game of a scene
\* is started once (BaseScene, ChallengeScene).
GameStartedOnce == Scenes => W!GameStartedOnce
===============================================================================
