---------------------------- MODULE ChallengeGame ----------------------------
(***************************************************************************)
(* A single player game: game/Game.java with the parts of                   *)
(* scene/ChallengeScene.java and component/GameBoard.java that its          *)
(* listeners run.                                                           *)
(*                                                                         *)
(* Two kinds of thread take part.  Everything that touches the game runs on *)
(* the JavaFX application thread, one event handler or queued runnable at a *)
(* time, so a handler is one action.  Each java.util.Timer has a thread of  *)
(* its own, which only hands gameLoop to Platform.runLater: between the     *)
(* moment the timer thread starts its task, the moment the runnable is      *)
(* queued and the moment the application thread runs it, any handler may    *)
(* run, cancel the timer or leave the scene.                                *)
(***************************************************************************)
EXTENDS Grid, Sequences

CONSTANTS
  PieceNumbers,  \* the numbers random.nextInt(15) yields
  LevelStep,     \* points per level, 1000 in the code
  TimerId,       \* Timer objects
  MaxScore,      \* bound: no piece is played above this score
  MaxQueue       \* bound: runnables waiting for the application thread

ASSUME GameAssumption ==
  /\ PieceNumbers \subseteq 0 .. 14 /\ PieceNumbers # {}
  /\ LevelStep \in Nat \ {0}
  /\ TimerId # {}
  /\ MaxScore \in Nat
  /\ MaxQueue \in Nat

VARIABLES
  grid, score, multiplier, level, lives,
  currentPiece, followingPiece,
  pieceBoards,   \* what the two PieceBoards of the scene display
  hovered,       \* the cell aimed at, shared with the GameBoard by a binding
  gameTimer,     \* the Timer the field gameTimer refers to
  period,        \* the delay that Timer was scheduled with
  armed,         \* Timers scheduled and not cancelled
  firing,        \* Timers whose task has started and not yet called runLater
  fxQueue,       \* the runLater queue: which Timer's task queued each gameLoop
  barDelay,      \* the delay the bar under the board counts down
  scene          \* the scene the window shows

boardVars == <<grid, score, multiplier, level>>
pieceVars == <<currentPiece, followingPiece, pieceBoards>>
timerVars == <<gameTimer, period, armed>>
vars == <<boardVars, lives, pieceVars, hovered, timerVars, firing, fxQueue,
          barDelay, scene>>

Delays == {d \in Nat : 2500 <= d /\ d <= 12000}

\* Game.getTimerDelay, in milliseconds.
GetTimerDelay(l) == IF 12000 - 500 * l > 2500 THEN 12000 - 500 * l ELSE 2500

QueuedTimers == {fxQueue[k] : k \in DOMAIN fxQueue}

\* new Timer(...): an object no thread and no runnable knows yet.
FreshTimers == TimerId \ (armed \cup firing \cup QueuedTimers \cup {gameTimer})

-----------------------------------------------------------------------------
(***************************************************************************)
(* The state after build and initialise of the scene.                       *)
(***************************************************************************)
Init ==
  /\ grid = EmptyGrid
  /\ score = 0
  /\ multiplier = 1
  /\ lives = 3
  /\ level = 0
  /\ \E n, m \in PieceNumbers :
       /\ currentPiece = CreatePiece(n)
       /\ followingPiece = CreatePiece(m)
  /\ pieceBoards = <<currentPiece, followingPiece>>
  /\ hovered = <<0, 0>>
  /\ gameTimer \in TimerId
  /\ period = GetTimerDelay(0)
  /\ armed = {gameTimer}
  /\ firing = {}
  /\ fxQueue = <<>>
  /\ barDelay = 12000
  /\ scene = "challenge"

-----------------------------------------------------------------------------
(***************************************************************************)
(* Pieces.  Each operation ends by telling the piece boards what to show.   *)
(***************************************************************************)
HoldPieces(current, following) ==
  /\ currentPiece' = current
  /\ followingPiece' = following
  /\ pieceBoards' = <<current, following>>

\* Wrong on purpose: does not tell the piece boards.
NextPieceUntold ==
  /\ currentPiece' = followingPiece
  /\ \E n \in PieceNumbers : followingPiece' = CreatePiece(n)
  /\ UNCHANGED pieceBoards

NextPiece ==
  \E n \in PieceNumbers : HoldPieces(followingPiece, CreatePiece(n))

(***************************************************************************)
(* The scene's GameLoopListener, called with the timer delay and the lives. *)
(* scheduled is the set of Timers armed when it is called, current the one  *)
(* in gameTimer: game over cancels it and opens the scores.                 *)
(***************************************************************************)
\* Wrong on purpose: over when no life is left, one loss too early.
GameLoopListenerEarly(delay, livesLeft, scheduled, current) ==
  \/ /\ livesLeft = 0
     /\ armed' = scheduled \ {current}
     /\ scene' = "scores"
     /\ UNCHANGED barDelay
  \/ /\ livesLeft # 0
     /\ armed' = scheduled
     /\ barDelay' = delay
     /\ UNCHANGED scene

GameLoopListener(delay, livesLeft, scheduled, current) ==
  \/ /\ livesLeft = -1
     /\ armed' = scheduled \ {current}
     /\ scene' = "scores"
     /\ UNCHANGED barDelay
  \/ /\ livesLeft # -1
     /\ armed' = scheduled
     /\ barDelay' = delay
     /\ UNCHANGED scene

(***************************************************************************)
(* Game.afterPiece, on the grid the piece has just been put on.             *)
(***************************************************************************)
Score(lines, blocks) == score' = score + multiplier * 10 * lines * blocks

\* Wrong on purpose: the old Timer is not cancelled.
ResetTimerLeaking(t) ==
  /\ t \in FreshTimers
  /\ gameTimer' = t
  /\ period' = GetTimerDelay(level')
  /\ GameLoopListener(GetTimerDelay(level'), lives, armed \cup {t}, t)

\* Wrong on purpose: scheduled before the level is raised.
ResetTimerOldLevel(t) ==
  /\ t \in FreshTimers
  /\ gameTimer' = t
  /\ period' = GetTimerDelay(level)
  /\ GameLoopListener(GetTimerDelay(level), lives,
                      (armed \ {gameTimer}) \cup {t}, t)

\* Wrong on purpose: the new Timer is never scheduled.
ResetTimerUnscheduled(t) ==
  /\ t \in FreshTimers
  /\ gameTimer' = t
  /\ period' = GetTimerDelay(level')
  /\ GameLoopListener(GetTimerDelay(level'), lives, armed \ {gameTimer}, t)

ResetTimer(t) ==
  /\ t \in FreshTimers
  /\ gameTimer' = t
  /\ period' = GetTimerDelay(level')
  /\ GameLoopListener(GetTimerDelay(level'), lives,
                      (armed \ {gameTimer}) \cup {t}, t)

AfterPiece(placed) ==
  LET rows  == CompletedRows(placed)
      cols  == CompletedCols(placed)
      lines == Cardinality(rows) + Cardinality(cols)
  IN  /\ Score(lines, ClearedBlocks(rows, cols))
      /\ grid' = FadeOut(placed, Coordinates(rows, cols))
      /\ multiplier' = IF lines > 0 THEN multiplier + 1 ELSE 1
      /\ level' = score' \div LevelStep
      /\ \E t \in TimerId : ResetTimer(t)

(***************************************************************************)
(* blockClicked and enterPressed share their body.  A piece that does not   *)
(* fit changes nothing.                                                     *)
(***************************************************************************)
PlayAt(x, y) ==
  /\ scene = "challenge"
  /\ score <= MaxScore
  /\ CanPlayPiece(grid, x, y, currentPiece)
  /\ NextPiece
  /\ AfterPiece(PlayPiece(grid, x, y, currentPiece))
  /\ UNCHANGED <<lives, hovered, firing, fxQueue>>

BlockClicked(x, y) == PlayAt(x, y)

EnterPressed == PlayAt(hovered[1], hovered[2])

-----------------------------------------------------------------------------
(***************************************************************************)
(* The other keys and mouse events of the scene.                            *)
(***************************************************************************)
PieceKey ==
  /\ scene = "challenge"
  /\ \/ HoldPieces(Rotate(currentPiece), followingPiece)
     \/ HoldPieces(RotateCW(currentPiece), followingPiece)
     \/ HoldPieces(followingPiece, currentPiece)
  /\ UNCHANGED <<boardVars, lives, hovered, timerVars, firing, fxQueue,
                 barDelay, scene>>

\* Wrong on purpose: compares with Size, one past the last index.
MoveHoverPastEdge ==
  /\ scene = "challenge"
  /\ \/ hovered[2] # 0    /\ hovered' = [hovered EXCEPT ![2] = @ - 1]
     \/ hovered[1] # 0    /\ hovered' = [hovered EXCEPT ![1] = @ - 1]
     \/ hovered[2] # Size /\ hovered' = [hovered EXCEPT ![2] = @ + 1]
     \/ hovered[1] # Size /\ hovered' = [hovered EXCEPT ![1] = @ + 1]
  /\ UNCHANGED <<boardVars, lives, pieceVars, timerVars, firing, fxQueue,
                 barDelay, scene>>

MoveHover ==
  /\ scene = "challenge"
  /\ \/ hovered[2] # 0        /\ hovered' = [hovered EXCEPT ![2] = @ - 1]
     \/ hovered[1] # 0        /\ hovered' = [hovered EXCEPT ![1] = @ - 1]
     \/ hovered[2] # Size - 1 /\ hovered' = [hovered EXCEPT ![2] = @ + 1]
     \/ hovered[1] # Size - 1 /\ hovered' = [hovered EXCEPT ![1] = @ + 1]
  /\ UNCHANGED <<boardVars, lives, pieceVars, timerVars, firing, fxQueue,
                 barDelay, scene>>

MouseMoved(x, y) ==
  /\ scene = "challenge"
  /\ hovered' = <<x, y>>
  /\ UNCHANGED <<boardVars, lives, pieceVars, timerVars, firing, fxQueue,
                 barDelay, scene>>

\* ESC: game.close() and back to the menu.
Escape ==
  /\ scene = "challenge"
  /\ armed' = armed \ {gameTimer}
  /\ scene' = "menu"
  /\ UNCHANGED <<boardVars, lives, pieceVars, hovered, gameTimer, period,
                 firing, fxQueue, barDelay>>

-----------------------------------------------------------------------------
(***************************************************************************)
(* The timer threads and the runnable they queue.  cancel() keeps a task    *)
(* from starting again; it does not stop one that has started, and takes    *)
(* nothing back from the queue.                                             *)
(***************************************************************************)
TimerRunsTask(t) ==
  /\ t \in armed \ firing
  /\ firing' = firing \cup {t}
  /\ UNCHANGED <<boardVars, lives, pieceVars, hovered, timerVars, fxQueue,
                 barDelay, scene>>

RunLater(t) ==
  /\ t \in firing
  /\ Len(fxQueue) < MaxQueue
  /\ firing' = firing \ {t}
  /\ fxQueue' = Append(fxQueue, t)
  /\ UNCHANGED <<boardVars, lives, pieceVars, hovered, timerVars, barDelay,
                 scene>>

\* Wrong on purpose: a life lost does not end the run of multipliers.
GameLoopKeepsMultiplier ==
  /\ fxQueue # <<>>
  /\ fxQueue' = Tail(fxQueue)
  /\ lives' = lives - 1
  /\ NextPiece
  /\ GameLoopListener(GetTimerDelay(level), lives', armed, gameTimer)
  /\ UNCHANGED <<grid, score, multiplier, level, hovered, gameTimer, period,
                 firing>>

\* Game.gameLoop, on the application thread, whatever scene is on show.
GameLoop ==
  /\ fxQueue # <<>>
  /\ fxQueue' = Tail(fxQueue)
  /\ lives' = lives - 1
  /\ NextPiece
  /\ multiplier' = 1
  /\ GameLoopListener(GetTimerDelay(level), lives', armed, gameTimer)
  /\ UNCHANGED <<grid, score, level, hovered, gameTimer, period, firing>>

-----------------------------------------------------------------------------
Play == EnterPressed \/ \E c \in Cells : BlockClicked(c[1], c[2])

Input == PieceKey \/ MoveHover \/ Escape \/ \E c \in Cells : MouseMoved(c[1], c[2])

TimerThreads == \E t \in TimerId : TimerRunsTask(t) \/ RunLater(t)

Next == Play \/ Input \/ TimerThreads \/ GameLoop

Spec == Init /\ [][Next]_vars

(***************************************************************************)
(* The timer threads and the application thread keep running; nothing makes *)
(* the player do anything.                                                  *)
(***************************************************************************)
Fairness ==
  /\ \A t \in TimerId : WF_vars(TimerRunsTask(t)) /\ WF_vars(RunLater(t))
  /\ WF_vars(GameLoop)

FairSpec == Spec /\ Fairness

-----------------------------------------------------------------------------
(***************************************************************************)
(*                              Properties                                 *)
(***************************************************************************)

\* A piece of one of the numbers dealt, in any rotation.
DealtPiece == {p \in Piece : p.value - 1 \in PieceNumbers}

\* Every variable holds a value of its type: in particular the aimed cell is
\* on the board (MoveHover stops at its edges) and pieces keep their shape
\* inside 3x3 however they are rotated.
TypeOK ==
  /\ grid \in [Cells -> 0 .. 15]
  /\ score \in Nat
  /\ multiplier \in Nat \ {0}
  /\ level \in Nat
  /\ lives \in Int
  /\ currentPiece \in DealtPiece
  /\ followingPiece \in DealtPiece
  /\ pieceBoards \in DealtPiece \X DealtPiece
  /\ hovered \in Cells
  /\ gameTimer \in TimerId
  /\ period \in Delays
  /\ armed \in SUBSET TimerId
  /\ firing \in SUBSET TimerId
  /\ fxQueue \in Seq(TimerId)
  /\ barDelay \in Delays
  /\ scene \in {"challenge", "menu", "scores"}

\* When no handler is running no row and no column is complete: afterPiece
\* finds every line the piece completed, those completed together included,
\* and the line-cleared listener empties all of them.
NoFullLine ==
  \A i \in Index : /\ \E j \in Index : grid[<<i, j>>] = 0
                   /\ \E j \in Index : grid[<<j, i>>] = 0

\* While the game is played exactly the Timer the game refers to is scheduled,
\* and once its scene is left none is: no placement leaks a Timer that would
\* cost a second life per period, and neither way of closing leaves one.
OneTimerScheduled ==
  armed = IF scene = "challenge" THEN {gameTimer} ELSE {}

\* The Timer that is running, and the bar that shows it, count down the delay
\* of the level on display: afterPiece schedules the new Timer after it has
\* raised the level, not before.
DelayFollowsLevel ==
  /\ period = GetTimerDelay(level)
  /\ scene = "challenge" => barDelay = period

\* The two piece boards display the pieces the next click will play, after
\* every placement, life lost, rotation and swap.
PieceBoardsCurrent == pieceBoards = <<currentPiece, followingPiece>>

\* The game is played with 0 to 3 lives left, and its scores are shown only
\* when the life after the last is lost, however many gameLoops were waiting.
EndsAfterLastLife ==
  /\ scene = "challenge" => lives \in 0 .. 3
  /\ scene = "scores" => lives < 0

\* The game implements the rules: points, multiplier, level and lives move as
\* ChallengeRules says, with the cells counted rather than computed.
Rules == INSTANCE ChallengeRules WITH
           Colours <- {n + 1 : n \in PieceNumbers},
           over    <- (scene # "challenge")
ImplementsRules == Rules!Spec

\* A player who stops playing loses: unless pieces keep being placed, the
\* running Timer ends the game (or the player leaves it).
IdleGameEnds == []<><<Play>>_vars \/ <>(scene # "challenge")

\* The game is shut down "before going back - or it'll keep playing!"
\* (ChallengeScene.java:433): a game the player has left never takes the player
\* out of the menu.
LeavingShutsDown == [][scene = "menu" => scene' = "menu"]_vars

\* gameLoop is "triggered when the game timer runs down" (Game.java:120): a
\* life is only lost to the Timer that is counting down now.
LivesLostToRunningTimer == [][lives' < lives => Head(fxQueue) \in armed]_vars
==============================================================================
