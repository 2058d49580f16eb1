--------------------------- MODULE MultiplayerGame ---------------------------
(***************************************************************************)
(* The player's side of a multiplayer game: game/MultiplayerGame.java on    *)
(* top of Game (ChallengeGame), with the scene MultiplayerScene inherits    *)
(* from ChallengeScene.                                                     *)
(*                                                                         *)
(* Pieces come from the server.  spawnPiece sends PIECE and then polls a    *)
(* field until the thread of the web socket has set it, all of it on the    *)
(* application thread: a handler that needs a piece stops in the middle,    *)
(* and no other handler runs until the answer is there, while timer threads *)
(* and the web socket go on.  Each handler is therefore two actions, with   *)
(* the variable spawning saying which one waits.                            *)
(*                                                                         *)
(* The server is not part of the repository.  It is taken to answer each    *)
(* PIECE once, in order, after any delay.                                   *)
(***************************************************************************)
EXTENDS Grid

CONSTANTS PieceNumbers, LevelStep, TimerId, MaxScore, MaxQueue

ASSUME MultiplayerAssumption ==
  /\ PieceNumbers \subseteq 0 .. 14 /\ PieceNumbers # {}
  /\ LevelStep \in Nat \ {0}
  /\ TimerId # {}
  /\ MaxScore \in Nat
  /\ MaxQueue \in Nat

VARIABLES
  grid, score, multiplier, level, lives,
  currentPiece, followingPiece, pieceBoards, hovered,
  gameTimer, period, armed, firing, fxQueue, barDelay, scene,
  spawning,       \* the handler that waits in spawnPiece, or "no"
  requests,       \* PIECE commands on their way to the server
  answers,        \* piece numbers on their way back
  receiving,      \* the web socket thread is inside the PIECE case
  pieceValue,
  pieceUpdatedFromServer,
  sent            \* the last SCORE and LIVES sent, whether the board has not
                  \* changed since the last BOARD, whether DIE was sent

Game == INSTANCE ChallengeGame

boardVars == <<grid, score, multiplier, level>>
timerVars == <<gameTimer, period, armed>>
gameVars == <<boardVars, lives, currentPiece, followingPiece, pieceBoards,
              hovered, timerVars, firing, fxQueue, barDelay, scene>>
socketVars == <<answers, receiving, pieceValue>>
netVars == <<spawning, requests, socketVars, pieceUpdatedFromServer, sent>>
multiVars == <<gameVars, netVars>>

\* currentPiece and followingPiece before the server has dealt (null).
NoPiece == [value |-> 0, blocks |-> {}]

-----------------------------------------------------------------------------
(***************************************************************************)
(* initialise of the scene has called initialiseGame, which waits for its   *)
(* first piece; no Timer is scheduled yet, and lives still is 0.            *)
(***************************************************************************)
Init ==
  /\ grid = EmptyGrid
  /\ score = 0 /\ multiplier = 0 /\ level = 0 /\ lives = 0
  /\ currentPiece = NoPiece /\ followingPiece = NoPiece
  /\ pieceBoards = <<NoPiece, NoPiece>>
  /\ hovered = <<0, 0>>
  /\ gameTimer \in TimerId
  /\ period = Game!GetTimerDelay(0)
  /\ armed = {} /\ firing = {} /\ fxQueue = <<>>
  /\ barDelay = 12000
  /\ scene = "challenge"
  /\ spawning = "first"
  /\ requests = 1
  /\ answers = <<>>
  /\ receiving = FALSE
  /\ pieceValue = 0
  /\ pieceUpdatedFromServer = FALSE
  /\ sent = [score |-> 0, lives |-> 0, board |-> TRUE, dead |-> FALSE]

(***************************************************************************)
(* The change listeners on score and lives, there until close.              *)
(***************************************************************************)
Listening == scene = "challenge"

Reported(s, l) ==
  IF Listening THEN [sent EXCEPT !.score = s, !.lives = l] ELSE sent

(***************************************************************************)
(* spawnPiece up to its wait, from nextPiece of the handler named by who.   *)
(***************************************************************************)
\* Wrong on purpose: the request is lost.
AskForPieceUnsent(who) ==
  /\ currentPiece' = followingPiece
  /\ spawning' = who
  /\ UNCHANGED <<requests, followingPiece, pieceBoards>>

AskForPiece(who) ==
  /\ currentPiece' = followingPiece
  /\ spawning' = who
  /\ requests' = requests + 1
  /\ UNCHANGED <<followingPiece, pieceBoards>>

(***************************************************************************)
(* blockClicked and enterPressed as far as the wait.  Only blockClicked is  *)
(* overridden to send the board.  A piece is played while TimerId holds a   *)
(* Timer for afterPiece to schedule: like MaxScore, a bound of the model.   *)
(***************************************************************************)
PlayAt(x, y, report) ==
  /\ spawning = "no"
  /\ scene = "challenge"
  /\ score <= MaxScore
  /\ Game!FreshTimers # {}
  /\ CanPlayPiece(grid, x, y, currentPiece)
  /\ grid' = PlayPiece(grid, x, y, currentPiece)
  /\ sent' = [sent EXCEPT !.board = report]
  /\ AskForPiece("placed")
  /\ UNCHANGED <<score, multiplier, level, lives, hovered, timerVars,
                 firing, fxQueue, barDelay, scene, socketVars,
                 pieceUpdatedFromServer>>

BlockClicked(x, y) == PlayAt(x, y, TRUE)

EnterPressed == PlayAt(hovered[1], hovered[2], FALSE)

\* Wrong on purpose: the lives are reported before one is taken.
GameLoopUnreported ==
  /\ spawning = "no"
  /\ fxQueue # <<>>
  /\ fxQueue' = Tail(fxQueue)
  /\ lives' = lives - 1
  /\ sent' = Reported(score, lives)
  /\ AskForPiece("gameLoop")
  /\ UNCHANGED <<boardVars, hovered, timerVars, firing, barDelay,
                 scene, socketVars, pieceUpdatedFromServer>>

GameLoop ==
  /\ spawning = "no"
  /\ fxQueue # <<>>
  /\ fxQueue' = Tail(fxQueue)
  /\ lives' = lives - 1
  /\ sent' = Reported(score, lives')
  /\ AskForPiece("gameLoop")
  /\ UNCHANGED <<boardVars, hovered, timerVars, firing, barDelay,
                 scene, socketVars, pieceUpdatedFromServer>>

-----------------------------------------------------------------------------
(***************************************************************************)
(* The wait ends: spawnPiece takes the piece and its caller goes on.        *)
(***************************************************************************)
\* Wrong on purpose: the flag stays set for the next request.
TakePieceUnreset ==
  /\ pieceUpdatedFromServer
  /\ followingPiece' = CreatePiece(pieceValue)
  /\ UNCHANGED <<socketVars, pieceUpdatedFromServer>>

\* Wrong on purpose: takes the server's number for a value, one too high.
TakePieceNextNumber ==
  /\ pieceUpdatedFromServer
  /\ pieceUpdatedFromServer' = FALSE
  /\ followingPiece' = CreatePiece((pieceValue + 1) % 15)
  /\ UNCHANGED socketVars

TakePiece ==
  /\ pieceUpdatedFromServer
  /\ pieceUpdatedFromServer' = FALSE
  /\ followingPiece' = CreatePiece(pieceValue)
  /\ UNCHANGED socketVars

TellPieceBoards == pieceBoards' = <<currentPiece, followingPiece'>>

\* initialiseGame: followingPiece is there, nextPiece asks for one more.
FirstPiece ==
  /\ spawning = "first"
  /\ TakePiece
  /\ currentPiece' = followingPiece'
  /\ spawning' = "second"
  /\ requests' = requests + 1
  /\ UNCHANGED <<boardVars, lives, pieceBoards, hovered, timerVars,
                 firing, fxQueue, barDelay, scene, sent>>

\* The rest of initialiseGame, and restBarTimer.
SecondPiece ==
  /\ spawning = "second"
  /\ TakePiece
  /\ TellPieceBoards
  /\ score' = 0 /\ multiplier' = 1 /\ lives' = 3 /\ level' = 0
  /\ sent' = Reported(0, 3)
  /\ armed' = {gameTimer}
  /\ barDelay' = 12000
  /\ spawning' = "no"
  /\ UNCHANGED <<grid, currentPiece, hovered, gameTimer, period, firing,
                 fxQueue, scene, requests>>

\* blockClicked or enterPressed: the listeners of nextPiece, then afterPiece.
PlacedPiece ==
  /\ spawning = "placed"
  /\ TakePiece
  /\ TellPieceBoards
  /\ Game!AfterPiece(grid)
  /\ sent' = [Reported(score', lives) EXCEPT !.board = @ /\ grid' = grid]
  /\ spawning' = "no"
  /\ UNCHANGED <<currentPiece, lives, hovered, firing, fxQueue, requests>>

\* gameLoop: listeners, multiplier, GameLoopListener, whose gameOver calls
\* close, which says DIE.
LifeLost ==
  /\ spawning = "gameLoop"
  /\ TakePiece
  /\ TellPieceBoards
  /\ multiplier' = 1
  /\ Game!GameLoopListener(Game!GetTimerDelay(level), lives, armed, gameTimer)
  /\ sent' = IF lives = -1 THEN [sent EXCEPT !.dead = TRUE] ELSE sent
  /\ spawning' = "no"
  /\ UNCHANGED <<grid, score, level, lives, currentPiece, hovered, gameTimer,
                 period, firing, fxQueue, requests>>

-----------------------------------------------------------------------------
(***************************************************************************)
(* The server and the web socket thread, which sets the value first and the *)
(* flag afterwards.                                                         *)
(***************************************************************************)
ServerDeals(n) ==
  /\ requests > 0
  /\ requests' = requests - 1
  /\ answers' = Append(answers, n)
  /\ UNCHANGED <<gameVars, spawning, receiving, pieceValue,
                 pieceUpdatedFromServer, sent>>

ReceivePiece ==
  /\ ~receiving
  /\ answers # <<>>
  /\ answers' = Tail(answers)
  /\ receiving' = TRUE
  /\ pieceValue' = Head(answers)
  /\ UNCHANGED <<gameVars, spawning, requests, pieceUpdatedFromServer, sent>>

SetUpdated ==
  /\ receiving
  /\ receiving' = FALSE
  /\ pieceUpdatedFromServer' = TRUE
  /\ UNCHANGED <<gameVars, spawning, requests, answers, pieceValue, sent>>

(***************************************************************************)
(* What the game does as a single player one, when no handler is waiting.   *)
(***************************************************************************)
Input ==
  /\ spawning = "no"
  /\ \/ Game!PieceKey
     \/ Game!MoveHover
     \/ \E c \in Cells : Game!MouseMoved(c[1], c[2])
  /\ UNCHANGED netVars

\* ESC: close says DIE whatever was in progress on the server.
Escape ==
  /\ spawning = "no"
  /\ Game!Escape
  /\ sent' = [sent EXCEPT !.dead = TRUE]
  /\ UNCHANGED <<spawning, requests, socketVars, pieceUpdatedFromServer>>

TimerThreads == Game!TimerThreads /\ UNCHANGED netVars

-----------------------------------------------------------------------------
Play == EnterPressed \/ \E c \in Cells : BlockClicked(c[1], c[2])

PieceArrives == FirstPiece \/ SecondPiece \/ PlacedPiece \/ LifeLost

Socket == ReceivePiece \/ SetUpdated \/ \E n \in PieceNumbers : ServerDeals(n)

Next == Play \/ GameLoop \/ PieceArrives \/ Socket \/ Input \/ Escape \/ TimerThreads

Spec == Init /\ [][Next]_multiVars

(***************************************************************************)
(* The server answers, the socket thread delivers, and the poll of          *)
(* spawnPiece comes round every 100 ms.                                     *)
(***************************************************************************)
Fairness ==
  /\ WF_multiVars(\E n \in PieceNumbers : ServerDeals(n))
  /\ WF_multiVars(ReceivePiece) /\ WF_multiVars(SetUpdated)
  /\ WF_multiVars(PieceArrives)

FairSpec == Spec /\ Fairness

-----------------------------------------------------------------------------
(***************************************************************************)
(*                              Properties                                 *)
(***************************************************************************)
Hand == Game!DealtPiece \cup {NoPiece}

\* Every variable holds a value of its type, from the first wait on.
TypeOK ==
  /\ grid \in [Cells -> 0 .. 15]
  /\ score \in Nat /\ multiplier \in Nat /\ level \in Nat /\ lives \in Int
  /\ currentPiece \in Hand /\ followingPiece \in Hand
  /\ pieceBoards \in Hand \X Hand
  /\ hovered \in Cells
  /\ gameTimer \in TimerId /\ period \in Game!Delays /\ barDelay \in Game!Delays
  /\ armed \in SUBSET TimerId /\ firing \in SUBSET TimerId
  /\ fxQueue \in Seq(TimerId)
  /\ scene \in {"challenge", "menu", "scores"}
  /\ spawning \in {"no", "first", "second", "placed", "gameLoop"}
  /\ requests \in Nat
  /\ answers \in Seq(PieceNumbers)
  /\ pieceValue \in PieceNumbers \cup {0}
  /\ receiving \in BOOLEAN /\ pieceUpdatedFromServer \in BOOLEAN
  /\ sent \in [score : Nat, lives : Int, board : BOOLEAN,
               dead : BOOLEAN]

Count(b) == IF b THEN 1 ELSE 0

\* A handler that waits has exactly one piece coming, be it a request, an
\* answer, half received or ready to take; a handler that does not wait has
\* none, so no answer to an old request is ever taken for a new one although
\* spawnPiece does not clear the flag before it asks.
OneAnswerPerWait ==
  requests + Len(answers) + Count(receiving) + Count(pieceUpdatedFromServer)
    = Count(spawning # "no")

\* Whatever the delays, the pieces come into the hand as the server dealt
\* them: none lost, none twice, none out of order, none while another handler
\* is at work (PieceFeed).
Feed == INSTANCE PieceFeed WITH
          Numbers     <- PieceNumbers,
          Nothing     <- NoPiece,
          undelivered <- (IF receiving \/ pieceUpdatedFromServer
                          THEN <<pieceValue>> ELSE <<>>) \o answers,
          current     <- currentPiece,
          following   <- followingPiece,
          wanted      <- (spawning # "no")
ImplementsFeed == Feed!Spec

\* As long as the game has not said DIE the server has its score and lives,
\* the last life lost included: gameOver closes, and removes the listeners,
\* only after the life was reported.
ServerKnowsScore ==
  spawning \notin {"first", "second"} /\ ~sent.dead =>
    sent.score = score /\ sent.lives = lives

\* A gameLoop that was queued while a handler waited finds the game whole: one
\* Timer, the delay of the level, and no full line left, after however many
\* lives were lost in a row.
GameWholeBetweenHandlers ==
  spawning = "no" => /\ Game!OneTimerScheduled
                     /\ Game!DelayFollowsLevel
                     /\ Game!NoFullLine
                     /\ Game!PieceBoardsCurrent

\* The application thread never stays in spawnPiece: every wait ends.
PlayResumes == (spawning # "no") ~> (spawning = "no")

\* "construct and send a BOARD command to tell the server the board has been
\* updated" (MultiplayerGame.java:122): between two handlers the server has the
\* player's board as it is.
BoardReported == spawning = "no" /\ ~sent.dead => sent.board
==============================================================================
