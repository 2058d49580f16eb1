-------------------------- MODULE ChallengeGameProofs --------------------------
(***************************************************************************)
(* The safety invariants of ChallengeGame hold for every board size, every  *)
(* set of pieces, any number of timers and however long the runLater queue  *)
(* grows; and the game implements ChallengeRules.                           *)
(***************************************************************************)
EXTENDS ChallengeGame, GridProofs

Inv ==
  /\ TypeOK
  /\ NoFullLine
  /\ OneTimerScheduled
  /\ DelayFollowsLevel
  /\ PieceBoardsCurrent
  /\ EndsAfterLastLife

-----------------------------------------------------------------------------
\* The delay of every level is between 2.5 and 12 seconds.
LEMMA DelayType == \A l \in Nat : GetTimerDelay(l) \in Delays
BY DEF GetTimerDelay, Delays

\* A piece that is dealt or rotated is one of the numbers in play.
LEMMA DealtType ==
  /\ \A n \in PieceNumbers : CreatePiece(n) \in DealtPiece
  /\ \A p \in DealtPiece : Rotate(p) \in DealtPiece
<1>1. ASSUME NEW n \in PieceNumbers
      PROVE  CreatePiece(n) \in DealtPiece
  <2>1. n \in 0 .. 14
    BY GameAssumption
  <2>2. CreatePiece(n) \in Piece
    BY <2>1, CreatePieceType
  <2>3. CreatePiece(n).value - 1 = n
    BY <2>1 DEF CreatePiece
  <2> QED
    BY <2>2, <2>3 DEF DealtPiece
<1>2. ASSUME NEW p \in DealtPiece
      PROVE  Rotate(p) \in DealtPiece
  <2>1. p \in Piece
    BY DEF DealtPiece
  <2>2. Rotate(p) \in Piece
    BY <2>1, RotateType
  <2>3. Rotate(p).value = p.value
    BY <2>1 DEF Rotate, Piece
  <2> QED
    BY <2>2, <2>3 DEF DealtPiece
<1> QED
  BY <1>1, <1>2

\* Dealing a piece keeps both pieces pieces and the boards up to date.
LEMMA NextPieceType ==
  ASSUME TypeOK, NextPiece
  PROVE  /\ currentPiece' \in DealtPiece
         /\ followingPiece' \in DealtPiece
         /\ pieceBoards' = <<currentPiece', followingPiece'>>
<1>1. PICK n \in PieceNumbers : HoldPieces(followingPiece, CreatePiece(n))
  BY DEF NextPiece
<1>2. CreatePiece(n) \in DealtPiece
  BY DealtType
<1> QED
  BY <1>1, <1>2 DEF HoldPieces, TypeOK

\* Covering cells and emptying lines leaves colours and empty cells.
LEMMA PlacedType ==
  ASSUME TypeOK, NEW x, NEW y, NEW p \in DealtPiece
  PROVE  PlayPiece(grid, x, y, p) \in [Cells -> 0 .. 15]
BY DEF PlayPiece, TypeOK, DealtPiece, Piece

\* The points of a placement, whatever lines it completes.
LEMMA PointsType ==
  ASSUME NEW g, NEW m \in Nat
  PROVE  LET rows  == CompletedRows(g)
             cols  == CompletedCols(g)
             lines == Cardinality(rows) + Cardinality(cols)
         IN  /\ lines \in Nat
             /\ ClearedBlocks(rows, cols) \in Nat
             /\ m * 10 * lines * ClearedBlocks(rows, cols) \in Nat
<1> DEFINE rows  == CompletedRows(g)
           cols  == CompletedCols(g)
           lines == Cardinality(rows) + Cardinality(cols)
           k == ClearedBlocks(rows, cols)
<1>1. rows \in SUBSET Index /\ cols \in SUBSET Index
  BY DEF CompletedRows, CompletedCols
<1>2. lines \in Nat
  BY <1>1, LinesFinite
<1>3. k \in Nat
  BY <1>1, ClearedBlocksCounts, FS_CardinalityType
<1> HIDE DEF rows, cols, lines, k
<1>4. m * 10 * lines \in Nat
  BY <1>2
<1>5. m * 10 * lines * k \in Nat
  BY <1>3, <1>4
<1> QED
  BY <1>2, <1>3, <1>5 DEF rows, cols, lines, k

\* What one placement does to everything but the pieces, whoever placed it.
LEMMA AfterPieceInv ==
  ASSUME NEW placed \in [Cells -> 0 .. 15], AfterPiece(placed),
         score \in Nat, multiplier \in Nat, lives # -1,
         armed = {gameTimer}, scene = "challenge"
  PROVE  /\ grid' \in [Cells -> 0 .. 15]
         /\ NoFullLine'
         /\ score' \in Nat
         /\ multiplier' \in Nat \ {0}
         /\ level' \in Nat
         /\ gameTimer' \in TimerId
         /\ armed' = {gameTimer'}
         /\ period' = GetTimerDelay(level')
         /\ barDelay' = period'
         /\ period' \in Delays
         /\ scene' = "challenge"
<1> DEFINE rows  == CompletedRows(placed)
           cols  == CompletedCols(placed)
           lines == Cardinality(rows) + Cardinality(cols)
<1>1. /\ score' = score + multiplier * 10 * lines * ClearedBlocks(rows, cols)
      /\ grid' = FadeOut(placed, Coordinates(rows, cols))
      /\ multiplier' = IF lines > 0 THEN multiplier + 1 ELSE 1
      /\ level' = score' \div LevelStep
      /\ \E t \in TimerId : ResetTimer(t)
  BY DEF AfterPiece, Score
<1>2. grid' \in [Cells -> 0 .. 15]
  BY <1>1 DEF FadeOut
<1>3. NoFullLine'
  <2>1. CompletedRows(grid') = {} /\ CompletedCols(grid') = {}
    BY <1>1, FadeOutLeavesNoLine
  <2>2. \A i \in Index : \E j \in Index : grid'[<<j, i>>] = 0
    BY <2>1 DEF CompletedRows
  <2>3. \A i \in Index : \E j \in Index : grid'[<<i, j>>] = 0
    BY <2>1 DEF CompletedCols
  <2> QED
    BY <2>2, <2>3 DEF NoFullLine
<1>4. score' \in Nat
  <2>1. multiplier * 10 * lines * ClearedBlocks(rows, cols) \in Nat
    BY PointsType
  <2> QED
    BY <1>1, <2>1
<1>5. multiplier' \in Nat \ {0}
  BY <1>1
<1>6. level' \in Nat
  BY <1>1, <1>4, GameAssumption
<1>7. PICK t \in TimerId : ResetTimer(t)
  BY <1>1
<1>8. /\ gameTimer' = t
      /\ period' = GetTimerDelay(level')
      /\ armed' = (armed \ {gameTimer}) \cup {t}
      /\ barDelay' = GetTimerDelay(level')
      /\ scene' = scene
  BY <1>7 DEF ResetTimer, GameLoopListener
<1>9. armed' = {gameTimer'}
  BY <1>8
<1>10. period' \in Delays
  <2>1. GetTimerDelay(level') \in Delays
    BY <1>6, DelayType
  <2>2. period' = GetTimerDelay(level')
    BY <1>8
  <2> QED
    BY <2>1, <2>2
<1> HIDE DEF rows, cols, lines
<1> QED
  BY <1>2, <1>3, <1>4, <1>5, <1>6, <1>8, <1>9, <1>10

-----------------------------------------------------------------------------
LEMMA InitInv == Init => Inv
<1> SUFFICES ASSUME Init PROVE Inv
  OBVIOUS
<1>1. PICK n \in PieceNumbers, m \in PieceNumbers :
        currentPiece = CreatePiece(n) /\ followingPiece = CreatePiece(m)
  BY DEF Init
<1>2. currentPiece \in DealtPiece /\ followingPiece \in DealtPiece
  BY <1>1, DealtType
<1>3. 0 \in Index
  BY SizeAssumption DEF Index
<1>4. hovered \in Cells
  BY <1>3 DEF Init, Cells
<1>5. GetTimerDelay(0) = 12000 /\ 12000 \in Delays
  BY DEF GetTimerDelay, Delays
<1>6. TypeOK
  <2>1. grid \in [Cells -> 0 .. 15]
    BY DEF Init, EmptyGrid
  <2>2. pieceBoards \in DealtPiece \X DealtPiece
    BY <1>2 DEF Init
  <2> QED
    BY <1>2, <1>4, <1>5, <2>1, <2>2 DEF Init, TypeOK
<1>7. NoFullLine
  <2>1. \A i \in Index : <<0, i>> \in Cells /\ <<i, 0>> \in Cells
    BY <1>3 DEF Cells
  <2>2. grid = [c \in Cells |-> 0]
    BY DEF Init, EmptyGrid
  <2>3. \A i \in Index : grid[<<0, i>>] = 0 /\ grid[<<i, 0>>] = 0
    BY <2>1, <2>2
  <2> QED
    BY <1>3, <2>3 DEF NoFullLine
<1>8. OneTimerScheduled /\ DelayFollowsLevel /\ PieceBoardsCurrent
  BY <1>5 DEF Init, OneTimerScheduled, DelayFollowsLevel, PieceBoardsCurrent
<1>9. EndsAfterLastLife
  BY DEF Init, EndsAfterLastLife
<1> QED
  BY <1>6, <1>7, <1>8, <1>9 DEF Inv

LEMMA PlayInv ==
  ASSUME Inv, NEW x, NEW y, PlayAt(x, y)
  PROVE  Inv'
<1> DEFINE placed == PlayPiece(grid, x, y, currentPiece)
<1>1. /\ scene = "challenge"
      /\ NextPiece
      /\ AfterPiece(placed)
      /\ UNCHANGED <<lives, hovered, firing, fxQueue>>
  BY DEF PlayAt
<1>2. TypeOK
  BY DEF Inv
<1>3. placed \in [Cells -> 0 .. 15]
  BY <1>2, PlacedType DEF TypeOK
<1> HIDE DEF placed
<1>4. /\ currentPiece' \in DealtPiece
      /\ followingPiece' \in DealtPiece
      /\ pieceBoards' = <<currentPiece', followingPiece'>>
  BY <1>1, <1>2, NextPieceType
<1>5. /\ grid' \in [Cells -> 0 .. 15]
      /\ NoFullLine'
      /\ score' \in Nat
      /\ multiplier' \in Nat \ {0}
      /\ level' \in Nat
      /\ gameTimer' \in TimerId
      /\ armed' = {gameTimer'}
      /\ period' = GetTimerDelay(level')
      /\ barDelay' = period'
      /\ period' \in Delays
      /\ scene' = "challenge"
  <2>1. score \in Nat /\ multiplier \in Nat
    BY <1>2 DEF TypeOK
  <2>2. lives # -1 /\ armed = {gameTimer}
    BY <1>1 DEF Inv, EndsAfterLastLife, OneTimerScheduled
  <2> QED
    BY <1>1, <1>3, <2>1, <2>2, AfterPieceInv
<1>6. TypeOK'
  <2>1. /\ lives' \in Int /\ hovered' \in Cells
        /\ firing' \in SUBSET TimerId /\ fxQueue' \in Seq(TimerId)
    BY <1>1, <1>2 DEF TypeOK
  <2>2. /\ period' \in Delays
        /\ barDelay' \in Delays
    BY <1>5
  <2>3. pieceBoards' \in DealtPiece \X DealtPiece
    BY <1>4
  <2>4. armed' \in SUBSET TimerId
    BY <1>5
  <2> QED
    BY <1>4, <1>5, <2>1, <2>2, <2>3, <2>4 DEF TypeOK
<1>7. OneTimerScheduled' /\ DelayFollowsLevel' /\ PieceBoardsCurrent'
  BY <1>4, <1>5 DEF OneTimerScheduled, DelayFollowsLevel, PieceBoardsCurrent
<1>8. EndsAfterLastLife'
  BY <1>1, <1>5 DEF Inv, EndsAfterLastLife
<1> QED
  BY <1>5, <1>6, <1>7, <1>8 DEF Inv

LEMMA PieceKeyInv ==
  ASSUME Inv, PieceKey
  PROVE  Inv'
<1>1. Rotate(currentPiece) \in DealtPiece /\ RotateCW(currentPiece) \in DealtPiece
  BY DealtType DEF Inv, TypeOK, RotateCW
<1>2. /\ currentPiece' \in DealtPiece
      /\ followingPiece' \in DealtPiece
      /\ pieceBoards' = <<currentPiece', followingPiece'>>
  BY <1>1 DEF PieceKey, HoldPieces, Inv, TypeOK
<1>3. TypeOK'
  BY <1>2 DEF PieceKey, Inv, TypeOK, boardVars, timerVars
<1> QED
  BY <1>2, <1>3 DEF PieceKey, Inv, boardVars, timerVars, NoFullLine,
     OneTimerScheduled, DelayFollowsLevel, PieceBoardsCurrent, EndsAfterLastLife

LEMMA HoverInv ==
  ASSUME Inv, MoveHover \/ \E c \in Cells : MouseMoved(c[1], c[2])
  PROVE  Inv'
<1>1. hovered' \in Cells
  <2>1. CASE MoveHover
    <3>1. hovered \in Index \X Index
      BY DEF Inv, TypeOK, Cells
    <3> QED
      BY <2>1, <3>1, SizeAssumption DEF MoveHover, Index, Cells
  <2>2. CASE \E c \in Cells : MouseMoved(c[1], c[2])
    BY <2>2 DEF MouseMoved, Cells
  <2> QED
    BY <2>1, <2>2
<1>2. UNCHANGED <<boardVars, lives, pieceVars, timerVars, firing, fxQueue,
                  barDelay, scene>>
  BY DEF MoveHover, MouseMoved
<1>3. TypeOK'
  BY <1>1, <1>2 DEF Inv, TypeOK, boardVars, pieceVars, timerVars
<1> QED
  BY <1>2, <1>3 DEF Inv, boardVars, pieceVars, timerVars, NoFullLine,
     OneTimerScheduled, DelayFollowsLevel, PieceBoardsCurrent, EndsAfterLastLife

LEMMA EscapeInv ==
  ASSUME Inv, Escape
  PROVE  Inv'
<1>1. armed' = {} /\ scene' = "menu"
  BY DEF Escape, Inv, OneTimerScheduled
<1>2. TypeOK'
  BY <1>1 DEF Escape, Inv, TypeOK, boardVars, pieceVars
<1> QED
  BY <1>1, <1>2 DEF Escape, Inv, boardVars, pieceVars, NoFullLine,
     OneTimerScheduled, DelayFollowsLevel, PieceBoardsCurrent, EndsAfterLastLife

LEMMA TimerThreadInv ==
  ASSUME Inv, NEW t \in TimerId, TimerRunsTask(t) \/ RunLater(t)
  PROVE  Inv'
<1>1. /\ UNCHANGED <<boardVars, lives, pieceVars, hovered, timerVars, barDelay,
                     scene>>
      /\ firing' \in SUBSET TimerId
      /\ fxQueue' \in Seq(TimerId)
  <2>1. firing \in SUBSET TimerId /\ fxQueue \in Seq(TimerId)
    BY DEF Inv, TypeOK
  <2>2. CASE TimerRunsTask(t)
    BY <2>1, <2>2 DEF TimerRunsTask
  <2>3. CASE RunLater(t)
    BY <2>1, <2>3 DEF RunLater
  <2> QED
    BY <2>2, <2>3
<1>2. TypeOK'
  BY <1>1 DEF Inv, TypeOK, boardVars, pieceVars, timerVars
<1> QED
  BY <1>1, <1>2 DEF Inv, boardVars, pieceVars, timerVars, NoFullLine,
     OneTimerScheduled, DelayFollowsLevel, PieceBoardsCurrent, EndsAfterLastLife

\* A gameLoop runs in the game's scene or after it was left; the life after the
\* last one closes the game in either case.
LEMMA GameLoopInv ==
  ASSUME Inv, GameLoop
  PROVE  Inv'
<1>1. /\ currentPiece' \in DealtPiece
      /\ followingPiece' \in DealtPiece
      /\ pieceBoards' = <<currentPiece', followingPiece'>>
  BY NextPieceType DEF GameLoop, Inv
<1>2. /\ lives' = lives - 1
      /\ lives' \in Int
      /\ multiplier' = 1
      /\ UNCHANGED <<grid, score, level, hovered, gameTimer, period, firing>>
      /\ fxQueue' \in Seq(TimerId)
      /\ GameLoopListener(GetTimerDelay(level), lives', armed, gameTimer)
  BY DEF GameLoop, Inv, TypeOK
<1>3. CASE lives' = -1
  <2>1. armed' = armed \ {gameTimer} /\ scene' = "scores" /\ barDelay' = barDelay
    BY <1>2, <1>3 DEF GameLoopListener
  <2>2. armed' = {}
    BY <2>1 DEF Inv, OneTimerScheduled
  <2>3. TypeOK'
    BY <1>1, <1>2, <2>1, <2>2 DEF Inv, TypeOK
  <2>4. NoFullLine'
    BY <1>2 DEF Inv, NoFullLine
  <2> QED
    BY <1>1, <1>2, <1>3, <2>1, <2>2, <2>3, <2>4 DEF Inv, OneTimerScheduled,
       DelayFollowsLevel, PieceBoardsCurrent, EndsAfterLastLife
<1>4. CASE lives' # -1
  <2>1. armed' = armed /\ scene' = scene /\ barDelay' = GetTimerDelay(level)
    BY <1>2, <1>4 DEF GameLoopListener
  <2>2. GetTimerDelay(level) \in Delays
    BY DelayType DEF Inv, TypeOK
  <2>3. TypeOK'
    <3>1. TypeOK
      BY DEF Inv
    <3>2. barDelay' \in Delays
      BY <2>1, <2>2
    <3>3. pieceBoards' \in DealtPiece \X DealtPiece
      BY <1>1
    <3> QED
      BY <1>1, <1>2, <2>1, <3>1, <3>2, <3>3 DEF TypeOK
  <2>4. EndsAfterLastLife'
    BY <1>2, <1>4, <2>1 DEF Inv, TypeOK, EndsAfterLastLife
  <2> QED
    BY <1>1, <1>2, <2>1, <2>3, <2>4 DEF Inv, NoFullLine,
       OneTimerScheduled, DelayFollowsLevel, PieceBoardsCurrent
<1> QED
  BY <1>3, <1>4

LEMMA NextInv == Inv /\ [Next]_vars => Inv'
<1> SUFFICES ASSUME Inv, [Next]_vars PROVE Inv'
  OBVIOUS
<1>1. CASE Play
  BY <1>1, PlayInv DEF Play, EnterPressed, BlockClicked
<1>2. CASE Input
  BY <1>2, PieceKeyInv, HoverInv, EscapeInv DEF Input
<1>3. CASE TimerThreads
  BY <1>3, TimerThreadInv DEF TimerThreads
<1>4. CASE GameLoop
  BY <1>4, GameLoopInv
<1>5. CASE UNCHANGED vars
  <2>1. TypeOK'
    BY <1>5 DEF vars, boardVars, pieceVars, timerVars, Inv, TypeOK
  <2> QED
    BY <1>5, <2>1 DEF vars, boardVars, pieceVars, timerVars, Inv, NoFullLine,
       OneTimerScheduled, DelayFollowsLevel, PieceBoardsCurrent,
       EndsAfterLastLife
<1> QED
  BY <1>1, <1>2, <1>3, <1>4, <1>5 DEF Next

\* The inductive invariant.
THEOREM Invariance == Spec => []Inv
BY InitInv, NextInv, PTL DEF Spec

\* Every variable keeps its type, on any board.
THEOREM TypeCorrect == Spec => []TypeOK
BY Invariance, PTL DEF Inv

\* No complete line survives a handler.
THEOREM LinesAreCleared == Spec => []NoFullLine
BY Invariance, PTL DEF Inv

\* The game has one scheduled Timer while it is played and none afterwards.
THEOREM TimersAreNotLeaked == Spec => []OneTimerScheduled
BY Invariance, PTL DEF Inv

\* The running Timer and its bar have the delay of the level on display.
THEOREM DelayIsOfLevel == Spec => []DelayFollowsLevel
BY Invariance, PTL DEF Inv

\* The piece boards show the pieces in hand.
THEOREM BoardsShowPieces == Spec => []PieceBoardsCurrent
BY Invariance, PTL DEF Inv

\* Play stops exactly with the life after the last, however many gameLoops the
\* application thread has been handed by then.
THEOREM GameEndsOnTime == Spec => []EndsAfterLastLife
BY Invariance, PTL DEF Inv

-----------------------------------------------------------------------------
(***************************************************************************)
(* ChallengeGame implements ChallengeRules.  Placing a piece is Place with  *)
(* the cells the piece covers; a gameLoop is LoseLife; ESC is Quit; the     *)
(* rest of the game (hovering, rotating and swapping pieces, timers, the    *)
(* runLater queue) stutters.                                                *)
(***************************************************************************)
\* The rules and the grid speak of the same cells.
LEMMA SquaresAreCells == Rules!Side = Index /\ Rules!Squares = Cells
BY DEF Rules!Side, Rules!Squares, Index, Cells

\* The instance brings its own copy of FiniteSets: it counts the same.
LEMMA SameCardinality == \A T : Rules!Cardinality(T) = Cardinality(T)
BY DEF Rules!Cardinality, Cardinality

\* Full lines, read cell by cell, are the lines afterPiece's loops collect.
LEMMA FullLinesAreCompleted ==
  ASSUME NEW g
  PROVE  /\ Rules!FullCols(g) = CompletedCols(g)
         /\ Rules!FullRows(g) = CompletedRows(g)
         /\ Rules!FullSquares(g)
              = Coordinates(CompletedRows(g), CompletedCols(g))
<1>1. ASSUME NEW i \in Index
      PROVE  Rules!Full(g, Rules!Column(i)) <=> \A j \in Index : g[<<i, j>>] # 0
  BY SquaresAreCells DEF Rules!Full, Rules!Column
<1>2. ASSUME NEW i \in Index
      PROVE  Rules!Full(g, Rules!Row(i)) <=> \A j \in Index : g[<<j, i>>] # 0
  BY SquaresAreCells DEF Rules!Full, Rules!Row
<1>3. Rules!FullCols(g) = CompletedCols(g)
  BY <1>1, SquaresAreCells DEF Rules!FullCols, CompletedCols
<1>4. Rules!FullRows(g) = CompletedRows(g)
  BY <1>2, SquaresAreCells DEF Rules!FullRows, CompletedRows
<1>5. CompletedRows(g) \subseteq Index /\ CompletedCols(g) \subseteq Index
  BY DEF CompletedRows, CompletedCols
<1>6. Rules!FullSquares(g)
        = {c \in Cells : c[1] \in CompletedCols(g) \/ c[2] \in CompletedRows(g)}
  BY <1>3, <1>4, SquaresAreCells DEF Rules!FullSquares
<1>7. Rules!FullSquares(g) = Coordinates(CompletedRows(g), CompletedCols(g))
  BY <1>5, <1>6 DEF Coordinates, Cells
<1> QED
  BY <1>3, <1>4, <1>7

\* The cells a piece placed at <<x, y>> covers.
Covered(x, y, p) == {c \in Cells : <<c[1] - x, c[2] - y>> \in p.blocks}

\* A piece that can be played covers at least one cell and only empty ones.
LEMMA CoveredIsEmpty ==
  ASSUME NEW x \in Index, NEW y \in Index, NEW p \in Piece, NEW g,
         CanPlayPiece(g, x, y, p)
  PROVE  /\ Covered(x, y, p) # {}
         /\ \A c \in Covered(x, y, p) : g[c] = 0
<1>1. x \in Int /\ y \in Int
  BY SizeAssumption DEF Index
<1>2. \A o \in p.blocks : o \in Int \X Int /\ o = <<o[1], o[2]>>
  BY DEF Piece, Offsets
<1>3. PICK o \in Offsets : o \in p.blocks
  BY DEF Piece
<1>4. <<x + o[1], y + o[2]>> \in Cells
  BY <1>3 DEF CanPlayPiece
<1>5. <<(x + o[1]) - x, (y + o[2]) - y>> = o
  BY <1>1, <1>2, <1>3
<1>6. <<x + o[1], y + o[2]>> \in Covered(x, y, p)
  BY <1>3, <1>4, <1>5 DEF Covered
<1>7. ASSUME NEW c \in Covered(x, y, p)
      PROVE  g[c] = 0
  <2>1. c \in Cells /\ <<c[1] - x, c[2] - y>> \in p.blocks
    BY DEF Covered
  <2>2. <<x + (c[1] - x), y + (c[2] - y)>> = c
    BY <1>1, <2>1, SizeAssumption DEF Cells, Index
  <2>3. g[<<x + (c[1] - x), y + (c[2] - y)>>] = 0
    BY <2>1 DEF CanPlayPiece
  <2> QED
    BY <2>2, <2>3
<1> QED
  BY <1>6, <1>7

\* More points for every line: no completed line goes unpaid.
LEMMA PointsPositive ==
  ASSUME NEW m \in Nat \ {0}, NEW l \in Nat \ {0}, NEW k \in Nat \ {0}
  PROVE  m * 10 * l * k \in Nat /\ m * 10 * l * k > 0
<1>1. m * 10 \in Nat /\ m * 10 > 0
  OBVIOUS
<1>2. m * 10 * l \in Nat /\ m * 10 * l > 0
  BY <1>1
<1> QED
  BY <1>2

-----------------------------------------------------------------------------
\* A placement is a placement of the rules.
LEMMA PlayImplementsPlace ==
  ASSUME Inv, NEW x \in Index, NEW y \in Index, PlayAt(x, y)
  PROVE  Rules!Next
<1> DEFINE S      == Covered(x, y, currentPiece)
           v      == currentPiece.value
           placed == PlayPiece(grid, x, y, currentPiece)
           rows   == CompletedRows(placed)
           cols   == CompletedCols(placed)
           lines  == Cardinality(rows) + Cardinality(cols)
           K      == Coordinates(rows, cols)
<1>1. /\ scene = "challenge"
      /\ CanPlayPiece(grid, x, y, currentPiece)
      /\ AfterPiece(placed)
      /\ lives' = lives
  BY DEF PlayAt
<1>2. /\ score \in Nat /\ multiplier \in Nat \ {0}
      /\ grid \in [Cells -> 0 .. 15]
      /\ currentPiece \in DealtPiece
      /\ currentPiece \in Piece
  BY DEF Inv, TypeOK, DealtPiece
<1>3. /\ score' = score + multiplier * 10 * lines * ClearedBlocks(rows, cols)
      /\ grid' = FadeOut(placed, K)
      /\ multiplier' = IF lines > 0 THEN multiplier + 1 ELSE 1
      /\ level' = score' \div LevelStep
  BY <1>1 DEF AfterPiece, Score
<1>4. scene' = "challenge"
  <2>1. placed \in [Cells -> 0 .. 15]
    BY <1>2, PlacedType DEF Inv
  <2>2. lives # -1 /\ armed = {gameTimer}
    BY <1>1 DEF Inv, EndsAfterLastLife, OneTimerScheduled
  <2> QED
    BY <1>1, <1>2, <2>1, <2>2, AfterPieceInv
<1>5. S # {} /\ \A c \in S : grid[c] = 0
  BY <1>1, <1>2, CoveredIsEmpty
<1>6. S \in SUBSET Rules!EmptySquares
  BY <1>5, SquaresAreCells DEF Covered, Rules!EmptySquares
<1>7. v \in {n + 1 : n \in PieceNumbers} /\ v # 0
  <2>1. v \in 1 .. 15 /\ v - 1 \in PieceNumbers
    BY <1>2 DEF DealtPiece, Piece
  <2>2. v = (v - 1) + 1 /\ v # 0
    BY <2>1
  <2> QED
    BY <2>1, <2>2
<1>8. placed = [c \in Rules!Squares |-> IF c \in S THEN v ELSE grid[c]]
  BY SquaresAreCells DEF PlayPiece, Covered
<1>9. rows \in SUBSET Index /\ cols \in SUBSET Index
  BY DEF CompletedRows, CompletedCols
<1>10. /\ IsFiniteSet(K)
       /\ Cardinality(K) = ClearedBlocks(rows, cols)
       /\ Cardinality(K) \in Nat
       /\ Cardinality(rows) \in Nat /\ Cardinality(cols) \in Nat
  BY <1>9, ClearedBlocksCounts, FS_CardinalityType, LinesFinite
<1>11. /\ lines = Cardinality(Rules!FullCols(placed))
                    + Cardinality(Rules!FullRows(placed))
       /\ K = Rules!FullSquares(placed)
  BY <1>10, FullLinesAreCompleted
<1>12. grid' = [c \in Rules!Squares |->
                  IF c \in Rules!FullSquares(placed) THEN 0 ELSE placed[c]]
  BY <1>3, <1>11, SquaresAreCells DEF FadeOut
<1>13. score' = score + multiplier * 10 * lines
                          * Cardinality(Rules!FullSquares(placed))
  BY <1>3, <1>10, <1>11
<1>14. multiplier' = IF lines = 0 THEN 1 ELSE multiplier + 1
  BY <1>3, <1>10
<1>15. <<grid, score>>' # <<grid, score>>
  <2>1. CASE rows = {} /\ cols = {}
    <3>1. K = {}
      BY <2>1 DEF Coordinates
    <3>2. grid' = placed
      BY <1>3, <3>1 DEF FadeOut, PlayPiece
    <3>3. PICK c \in S : grid[c] = 0
      BY <1>5
    <3>4. placed[c] = v
      BY <3>3 DEF PlayPiece, Covered
    <3> QED
      BY <1>7, <3>2, <3>3, <3>4
  <2>2. CASE rows # {} \/ cols # {}
    <3>1. 0 \in Index
      BY SizeAssumption DEF Index
    <3>2. K # {}
      <4>1. \A i \in rows : <<0, i>> \in K
        BY <3>1 DEF Coordinates
      <4>2. \A i \in cols : <<i, 0>> \in K
        BY <3>1 DEF Coordinates
      <4> HIDE DEF rows, cols, K
      <4> QED
        BY <2>2, <4>1, <4>2
    <3>3. Cardinality(K) # 0
      BY <1>10, <3>2, FS_EmptySet
    <3>4. IsFiniteSet(rows) /\ IsFiniteSet(cols)
      BY <1>9, LinesFinite
    <3>5. Cardinality(rows) # 0 \/ Cardinality(cols) # 0
      BY <2>2, <3>4, FS_EmptySet
    <3> HIDE DEF rows, cols, K
    <3>6. lines \in Nat \ {0} /\ ClearedBlocks(rows, cols) \in Nat \ {0}
      <4>1. lines \in Nat \ {0}
        BY <1>10, <3>5
      <4>2. ClearedBlocks(rows, cols) \in Nat \ {0}
        BY <1>10, <3>3
      <4> QED
        BY <4>1, <4>2
    <3>7. multiplier * 10 * lines * ClearedBlocks(rows, cols) > 0
      BY <1>2, <3>6, PointsPositive
    <3>8. multiplier * 10 * lines * ClearedBlocks(rows, cols) \in Nat
      BY <1>2, <3>6, PointsPositive
    <3> HIDE DEF lines
    <3>9. score' # score
      BY <1>2, <1>3, <3>7, <3>8
    <3> QED
      BY <3>9
  <2> QED
    BY <2>1, <2>2
<1>16. Rules!Place(S, v)
  <2>1. /\ lines = Rules!Cardinality(Rules!FullCols(placed))
                    + Rules!Cardinality(Rules!FullRows(placed))
        /\ Rules!Cardinality(Rules!FullSquares(placed))
             = Cardinality(Rules!FullSquares(placed))
    BY <1>11, SameCardinality
  <2> HIDE DEF S, v, lines, placed
  <2>2. UNCHANGED <<lives, scene # "challenge">>
    BY <1>1, <1>4
  <2> QED
    BY <1>1, <1>3, <1>5, <1>8, <1>12, <1>13, <1>14, <2>1, <2>2
       DEF Rules!Place
<1> QED
  BY <1>6, <1>7, <1>15, <1>16 DEF Rules!Next

\* A gameLoop is the loss of a life, in the game's scene or after it.
LEMMA GameLoopImplementsLoseLife ==
  ASSUME Inv, GameLoop
  PROVE  Rules!LoseLife
<1>1. /\ lives' = lives - 1 /\ lives \in Int
      /\ multiplier' = 1
      /\ UNCHANGED <<grid, score, level>>
      /\ GameLoopListener(GetTimerDelay(level), lives', armed, gameTimer)
  BY DEF GameLoop, Inv, TypeOK
<1>2. scene = "challenge" => lives \in 0 .. 3
  BY DEF Inv, EndsAfterLastLife
<1>3. scene' # "challenge" <=> (scene # "challenge" \/ lives' < 0)
  <2>1. CASE lives' = -1
    <3>1. scene' = "scores"
      BY <1>1, <2>1 DEF GameLoopListener
    <3> QED
      BY <2>1, <3>1
  <2>2. CASE lives' # -1
    <3>1. scene' = scene
      BY <1>1, <2>2 DEF GameLoopListener
    <3>2. scene = "challenge" => ~(lives' < 0)
      BY <1>1, <1>2, <2>2
    <3> QED
      BY <3>1, <3>2
  <2> QED
    BY <2>1, <2>2
<1>4. (scene # "challenge")' = ((scene # "challenge") \/ lives' < 0)
  BY <1>3
<1> QED
  BY <1>1, <1>4 DEF Rules!LoseLife

\* Every step of the game is a step of the rules or leaves their state alone.
LEMMA StepImplements ==
  ASSUME Inv, [Next]_vars
  PROVE  [Rules!Next]_(Rules!rulesVars)
<1>1. CASE Play
  <2>1. PICK x \in Index, y \in Index : PlayAt(x, y)
    BY <1>1 DEF Play, EnterPressed, BlockClicked, Inv, TypeOK, Cells
  <2> QED
    BY <2>1, PlayImplementsPlace
<1>2. CASE Escape
  <2>1. scene = "challenge" /\ scene' = "menu"
    BY <1>2 DEF Escape
  <2>2. UNCHANGED <<grid, score, multiplier, level, lives>>
    BY <1>2 DEF Escape, boardVars
  <2>3. Rules!Quit
    BY <2>1, <2>2 DEF Rules!Quit
  <2> QED
    BY <2>3 DEF Rules!Next
<1>3. CASE GameLoop
  BY <1>3, GameLoopImplementsLoseLife DEF Rules!Next
<1>4. CASE \/ PieceKey \/ MoveHover
           \/ \E c \in Cells : MouseMoved(c[1], c[2])
           \/ TimerThreads \/ UNCHANGED vars
  <2>1. UNCHANGED <<grid, score, multiplier, level, lives, scene>>
    BY <1>4 DEF PieceKey, MoveHover, MouseMoved, TimerThreads, TimerRunsTask,
       RunLater, vars, boardVars
  <2> QED
    BY <2>1 DEF Rules!rulesVars
<1> QED
  BY <1>1, <1>2, <1>3, <1>4 DEF Next, Input

\* A new game starts as the rules say.
LEMMA InitImplements == Init => Rules!Init
BY SquaresAreCells DEF Init, Rules!Init, EmptyGrid

\* The game implements its rules.
THEOREM GameImplementsRules == Spec => ImplementsRules
<1>1. Inv /\ [Next]_vars => [Rules!Next]_(Rules!rulesVars)
  BY StepImplements
<1> QED
  BY <1>1, InitImplements, Invariance, PTL
     DEF Spec, ImplementsRules, Rules!Spec
==============================================================================
