--------------------------- MODULE ChallengeRules ---------------------------
(***************************************************************************)
(* What a single player game promises its player, with no timers, threads,  *)
(* pieces in hand or screens: a board, a score, a multiplier, a level and   *)
(* lives.  It is stated without the arithmetic of the code: a placement     *)
(* covers some empty cells, every line that is then full is emptied, and    *)
(* the points are the number of lines times the number of cells that were   *)
(* emptied, counted on the board.  ChallengeGame is shown to implement it.  *)
(***************************************************************************)
EXTENDS Integers, FiniteSets

CONSTANTS Size,       \* rows and columns of the board
          LevelStep,  \* points per level
          Colours     \* colours the covered squares may get

VARIABLES grid, score, multiplier, level, lives, over

rulesVars == <<grid, score, multiplier, level, lives, over>>

Side == 0 .. Size - 1
Squares == Side \X Side

Column(i) == {i} \X Side
Row(i) == Side \X {i}

Full(g, line) == \A c \in line : g[c] # 0

FullCols(g) == {i \in Side : Full(g, Column(i))}
FullRows(g) == {i \in Side : Full(g, Row(i))}

FullSquares(g) ==
  {c \in Squares : c[1] \in FullCols(g) \/ c[2] \in FullRows(g)}

Init ==
  /\ grid = [c \in Squares |-> 0]
  /\ score = 0
  /\ multiplier = 1
  /\ level = 0
  /\ lives = 3
  /\ over = FALSE

EmptySquares == {c \in Squares : grid[c] = 0}

\* The player covers the squares of S, at least one and all of them empty, with
\* colour v.  It always shows: on the board, or in the score.
Place(S, v) ==
  LET covered == [c \in Squares |-> IF c \in S THEN v ELSE grid[c]]
      lines   == Cardinality(FullCols(covered)) + Cardinality(FullRows(covered))
      emptied == FullSquares(covered)
  IN  /\ ~over
      /\ S # {}
      /\ UNCHANGED <<lives, over>>
      /\ grid' = [c \in Squares |-> IF c \in emptied THEN 0 ELSE covered[c]]
      /\ score' = score + multiplier * 10 * lines * Cardinality(emptied)
      /\ multiplier' = IF lines = 0 THEN 1 ELSE multiplier + 1
      /\ level' = score' \div LevelStep

\* Time runs out.  The board stays; the run of multipliers ends; a life is
\* lost, and with none left the game is over.
LoseLife ==
  /\ lives' = lives - 1
  /\ multiplier' = 1
  /\ over' = (over \/ lives' < 0)
  /\ UNCHANGED <<grid, score, level>>

Quit ==
  /\ ~over
  /\ over' = TRUE
  /\ UNCHANGED <<grid, score, multiplier, level, lives>>

Next ==
  \/ /\ <<grid, score>>' # <<grid, score>>
     /\ \E S \in SUBSET EmptySquares, v \in Colours : Place(S, v)
  \/ LoseLife
  \/ Quit

Spec == Init /\ [][Next]_rulesVars
==============================================================================
