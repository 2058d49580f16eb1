-------------------------------- MODULE Grid --------------------------------
(***************************************************************************)
(* The grid of a game (game/Grid.java): Size x Size cells <<x, y>>, each     *)
(* holding 0 when it is empty and otherwise the value of the piece a block  *)
(* of which covers it.  The program always builds a 5 x 5 grid, and         *)
(* Game.afterPiece has the 5 written into it; Size stands for that 5.       *)
(***************************************************************************)
EXTENDS Integers, FiniteSets, GamePiece

CONSTANT Size

\* On a 1 x 1 grid the only row is also the only column.
ASSUME SizeAssumption == Size \in Nat /\ Size >= 2

Index == 0 .. Size - 1
Cells == Index \X Index

EmptyGrid == [c \in Cells |-> 0]

(***************************************************************************)
(* Every block of the piece, centred on <<x, y>>, falls on an empty cell of *)
(* the grid: a collision is refused, and so is a block off the grid, which  *)
(* the code meets as an ArrayIndexOutOfBoundsException it catches.          *)
(***************************************************************************)
CanPlayPiece(g, x, y, piece) ==
  \A o \in piece.blocks :
    LET c == <<x + o[1], y + o[2]>> IN c \in Cells /\ g[c] = 0

PlayPiece(g, x, y, piece) ==
  [c \in Cells |-> IF <<c[1] - x, c[2] - y>> \in piece.blocks
                   THEN piece.value
                   ELSE g[c]]

(***************************************************************************)
(* What Game.afterPiece reads off the grid: the columns and the rows with   *)
(* no empty cell, the cells they cover, and its closed formula for how many *)
(* cells that is.                                                           *)
(***************************************************************************)
CompletedCols(g) == {i \in Index : \A j \in Index : g[<<i, j>>] # 0}

\* Wrong on purpose: the last row is never looked at.
CompletedRowsButLast(g) ==
  {i \in Index \ {Size - 1} : \A j \in Index : g[<<j, i>>] # 0}

CompletedRows(g) == {i \in Index : \A j \in Index : g[<<j, i>>] # 0}

\* Wrong on purpose: counts the crossings twice.
ClearedBlocksCrossingsTwice(rows, cols) ==
  Size * (Cardinality(rows) + Cardinality(cols))

ClearedBlocks(rows, cols) ==
  IF rows = {} THEN Size * Cardinality(cols)
  ELSE Size * Cardinality(rows)
         + (Size - Cardinality(rows)) * Cardinality(cols)

Coordinates(rows, cols) == (cols \X Index) \cup (Index \X rows)

\* GameBoard.fadeOut, the line-cleared listener: the cells become empty.
FadeOut(g, coordinates) ==
  [c \in Cells |-> IF c \in coordinates THEN 0 ELSE g[c]]
==============================================================================
