------------------------------ MODULE GridProofs ------------------------------
(***************************************************************************)
(* Facts about the operators of GamePiece and Grid, for every board size.   *)
(***************************************************************************)
EXTENDS Grid, FiniteSetTheorems, TLAPS

\* createPiece yields a piece: a colour and at least one block, the centre,
\* for each of the fifteen numbers.
LEMMA CreatePieceType ==
  ASSUME NEW n \in 0 .. 14
  PROVE  CreatePiece(n) \in Piece
<1>1. Matrices[n + 1][2][2] = 1
  BY DEF Matrices
<1>2. <<0, 0>> \in Offsets
  BY DEF Offsets
<1>3. <<0, 0>> \in CreatePiece(n).blocks
  BY <1>1, <1>2 DEF CreatePiece
<1>4. CreatePiece(n).blocks \in (SUBSET Offsets) \ {{}}
  BY <1>3 DEF CreatePiece
<1>5. n + 1 \in 1 .. 15
  OBVIOUS
<1> QED
  BY <1>4, <1>5 DEF CreatePiece, Piece

\* A rotation keeps a piece a piece: no block leaves the 3x3 square.
LEMMA RotateType ==
  ASSUME NEW p \in Piece
  PROVE  Rotate(p) \in Piece
<1>1. PICK o \in Offsets : o \in p.blocks
  BY DEF Piece
<1>2. <<o[2], -o[1]>> \in Offsets
  BY DEF Offsets
<1>3. << -(-o[1]), o[2] >> = o
  BY DEF Offsets
<1>4. <<o[2], -o[1]>> \in Rotate(p).blocks
  BY <1>1, <1>2, <1>3 DEF Rotate, Piece
<1> QED
  BY <1>4 DEF Rotate, Piece

\* Three anticlockwise turns undo one: right click and Q are inverses.
LEMMA RotateCWUndoesRotate ==
  ASSUME NEW p \in Piece
  PROVE  RotateCW(Rotate(p)) = p
<1> DEFINE q == RotateCW(Rotate(p))
<1>1. \A o \in Offsets : << -o[2], o[1]>> \in Offsets
  BY DEF Offsets
<1>2. ASSUME NEW r \in Piece, NEW o \in Offsets
      PROVE  o \in Rotate(r).blocks <=> << -o[2], o[1]>> \in r.blocks
  BY DEF Rotate, Piece
<1>3. /\ Rotate(p) \in Piece
      /\ Rotate(Rotate(p)) \in Piece
      /\ Rotate(Rotate(Rotate(p))) \in Piece
      /\ q \in Piece
  BY RotateType DEF RotateCW
<1>4. ASSUME NEW o \in Offsets
      PROVE  o \in q.blocks <=> o \in p.blocks
  <2> DEFINE a == << -o[2], o[1]>>
             b == << -a[2], a[1]>>
             c == << -b[2], b[1]>>
             d == << -c[2], c[1]>>
  <2>1. a \in Offsets /\ b \in Offsets /\ c \in Offsets
    BY <1>1
  <2>2. d = o
    BY DEF Offsets
  <2> HIDE DEF a, b, c, d
  <2>3. o \in q.blocks <=> d \in p.blocks
    BY <1>2, <1>3, <2>1 DEF RotateCW, a, b, c, d
  <2> QED
    BY <2>2, <2>3
<1>5. q.blocks = p.blocks
  BY <1>3, <1>4 DEF Piece
<1>6. q.value = p.value
  BY <1>3 DEF RotateCW, Rotate, Piece
<1> QED
  BY <1>3, <1>5, <1>6 DEF Piece

-----------------------------------------------------------------------------
LEMMA IndexFinite == IsFiniteSet(Index) /\ Cardinality(Index) = Size
BY FS_Interval, SizeAssumption DEF Index

LEMMA LinesFinite ==
  ASSUME NEW T \in SUBSET Index
  PROVE  IsFiniteSet(T) /\ Cardinality(T) \in 0 .. Size
<1>1. IsFiniteSet(T) /\ Cardinality(T) <= Size
  BY IndexFinite, FS_Subset
<1> QED
  BY <1>1, FS_CardinalityType, SizeAssumption

\* The closed formula of afterPiece is the number of cells in the rows and
\* columns: the crossings are counted once.
THEOREM ClearedBlocksCounts ==
  ASSUME NEW rows \in SUBSET Index, NEW cols \in SUBSET Index
  PROVE  /\ IsFiniteSet(Coordinates(rows, cols))
         /\ Cardinality(Coordinates(rows, cols)) = ClearedBlocks(rows, cols)
<1> DEFINE r == Cardinality(rows)
           c == Cardinality(cols)
           A == cols \X Index
           B == Index \X rows
<1>1. /\ IsFiniteSet(rows) /\ r \in Nat
      /\ IsFiniteSet(cols) /\ c \in Nat
      /\ Size \in Nat
  BY LinesFinite, SizeAssumption
<1>2. IsFiniteSet(A) /\ Cardinality(A) = c * Size
  BY <1>1, IndexFinite, FS_Product
<1>3. IsFiniteSet(B) /\ Cardinality(B) = Size * r
  BY <1>1, IndexFinite, FS_Product
<1>4. A \cap B = cols \X rows
  OBVIOUS
<1>5. Cardinality(A \cap B) = c * r
  BY <1>1, <1>4, FS_Product
<1>6. /\ IsFiniteSet(A \cup B)
      /\ Cardinality(A \cup B) = c * Size + Size * r - c * r
  BY <1>2, <1>3, <1>5, FS_Union
<1>7. CASE rows = {}
  <2>1. r = 0
    BY <1>7, FS_EmptySet
  <2> HIDE DEF r, c
  <2>2. c * Size + Size * r - c * r = Size * c
    BY <1>1, <2>1
  <2> QED
    BY <1>6, <1>7, <2>2 DEF Coordinates, ClearedBlocks, r, c
<1>8. CASE rows # {}
  <2> HIDE DEF r, c
  <2>1. c * Size + Size * r - c * r = Size * r + (Size - r) * c
    BY <1>1
  <2> QED
    BY <1>6, <1>8, <2>1 DEF Coordinates, ClearedBlocks, r, c
<1> QED
  BY <1>7, <1>8

\* Emptying the complete lines leaves none: emptying one cannot leave another
\* line, complete before, in place, nor complete a new one.
THEOREM FadeOutLeavesNoLine ==
  ASSUME NEW g, NEW h,
         h = FadeOut(g, Coordinates(CompletedRows(g), CompletedCols(g)))
  PROVE  CompletedRows(h) = {} /\ CompletedCols(h) = {}
<1> DEFINE K == Coordinates(CompletedRows(g), CompletedCols(g))
<1>1. 0 \in Index
  BY SizeAssumption DEF Index
<1>2. \A c \in Cells : h[c] # 0 => c \notin K /\ g[c] # 0
  BY DEF FadeOut
<1>3. ASSUME NEW i \in CompletedRows(h)
      PROVE  FALSE
  <2>1. i \in Index /\ \A j \in Index : <<j, i>> \in Cells /\ h[<<j, i>>] # 0
    BY DEF CompletedRows, Cells
  <2>2. i \in CompletedRows(g)
    BY <1>2, <2>1 DEF CompletedRows
  <2>3. <<0, i>> \in K
    BY <1>1, <2>2 DEF Coordinates
  <2> QED
    BY <1>1, <1>2, <2>1, <2>3
<1>4. ASSUME NEW i \in CompletedCols(h)
      PROVE  FALSE
  <2>1. i \in Index /\ \A j \in Index : <<i, j>> \in Cells /\ h[<<i, j>>] # 0
    BY DEF CompletedCols, Cells
  <2>2. i \in CompletedCols(g)
    BY <1>2, <2>1 DEF CompletedCols
  <2>3. <<i, 0>> \in K
    BY <1>1, <2>2 DEF Coordinates
  <2> QED
    BY <1>1, <1>2, <2>1, <2>3
<1> QED
  BY <1>3, <1>4
==============================================================================
