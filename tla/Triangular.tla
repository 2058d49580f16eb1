------------------------------- MODULE Triangular -------------------------------
(***************************************************************************)
(* The triangular arrays of q2.c: the upper triangle of an N by N table in  *)
(* one block of memory, with N itself in its first cell.                    *)
(*                                                                         *)
(* newarray adds 1 + ... + N to a size it never initialises.  What the size *)
(* begins with is whatever was on the stack: a block that comes out too     *)
(* small is used all the same, and memory beyond it is overwritten.  store  *)
(* ends without a return value unless it refuses.                           *)
(***************************************************************************)
EXTENDS Integers

CONSTANTS
  Sizes,    \* values of N
  Values,   \* what is stored
  Garbage   \* what memory may hold that nobody has initialised

\* What is assumed of the constants.
TriangularAssumption ==
  /\ Sizes \subseteq Int
  /\ Garbage \subseteq Int /\ 0 \in Garbage
  /\ Values \subseteq Int

VARIABLES
  cells,   \* what was written from the block's first cell on, by index
  size,    \* what newarray computed: the block has size + 1 cells
  made,    \* the N of newarray, 0 before it
  table,   \* what was stored, by row and column
  result   \* what the last call returned

vars == <<cells, size, made, table, result>>

With(f, x, y) == [z \in DOMAIN f \cup {x} |-> IF z = x THEN y ELSE f[z]]

Nothing == [x \in {} |-> 0]

Init == cells = Nothing /\ size = 0 /\ made = 0 /\ table = Nothing /\ result = 0

\* 1 + ... + N
Sum(N) == (N * (N + 1)) \div 2

\* For an N that is not positive NULL is returned, and there is no array.  A malloc
\* that fails is not checked: the program crashes on *pointer = N, as it does when
\* a size below zero leaves no room for N.
NewArray(N) ==
  /\ made = 0
  /\ N > 0
  /\ \E uninitialised \in Garbage :
       /\ uninitialised + Sum(N) >= 0
       /\ size' = uninitialised + Sum(N)
  /\ cells' = With(Nothing, 0, N)
  /\ made' = N
  /\ UNCHANGED <<table, result>>

\* Both functions refuse a wrong N and cells below the diagonal or outside.
Refused(N, row, col) == cells[0] # N \/ col < row \/ col >= N \/ row < 0

\* Wrong on purpose: every row is taken to be a cell shorter than it is.
IndexRowsShort(N, row, col) ==
  LET RowStart[r \in 0 .. row] == IF r = 0 THEN 0 ELSE RowStart[r - 1] + N - r
  IN RowStart[row] + col - row + 1

\* The rows above, of N cells, N - 1 and so on, and the place in the row.
Index(N, row, col) ==
  LET RowStart[r \in 0 .. row] == IF r = 0 THEN 0 ELSE RowStart[r - 1] + N - (r - 1)
  IN RowStart[row] + col - row + 1

Store(N, row, col, val) ==
  /\ made # 0
  /\ IF Refused(N, row, col)
     THEN result' = -1 /\ UNCHANGED <<cells, table>>
     ELSE /\ cells' = With(cells, Index(N, row, col), val)
          /\ table' = With(table, <<row, col>>, val)
          /\ result' \in Garbage
  /\ UNCHANGED <<size, made>>

\* A cell never written holds anything, and so does memory beyond the block.
Fetch(N, row, col) ==
  /\ made # 0
  /\ IF Refused(N, row, col)
     THEN result' = -1
     ELSE LET index == Index(N, row, col) IN
          IF index \in DOMAIN cells /\ index <= size
          THEN result' = cells[index]
          ELSE result' \in Garbage
  /\ UNCHANGED <<cells, size, made, table>>

Next ==
  \/ \E N \in Sizes : NewArray(N)
  \/ \E N \in Sizes : \E row, col \in -1 .. N :
       Fetch(N, row, col) \/ \E val \in Values : Store(N, row, col, val)

Spec == Init /\ [][Next]_vars

\* Types; the first cell keeps the N the array was made with.
TypeOK ==
  /\ \A index \in DOMAIN cells : index \in Nat /\ cells[index] \in Values \cup {made}
  /\ size \in Nat /\ made \in Nat /\ made \in Sizes \cup {0}
  /\ made # 0 => cells[0] = made
  /\ \A cell \in DOMAIN table : cell \in (0 .. made - 1) \X (0 .. made - 1)
  /\ result \in Values \cup Garbage \cup {-1}

\* No two cells of the table share a cell of memory: what was stored last in each
\* is what its cell holds.
TableKept ==
  \A cell \in DOMAIN table : cells[Index(made, cell[1], cell[2])] = table[cell]

\* If the uninitialised size is at least zero, nothing is written outside the
\* block, up to the last cell of the last row.
InsideBlock == size >= Sum(made) => \A index \in DOMAIN cells : index <= size

\* The block holds the whole table, every cell of it in a place of its own.
BlockHoldsTable == TableKept /\ InsideBlock
=============================================================================
