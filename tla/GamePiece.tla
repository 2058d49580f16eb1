------------------------------ MODULE GamePiece ------------------------------
(***************************************************************************)
(* The fifteen pieces of the game and their rotation                        *)
(* (game/GamePiece.java).  A piece is its value, the colour its blocks get  *)
(* on a grid, and the set of blocks it has.  A block is an offset <<dx, dy>>*)
(* from the centre of the 3x3 matrix of the source: blocks[i][j] # 0 is the *)
(* offset <<j - 1, i - 1>>, as Grid.playPiece reads it (x grows with the    *)
(* second index, y with the first).                                         *)
(***************************************************************************)
EXTENDS Integers, Sequences

Offsets == (-1 .. 1) \X (-1 .. 1)

Piece == [value : 1 .. 15, blocks : (SUBSET Offsets) \ {{}}]

(***************************************************************************)
(* The matrices of createPiece, in the order of its piece numbers 0..14.    *)
(***************************************************************************)
Matrices == <<
  << <<0,0,0>>, <<1,1,1>>, <<0,0,0>> >>,   \* 0  Line
  << <<0,0,0>>, <<1,1,1>>, <<1,0,1>> >>,   \* 1  C
  << <<0,1,0>>, <<1,1,1>>, <<0,1,0>> >>,   \* 2  Plus
  << <<0,0,0>>, <<0,1,0>>, <<0,0,0>> >>,   \* 3  Dot
  << <<1,1,0>>, <<1,1,0>>, <<0,0,0>> >>,   \* 4  Square
  << <<0,0,0>>, <<1,1,1>>, <<0,0,1>> >>,   \* 5  L
  << <<0,0,1>>, <<1,1,1>>, <<0,0,0>> >>,   \* 6  J
  << <<0,0,0>>, <<0,1,1>>, <<1,1,0>> >>,   \* 7  S
  << <<1,1,0>>, <<0,1,1>>, <<0,0,0>> >>,   \* 8  Z
  << <<1,0,0>>, <<1,1,0>>, <<1,0,0>> >>,   \* 9  T
  << <<1,0,1>>, <<0,1,0>>, <<1,0,1>> >>,   \* 10 X
  << <<0,0,0>>, <<1,1,0>>, <<1,0,0>> >>,   \* 11 Corner
  << <<1,0,0>>, <<1,1,0>>, <<0,0,0>> >>,   \* 12 Inverse Corner
  << <<1,0,0>>, <<0,1,0>>, <<0,0,1>> >>,   \* 13 Diagonal
  << <<0,1,0>>, <<0,1,0>>, <<0,0,0>> >> >> \* 14 Double

CreatePiece(number) ==
  [value  |-> number + 1,
   blocks |-> {o \in Offsets : Matrices[number + 1][o[2] + 2][o[1] + 2] # 0}]

(***************************************************************************)
(* One rotation: rotated[2-c][r] = blocks[r][c], a quarter turn             *)
(* anticlockwise on the screen, where y grows downwards.                    *)
(***************************************************************************)
Rotate(piece) ==
  [piece EXCEPT !.blocks = {o \in Offsets : <<-o[2], o[1]>> \in piece.blocks}]

RotateCW(piece) == Rotate(Rotate(Rotate(piece)))
==============================================================================
