-------------------------------- MODULE MCLabs --------------------------------
(***************************************************************************)
(* Small instances of the labs: three gates, a queue of three, five seats,   *)
(* three colours, arrays of up to three rows, two files, words of up to     *)
(* five letters and strokes of up to three points.                          *)
(***************************************************************************)
EXTENDS Labs

TwoGuestsOneTwo == <<2, 1, 2>>

\* What a stack slot or a new block may hold.
SomeGarbage == {-1, 0}

\* Files of no byte, of one and of two.
SomeContents == {<<>>, <<1>>, <<2, 1>>}

\* A drawing in black, one that comes back to its beginning, and one in a colour
\* that cannot be read.
SomeDrawings ==
  {[colour |-> <<0, 0, 0, 255>>, points |-> <<1, 2>>],
   [colour |-> <<1, 0, 0, 255>>, points |-> <<3, 1, 3>>],
   [colour |-> <<255, 0, 0, 255>>, points |-> <<2>>]}
===============================================================================
