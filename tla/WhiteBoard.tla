------------------------------- MODULE WhiteBoard -------------------------------
(***************************************************************************)
(* The whiteboard of ecschat (ui/DrawWindow.java) and the messages it sends *)
(* (network/PaintMessage.java).                                             *)
(*                                                                         *)
(* A stroke is a mouse press, drags and a release; its points go to the     *)
(* canvas at once and, at the release, to the server.  A drawing received   *)
(* is painted when it comes.  Both use the one graphics context of the      *)
(* canvas, its current path and its current colour, so a drawing that comes *)
(* in the middle of a stroke takes both over: the rest of the stroke goes   *)
(* on from the drawing's first point, in its colour.                        *)
(*                                                                         *)
(* The handlers ask for no button.  A second one that is pressed begins a   *)
(* new stroke; the first release sends that and closes its path, and what   *)
(* is drawn with the other button goes on from where the path began.        *)
(*                                                                         *)
(* A message keeps its points in a set, in the order they came: a point the *)
(* stroke passes again is missing the second time.  Its colour is read as   *)
(* four numbers up to 255 where Color takes none above 1: most colours      *)
(* throw, and the drawing is lost.                                          *)
(***************************************************************************)
EXTENDS Integers, Sequences, SequencesExt

CONSTANTS
  Points,      \* of the canvas
  Buttons,     \* how many the mouse has
  Drawings,    \* messages other windows may send
  MaxStrokes,  \* bound: strokes
  MaxPoints,   \* bound: points of a stroke
  MaxReceived  \* bound: drawings received

\* What is assumed of the constants.
WhiteBoardAssumption ==
  /\ \A d \in Drawings :
       /\ d.points \in Seq(Points) /\ d.points # <<>>
       /\ d.colour \in [1 .. 4 -> 0 .. 255]
  /\ Buttons \in Nat /\ MaxStrokes \in Nat /\ MaxPoints \in Nat /\ MaxReceived \in Nat

VARIABLES
  context,   \* of the canvas: its path, where that is and began, and its colour
  canvas,    \* the lines that are painted
  points,    \* of the message being filled (pm)
  sent,      \* the last message sent
  held,      \* how many buttons are down
  stroke,    \* every point of the stroke
  disturbed, \* a drawing, or the release of one of two buttons, came in its middle
  mixed,     \* that has happened at least once
  shown,     \* the lines of all strokes and drawings so far
  strokes, received

vars == <<context, canvas, points, sent, held, stroke, disturbed, mixed, shown,
          strokes, received>>

Black == <<0, 0, 0, 255>>
NoMessage == [colour |-> Black, points |-> <<>>]

(***************************************************************************)
(* The graphics context of JavaFX: lineTo on an empty path only sets its    *)
(* beginning, and closePath goes back there.                                *)
(***************************************************************************)
Line(p, q) == {{p, q}} \ {{p}}

Begun(ctx, colour) == [path |-> {}, at |-> <<>>, start |-> <<>>, colour |-> colour]

LineTo(ctx, q) ==
  IF ctx.at = <<>> THEN [ctx EXCEPT !.at = <<q>>, !.start = <<q>>]
  ELSE [ctx EXCEPT !.at = <<q>>, !.path = @ \cup Line(ctx.at[1], q)]

Closed(ctx) ==
  [ctx EXCEPT !.at = ctx.start, !.path = @ \cup Line(ctx.at[1], ctx.start[1])]

Stroked(ctx) == {<<line, ctx.colour>> : line \in ctx.path}

\* The lines of successive points in a colour.
Lines(ps, colour) ==
  {<<line, colour>> : line \in UNION {Line(ps[i], ps[i + 1]) : i \in 1 .. Len(ps) - 1}}

-----------------------------------------------------------------------------
(***************************************************************************)
(* PaintMessage.  A colour of the canvas is given in 255ths; encode writes  *)
(* these, and the constructor takes a number above 1 for none of red, green *)
(* and blue, and divides the opacity as integers.                           *)
(***************************************************************************)
AddPoint(ps, p) == IF p \in {ps[i] : i \in DOMAIN ps} THEN ps ELSE Append(ps, p)

Readable(message) == \A k \in 1 .. 3 : message.colour[k] <= 1

ColourRead(message) ==
  [k \in 1 .. 4 |-> IF k = 4 THEN 255 * (message.colour[4] \div 255)
                    ELSE 255 * message.colour[k]]

\* The points that are read back are those of the message as a set, in order.
PointsRead(message) == FoldLeft(AddPoint, <<>>, message.points)

\* Wrong on purpose: the points of the first stroke stay in the message.
PressKeepingMessage(p) ==
  /\ held < Buttons /\ strokes < MaxStrokes
  /\ strokes' = strokes + 1
  /\ held' = held + 1 /\ disturbed' = FALSE
  /\ points' = AddPoint(points, p)
  /\ stroke' = <<p>>
  /\ context' = LineTo(Begun(context, Black), p)
  /\ UNCHANGED <<canvas, sent, mixed, shown, received>>

\* Wrong on purpose: the path of the last stroke goes on.
PressKeepingPath(p) ==
  /\ held < Buttons /\ strokes < MaxStrokes
  /\ strokes' = strokes + 1
  /\ held' = held + 1 /\ disturbed' = FALSE
  /\ points' = <<p>>
  /\ stroke' = <<p>>
  /\ context' = LineTo([context EXCEPT !.colour = Black], p)
  /\ UNCHANGED <<canvas, sent, mixed, shown, received>>

Press(p) ==
  /\ held < Buttons /\ strokes < MaxStrokes
  /\ strokes' = strokes + 1
  /\ held' = held + 1 /\ disturbed' = FALSE
  /\ points' = <<p>>
  /\ stroke' = <<p>>
  /\ context' = LineTo(Begun(context, Black), p)
  /\ UNCHANGED <<canvas, sent, mixed, shown, received>>

\* paint, and stroke().
Paint(p) ==
  /\ held > 0 /\ Len(stroke) < MaxPoints
  /\ stroke' = Append(stroke, p)
  /\ points' = AddPoint(points, p)
  /\ canvas' = canvas \cup Stroked(LineTo(context, p))
  /\ shown' = shown \cup Lines(stroke', Black)

Drag(p) ==
  /\ Paint(p)
  /\ context' = LineTo(context, p)
  /\ UNCHANGED <<sent, held, disturbed, mixed, strokes, received>>

Release(p) ==
  /\ Paint(p)
  /\ context' = Closed(LineTo(context, p))
  /\ sent' = [colour |-> Black, points |-> points']
  /\ held' = held - 1
  /\ disturbed' = (disturbed \/ held' > 0)
  /\ mixed' = (mixed \/ held' > 0)
  /\ UNCHANGED <<strokes, received>>

\* receiveDraw: a message that cannot be read throws before anything is painted.
ReceiveDraw(message) ==
  /\ received < MaxReceived
  /\ received' = received + 1
  /\ IF ~Readable(message)
     THEN UNCHANGED <<context, canvas, disturbed, mixed, shown>>
     ELSE LET colour == ColourRead(message)
              painted == FoldLeft(LineTo, Begun(context, colour), PointsRead(message))
          IN /\ canvas' = canvas \cup Stroked(painted)
             /\ context' = Closed(painted)
             /\ shown' = shown \cup Lines(PointsRead(message), colour)
             /\ disturbed' = (held > 0)
             /\ mixed' = (mixed \/ held > 0)
  /\ UNCHANGED <<points, sent, held, stroke, strokes>>

Init ==
  /\ context = Begun(<<>>, Black)
  /\ canvas = {} /\ shown = {}
  /\ points = <<>> /\ sent = NoMessage /\ stroke = <<>>
  /\ held = 0 /\ disturbed = FALSE /\ mixed = FALSE
  /\ strokes = 0 /\ received = 0

Next ==
  \/ \E p \in Points : Press(p) \/ Drag(p) \/ Release(p)
  \/ \E message \in Drawings : ReceiveDraw(message)

Spec == Init /\ [][Next]_vars

-----------------------------------------------------------------------------
\* Types; a message holds no point twice.
TypeOK ==
  /\ points \in Seq(Points) /\ sent.points \in Seq(Points) /\ stroke \in Seq(Points)
  /\ \A i, j \in DOMAIN points : points[i] = points[j] => i = j
  /\ held \in 0 .. Buttons /\ disturbed \in BOOLEAN /\ mixed \in BOOLEAN
  /\ strokes \in 0 .. MaxStrokes /\ received \in 0 .. MaxReceived

\* The whiteboard shows the lines of the strokes and of the drawings received, in
\* their colours, and no others, as long as nothing comes inside a stroke.
NothingMixed == ~mixed => canvas = shown

\* The stroke comes back to a point it had left.
Crosses(ps) == \E i, j \in DOMAIN ps : i < j - 1 /\ ps[i] = ps[j] /\ ps[i + 1] # ps[i]

\* A window that receives the stroke paints the lines this one has painted, if the
\* stroke does not cross itself and was not disturbed: every stroke is a message of
\* its own, the one of a second button too, and black is read back as black.
SameStroke ==
  held' < held /\ ~disturbed /\ ~Crosses(stroke') =>
    /\ Readable(sent')
    /\ Lines(PointsRead(sent'), ColourRead(sent')) = Lines(stroke', Black)
    /\ Lines(stroke', Black) \subseteq canvas'

OthersSeeStroke == [][SameStroke]_vars
===============================================================================
