------------------------------- MODULE ColourGame -------------------------------
(***************************************************************************)
(* The colour game of ecschat (ui/GameWindow.java): a grid of coloured      *)
(* blocks and a current colour that a Timer thread changes every two        *)
(* seconds, thirty times.  A click on a block of the current colour earns   *)
(* five points and repaints the block, a click on another costs one point,  *)
(* never below zero.  When the rounds are over the Timer thread sends the   *)
(* score to the server.                                                     *)
(*                                                                         *)
(* blockClicked runs on the application thread and shares currentColor and  *)
(* currentScore with the Timer thread unprotected, so each of its reads and *)
(* writes of the two is a step.  The Timer is the only one to write         *)
(* currentColor and only reads currentScore, so gameLoop is one step.       *)
(* Clicks are taken after the last round too.                               *)
(***************************************************************************)
EXTENDS Integers

CONSTANTS
  Blocks,     \* the blocks of the grid
  Colours,    \* indices of colors
  Rounds,     \* changes of the current colour (30)
  MaxClicks   \* bound: clicks

\* What is assumed of the constants.
ColourGameAssumption ==
  /\ \A c \in Colours : Colours \ {c} # {}
  /\ Rounds \in Nat /\ MaxClicks \in Nat

VARIABLES
  currentColor,
  gridBlock,        \* the colour of each block
  currentScore,
  gameLoopCounter,
  over,             \* gameTimer is cancelled
  sent,             \* the score that was sent
  click,            \* where the click being handled is, and on which block
  temp,             \* the current colour as the click first read it
  temp2,            \* the colour it will paint
  clicks,
  late              \* a click was under way when the score was sent, or came later

clickVars == <<click, temp, temp2, clicks>>
vars == <<currentColor, gridBlock, currentScore, gameLoopCounter, over, sent,
          clickVars, late>>

NoClick == [at |-> "idle"]
Clicking(label, b) == [at |-> label, on |-> b]

Init ==
  /\ currentColor \in Colours
  /\ gridBlock \in [Blocks -> Colours]
  /\ currentScore = 0
  /\ gameLoopCounter = 1
  /\ over = FALSE /\ sent = 0 /\ late = FALSE
  /\ click = NoClick /\ clicks = 0
  /\ temp = currentColor /\ temp2 = currentColor

-----------------------------------------------------------------------------
\* gameLoop, on the Timer thread.
GameLoop ==
  /\ ~over
  /\ \/ /\ gameLoopCounter <= Rounds
        /\ currentColor' \in Colours \ {currentColor}
        /\ gameLoopCounter' = gameLoopCounter + 1
        /\ UNCHANGED <<over, sent, late>>
     \/ /\ gameLoopCounter > Rounds
        /\ sent' = currentScore
        /\ over' = TRUE
        /\ late' = (click # NoClick)
        /\ UNCHANGED <<currentColor, gameLoopCounter>>
  /\ UNCHANGED <<gridBlock, currentScore, clickVars>>

-----------------------------------------------------------------------------
\* Wrong on purpose: any colour is painted, the old one too.
ChooseColourAny(b) ==
  /\ click = NoClick /\ clicks < MaxClicks
  /\ clicks' = clicks + 1
  /\ temp' = currentColor
  /\ temp2' \in Colours
  /\ click' = Clicking("compare", b)
  /\ late' = (late \/ over)
  /\ UNCHANGED <<currentColor, gridBlock, currentScore, gameLoopCounter, over, sent>>

\* blockClicked, up to the loop that draws a colour other than the current one.
ChooseColour(b) ==
  /\ click = NoClick /\ clicks < MaxClicks
  /\ clicks' = clicks + 1
  /\ temp' = currentColor
  /\ temp2' \in Colours \ {temp'}
  /\ click' = Clicking("compare", b)
  /\ late' = (late \/ over)
  /\ UNCHANGED <<currentColor, gridBlock, currentScore, gameLoopCounter, over, sent>>

Compare ==
  /\ click.at = "compare"
  /\ click' = Clicking(IF currentColor = gridBlock[click.on] THEN "hit" ELSE "miss",
                       click.on)
  /\ UNCHANGED <<currentColor, gridBlock, currentScore, gameLoopCounter, over, sent,
                 temp, temp2, clicks, late>>

Score ==
  /\ click.at = "hit"
  /\ currentScore' = currentScore + 5
  /\ click' = Clicking("paint", click.on)
  /\ UNCHANGED <<currentColor, gridBlock, gameLoopCounter, over, sent, temp, temp2,
                 clicks, late>>

Paint ==
  /\ click.at = "paint"
  /\ gridBlock' = [gridBlock EXCEPT ![click.on] = temp2]
  /\ click' = NoClick
  /\ UNCHANGED <<currentColor, currentScore, gameLoopCounter, over, sent, temp, temp2,
                 clicks, late>>

Lose ==
  /\ click.at = "miss"
  /\ currentScore' = currentScore - 1
  /\ click' = Clicking("clamp", click.on)
  /\ UNCHANGED <<currentColor, gridBlock, gameLoopCounter, over, sent, temp, temp2,
                 clicks, late>>

\* Wrong on purpose: the score is left below zero.
ClampNot ==
  /\ click.at = "clamp"
  /\ click' = NoClick
  /\ UNCHANGED <<currentColor, gridBlock, currentScore, gameLoopCounter, over, sent,
                 temp, temp2, clicks, late>>

Clamp ==
  /\ click.at = "clamp"
  /\ currentScore' = IF currentScore < 0 THEN 0 ELSE currentScore
  /\ click' = NoClick
  /\ UNCHANGED <<currentColor, gridBlock, gameLoopCounter, over, sent, temp, temp2,
                 clicks, late>>

HandleClick == Compare \/ Score \/ Paint \/ Lose \/ Clamp

Next == GameLoop \/ (\E b \in Blocks : ChooseColour(b)) \/ HandleClick

Spec == Init /\ [][Next]_vars

-----------------------------------------------------------------------------
\* Types; the score is below zero only inside a click that costs a point.
TypeOK ==
  /\ currentColor \in Colours /\ temp \in Colours /\ temp2 \in Colours
  /\ gridBlock \in [Blocks -> Colours]
  /\ currentScore \in Int /\ sent \in Int
  /\ currentScore < 0 => click.at = "clamp"
  /\ gameLoopCounter \in 1 .. Rounds + 1
  /\ over \in BOOLEAN /\ late \in BOOLEAN
  /\ clicks \in 0 .. MaxClicks
  /\ \/ click = NoClick
     \/ click \in [at : {"compare", "hit", "miss", "paint", "clamp"}, on : Blocks]

\* The score the server gets is the one the player ends with, and no less than
\* zero, unless a click was under way or came later: a click half handled may be
\* seen with its -1, and late clicks go on changing the score shown.
SentScoreStands == over /\ ~late => sent = currentScore /\ sent >= 0

\* A block that was hit gets another colour, unless the current colour changed
\* between the click's first look at it and the comparison with the block.
Repainted ==
  \A b \in Blocks :
    click = Clicking("paint", b) /\ click' = NoClick /\ temp = gridBlock[b]
      => gridBlock'[b] # gridBlock[b]

HitRepaints == [][Repainted]_vars
===============================================================================
