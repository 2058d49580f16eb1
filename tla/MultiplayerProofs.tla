--------------------------- MODULE MultiplayerProofs ---------------------------
(***************************************************************************)
(* The conversation with the server, for every board, set of pieces, Timer  *)
(* and bound: one answer per wait, and pieces in the hand as they are       *)
(* dealt.  Neither follows from the types: an answer is taken for the one   *)
(* awaited because nothing else is on its way, so the inductive invariant   *)
(* counts what is.                                                          *)
(*                                                                         *)
(* Then the game on top of it: what the server has been told, and that a    *)
(* handler that waited leaves the game whole.  There the invariant says     *)
(* what is half done in each of the waits, and the lemmas about placing     *)
(* and clearing are those of ChallengeGameProofs.                           *)
(***************************************************************************)
EXTENDS MultiplayerGame, GridProofs

Waits == {"no", "first", "second", "placed", "gameLoop"}

\* Types of what the conversation and the hand consist of.
NetTypes ==
  /\ spawning \in Waits
  /\ requests \in Nat
  /\ answers \in Seq(PieceNumbers)
  /\ receiving \in BOOLEAN /\ pieceUpdatedFromServer \in BOOLEAN
  /\ receiving \/ pieceUpdatedFromServer => pieceValue \in PieceNumbers

\* There is a following piece from the first answer on, and a current one too.
HandHeld ==
  IF spawning = "first"
  THEN followingPiece = NoPiece /\ currentPiece = NoPiece
  ELSE followingPiece \in Piece /\ currentPiece \in Piece

Inv == NetTypes /\ HandHeld /\ OneAnswerPerWait

-----------------------------------------------------------------------------
LEMMA NoPieceIsNone == NoPiece \notin Piece
BY DEF NoPiece, Piece

LEMMA CreatedIsPiece == \A n \in PieceNumbers : CreatePiece(n) \in Piece
BY CreatePieceType, MultiplayerAssumption

\* The instances bring their own copies of these operators: they are the same.
LEMMA SamePieces ==
  /\ \A p : Game!Rotate(p) = Rotate(p) /\ Game!RotateCW(p) = RotateCW(p)
  /\ \A p : Feed!Rotate(p) = Rotate(p) /\ Feed!RotateCW(p) = RotateCW(p)
  /\ \A n : Feed!CreatePiece(n) = CreatePiece(n)
<1>1. Game!Offsets = Offsets /\ Feed!Offsets = Offsets
  BY DEF Game!Offsets, Feed!Offsets, Offsets
<1>2. \A p : Game!Rotate(p) = Rotate(p) /\ Feed!Rotate(p) = Rotate(p)
  BY <1>1 DEF Game!Rotate, Feed!Rotate, Rotate
<1>3. \A p : Game!RotateCW(p) = RotateCW(p) /\ Feed!RotateCW(p) = RotateCW(p)
  BY <1>2 DEF Game!RotateCW, Feed!RotateCW, RotateCW
<1>4. Feed!Matrices = Matrices
  BY DEF Feed!Matrices, Matrices
<1>5. \A n : Feed!CreatePiece(n) = CreatePiece(n)
  BY <1>1, <1>4 DEF Feed!CreatePiece, CreatePiece
<1> QED
  BY <1>2, <1>3, <1>5

LEMMA InitInv == Init => Inv
<1> SUFFICES ASSUME Init PROVE Inv
  OBVIOUS
<1>1. /\ spawning = "first" /\ requests = 1 /\ answers = <<>>
      /\ receiving = FALSE /\ pieceUpdatedFromServer = FALSE
  BY DEF Init
<1>2. NetTypes
  <2>1. spawning \in Waits /\ requests \in Nat /\ answers \in Seq(PieceNumbers)
    BY <1>1 DEF Waits
  <2> QED
    BY <1>1, <2>1, Zenon DEF NetTypes
<1>3. HandHeld
  BY DEF Init, HandHeld
<1>4. OneAnswerPerWait
  BY <1>1 DEF OneAnswerPerWait, Count
<1> QED
  BY <1>2, <1>3, <1>4 DEF Inv

-----------------------------------------------------------------------------
(***************************************************************************)
(* Asking: a handler that was not waiting sends one request.                *)
(***************************************************************************)
LEMMA AskInv ==
  ASSUME Inv, NEW who \in {"placed", "gameLoop"}, spawning = "no",
         AskForPiece(who), UNCHANGED <<socketVars, pieceUpdatedFromServer>>
  PROVE  Inv'
<1> USE DEF Inv
<1>1. NetTypes'
  BY DEF NetTypes, AskForPiece, socketVars, Waits
<1>2. HandHeld'
  BY DEF HandHeld, AskForPiece
<1>3. requests' = requests + 1 /\ spawning' # "no" /\ UNCHANGED <<answers, receiving, pieceUpdatedFromServer>>
  BY DEF AskForPiece, socketVars
<1>4. requests \in Nat /\ Len(answers) \in Nat
  BY DEF NetTypes
<1>5. OneAnswerPerWait'
  BY <1>3, <1>4 DEF OneAnswerPerWait, Count
<1> QED
  BY <1>1, <1>2, <1>5

(***************************************************************************)
(* Taking: the flag falls, and the handler goes on or asks once more.       *)
(***************************************************************************)
LEMMA TakeInv ==
  ASSUME Inv, PieceArrives
  PROVE  Inv'
<1> USE DEF Inv
<1>1. /\ pieceUpdatedFromServer /\ pieceUpdatedFromServer' = FALSE
      /\ UNCHANGED <<answers, receiving, pieceValue>>
      /\ followingPiece' = CreatePiece(pieceValue)
      /\ spawning \in Waits \ {"no"}
  BY DEF PieceArrives, FirstPiece, SecondPiece, PlacedPiece, LifeLost,
         TakePiece, socketVars, Waits
<1>2. followingPiece' \in Piece
  BY <1>1, CreatedIsPiece DEF NetTypes
<1>3. \/ /\ spawning = "first" /\ spawning' = "second"
         /\ requests' = requests + 1
         /\ currentPiece' = followingPiece'
      \/ /\ spawning # "first" /\ spawning' = "no"
         /\ UNCHANGED <<requests, currentPiece>>
  BY DEF PieceArrives, FirstPiece, SecondPiece, PlacedPiece, LifeLost
<1>4. requests \in Nat /\ Len(answers) \in Nat
  BY DEF NetTypes
<1>5. NetTypes'
  <2>1. spawning' \in Waits /\ requests' \in Nat
    BY <1>3, <1>4 DEF Waits
  <2>2. /\ answers' \in Seq(PieceNumbers) /\ receiving' \in BOOLEAN
        /\ receiving' => pieceValue' \in PieceNumbers
    BY <1>1 DEF NetTypes
  <2> QED
    BY <1>1, <2>1, <2>2, Zenon DEF NetTypes
<1>6. HandHeld'
  BY <1>2, <1>3 DEF HandHeld
<1>7. OneAnswerPerWait'
  BY <1>1, <1>3, <1>4 DEF OneAnswerPerWait, Count, NetTypes
<1> QED
  BY <1>5, <1>6, <1>7

(***************************************************************************)
(* The server and the web socket thread hand the answer on.                 *)
(***************************************************************************)
LEMMA SocketInv ==
  ASSUME Inv, Socket
  PROVE  Inv'
<1> USE DEF Inv
<1>1. UNCHANGED <<currentPiece, followingPiece, spawning>>
  BY DEF Socket, ServerDeals, ReceivePiece, SetUpdated, gameVars
<1>2. HandHeld'
  BY <1>1 DEF HandHeld
<1>3. requests \in Nat /\ Len(answers) \in Nat
  BY DEF NetTypes
<1>4. ASSUME NEW n \in PieceNumbers, ServerDeals(n)
      PROVE  NetTypes' /\ OneAnswerPerWait'
  <2>1. answers' = Append(answers, n) /\ Len(answers') = Len(answers) + 1
    BY <1>4 DEF ServerDeals, NetTypes
  <2>2. NetTypes'
    BY <1>4, <2>1, <1>3 DEF ServerDeals, NetTypes
  <2>3. OneAnswerPerWait'
    BY <1>4, <2>1, <1>3 DEF ServerDeals, OneAnswerPerWait, Count, NetTypes
  <2> QED
    BY <2>2, <2>3
<1>5. ASSUME ReceivePiece
      PROVE  NetTypes' /\ OneAnswerPerWait'
  <2>1. /\ answers # <<>> /\ answers' = Tail(answers)
        /\ answers' \in Seq(PieceNumbers)
        /\ Len(answers') = Len(answers) - 1
        /\ pieceValue' = Head(answers) /\ Head(answers) \in PieceNumbers
        /\ ~receiving /\ receiving'
        /\ UNCHANGED <<spawning, requests, pieceUpdatedFromServer>>
    BY <1>5 DEF ReceivePiece, NetTypes
  <2>2. NetTypes'
    BY <2>1 DEF NetTypes
  <2>3. OneAnswerPerWait'
    BY <2>1, <1>3 DEF OneAnswerPerWait, Count, NetTypes
  <2> QED
    BY <2>2, <2>3
<1>6. ASSUME SetUpdated
      PROVE  NetTypes' /\ OneAnswerPerWait'
  <2>1. ~pieceUpdatedFromServer
    BY <1>6, <1>3 DEF SetUpdated, OneAnswerPerWait, Count, NetTypes
  <2>2. NetTypes'
    BY <1>6 DEF SetUpdated, NetTypes
  <2>3. OneAnswerPerWait'
    BY <1>6, <2>1, <1>3 DEF SetUpdated, OneAnswerPerWait, Count, NetTypes
  <2> QED
    BY <2>2, <2>3
<1> QED
  BY <1>2, <1>4, <1>5, <1>6 DEF Socket

(***************************************************************************)
(* Turning and swapping keep two pieces in hand; the rest keeps the hand.   *)
(***************************************************************************)
LEMMA InputInv ==
  ASSUME Inv, UNCHANGED <<spawning, requests, socketVars, pieceUpdatedFromServer>>,
         \/ UNCHANGED <<currentPiece, followingPiece>>
         \/ spawning # "first" /\ Game!PieceKey
  PROVE  Inv'
<1> USE DEF Inv
<1>1. NetTypes' /\ OneAnswerPerWait'
  BY DEF NetTypes, OneAnswerPerWait, socketVars
<1>2. HandHeld'
  <2>1. CASE UNCHANGED <<currentPiece, followingPiece>>
    BY <2>1 DEF HandHeld
  <2>2. CASE spawning # "first" /\ Game!PieceKey
    <3>1. currentPiece \in Piece /\ followingPiece \in Piece
      BY <2>2 DEF HandHeld
    <3>2. /\ Game!Rotate(currentPiece) \in Piece
          /\ Game!RotateCW(currentPiece) \in Piece
      BY <3>1, RotateType, SamePieces DEF RotateCW
    <3>3. currentPiece' \in Piece /\ followingPiece' \in Piece
      BY <2>2, <3>1, <3>2 DEF Game!PieceKey, Game!HoldPieces
    <3> QED
      BY <2>2, <3>3 DEF HandHeld
  <2> QED
    BY <2>1, <2>2
<1> QED
  BY <1>1, <1>2

LEMMA NextInv == Inv /\ [Next]_multiVars => Inv'
<1> SUFFICES ASSUME Inv, [Next]_multiVars PROVE Inv'
  OBVIOUS
<1>1. CASE Play
  <2>1. AskForPiece("placed") /\ spawning = "no"
        /\ UNCHANGED <<socketVars, pieceUpdatedFromServer>>
    BY <1>1 DEF Play, EnterPressed, BlockClicked, PlayAt
  <2> QED
    BY <2>1, AskInv
<1>2. CASE GameLoop
  <2>1. AskForPiece("gameLoop") /\ spawning = "no"
        /\ UNCHANGED <<socketVars, pieceUpdatedFromServer>>
    BY <1>2 DEF GameLoop
  <2> QED
    BY <2>1, AskInv
<1>3. CASE PieceArrives
  BY <1>3, TakeInv
<1>4. CASE Socket
  BY <1>4, SocketInv
<1>5. CASE Input
  <2>1. /\ UNCHANGED <<spawning, requests, socketVars, pieceUpdatedFromServer>>
        /\ \/ UNCHANGED <<currentPiece, followingPiece>>
           \/ spawning # "first" /\ Game!PieceKey
    BY <1>5 DEF Input, netVars, Game!MoveHover, Game!MouseMoved, Game!pieceVars
  <2> QED
    BY <2>1, InputInv
<1>6. CASE Escape
  <2>1. /\ UNCHANGED <<spawning, requests, socketVars, pieceUpdatedFromServer>>
        /\ UNCHANGED <<currentPiece, followingPiece>>
    BY <1>6 DEF Escape, Game!Escape, Game!pieceVars
  <2> QED
    BY <2>1, InputInv
<1>7. CASE TimerThreads
  <2>1. /\ UNCHANGED <<spawning, requests, socketVars, pieceUpdatedFromServer>>
        /\ UNCHANGED <<currentPiece, followingPiece>>
    BY <1>7 DEF TimerThreads, netVars, Game!TimerThreads, Game!TimerRunsTask,
                Game!RunLater, Game!pieceVars
  <2> QED
    BY <2>1, InputInv
<1>8. CASE UNCHANGED multiVars
  <2>1. /\ UNCHANGED <<spawning, requests, socketVars, pieceUpdatedFromServer>>
        /\ UNCHANGED <<currentPiece, followingPiece>>
    BY <1>8 DEF multiVars, netVars, gameVars
  <2> QED
    BY <2>1, InputInv
<1> QED
  BY <1>1, <1>2, <1>3, <1>4, <1>5, <1>6, <1>7, <1>8 DEF Next

\* The inductive invariant holds for ever.
THEOREM Invariance == Spec => []Inv
BY InitInv, NextInv, PTL DEF Spec

\* spawnPiece never takes an answer that was meant for another request: a
\* waiting handler has exactly one piece coming, an idle one none.
THEOREM AnswersMatchWaits == Spec => []OneAnswerPerWait
<1>1. Inv => OneAnswerPerWait
  BY DEF Inv
<1> QED
  BY <1>1, Invariance, PTL

-----------------------------------------------------------------------------
(***************************************************************************)
(* MultiplayerGame implements PieceFeed.  What the server has dealt and the *)
(* hand not taken is in one place at a time.                                *)
(***************************************************************************)
InHand == receiving \/ pieceUpdatedFromServer
Undelivered == (IF InHand THEN <<pieceValue>> ELSE <<>>) \o answers

LEMMA UndeliveredIs ==
  ASSUME Inv
  PROVE  /\ InHand => requests = 0 /\ answers = <<>> /\ Undelivered = <<pieceValue>>
         /\ ~InHand => Undelivered = answers
         /\ answers # <<>> => answers = <<Head(answers)>> /\ Tail(answers) = <<>>
         /\ requests > 0 => ~InHand /\ answers = <<>> /\ spawning # "no"
<1>1. /\ requests \in Nat /\ answers \in Seq(PieceNumbers) /\ Len(answers) \in Nat
      /\ receiving \in BOOLEAN /\ pieceUpdatedFromServer \in BOOLEAN
      /\ requests + Len(answers) + Count(receiving) + Count(pieceUpdatedFromServer)
           = Count(spawning # "no")
  BY DEF Inv, NetTypes, OneAnswerPerWait
<1>2. InHand => requests = 0 /\ Len(answers) = 0
  BY <1>1 DEF Count, InHand
<1>3. requests > 0 => ~InHand /\ Len(answers) = 0 /\ spawning # "no"
  BY <1>1 DEF Count, InHand
<1>4. Len(answers) = 0 \/ Len(answers) = 1
  <2>1. Len(answers) <= 1
    BY <1>1 DEF Count
  <2>2. Len(answers) \in Nat
    BY <1>1
  <2>3. \A k \in Nat : k <= 1 => k = 0 \/ k = 1
    OBVIOUS
  <2> QED
    BY <2>1, <2>2, <2>3, Zenon
<1>5. Len(answers) = 0 => answers = <<>>
  BY <1>1
<1>6. Len(answers) = 1 => answers = <<Head(answers)>> /\ Tail(answers) = <<>>
  <2> SUFFICES ASSUME Len(answers) = 1
               PROVE  answers = <<Head(answers)>> /\ Tail(answers) = <<>>
    OBVIOUS
  <2>1. answers = <<Head(answers)>>
    BY <1>1
  <2>2. Tail(<<Head(answers)>>) = <<>>
    OBVIOUS
  <2> QED
    BY <2>1, <2>2, Zenon
<1>7. InHand => Undelivered = <<pieceValue>>
  BY <1>2, <1>5 DEF Undelivered
<1>8. ~InHand => Undelivered = answers
  BY <1>1 DEF Undelivered
<1>9. answers # <<>> => answers = <<Head(answers)>> /\ Tail(answers) = <<>>
  BY <1>4, <1>5, <1>6, Zenon
<1> QED
  BY <1>2, <1>3, <1>5, <1>7, <1>8, <1>9

LEMMA AskImplementsUse ==
  ASSUME NEW who \in {"placed", "gameLoop"}, spawning = "no", AskForPiece(who),
         UNCHANGED <<socketVars, pieceUpdatedFromServer>>
  PROVE  Feed!Use
BY DEF Feed!Use, AskForPiece, socketVars

LEMMA ArrivalImplementsTake ==
  ASSUME Inv, Inv', PieceArrives
  PROVE  Feed!Take
<1>1. /\ pieceUpdatedFromServer /\ pieceUpdatedFromServer' = FALSE
      /\ UNCHANGED <<answers, receiving, pieceValue>>
      /\ followingPiece' = CreatePiece(pieceValue)
      /\ spawning # "no"
  BY DEF PieceArrives, FirstPiece, SecondPiece, PlacedPiece, LifeLost,
         TakePiece, socketVars
<1>2. \/ /\ spawning = "first" /\ spawning' = "second"
         /\ currentPiece' = followingPiece'
      \/ /\ spawning # "first" /\ spawning' = "no"
         /\ UNCHANGED currentPiece
  BY DEF PieceArrives, FirstPiece, SecondPiece, PlacedPiece, LifeLost
<1>3. spawning = "first" <=> followingPiece = NoPiece
  BY NoPieceIsNone DEF Inv, HandHeld
<1>4. InHand /\ Undelivered = <<pieceValue>>
  BY <1>1, UndeliveredIs DEF InHand
<1>5. ~InHand'
  <2>1. ~receiving
    BY <1>1 DEF Inv, NetTypes, OneAnswerPerWait, Count
  <2> QED
    BY <1>1, <2>1 DEF InHand
<1>6. Undelivered' = <<>>
  BY <1>1, <1>4, <1>5, UndeliveredIs DEF Undelivered, Inv, NetTypes
<1>7. Undelivered # <<>> /\ Head(Undelivered) = pieceValue
      /\ Tail(Undelivered) = <<>>
  BY <1>4
<1>8. followingPiece' = Feed!CreatePiece(Head(Undelivered))
  BY <1>1, <1>7, SamePieces
<1> QED
  BY <1>1, <1>2, <1>3, <1>6, <1>7, <1>8 DEF Feed!Take, Undelivered, InHand

LEMMA SocketImplementsDeal ==
  ASSUME Inv, Inv', Socket
  PROVE  [Feed!Next]_(Feed!feedVars)
<1>1. UNCHANGED <<currentPiece, followingPiece, spawning>>
  BY DEF Socket, ServerDeals, ReceivePiece, SetUpdated, gameVars
<1>2. ASSUME NEW n \in PieceNumbers, ServerDeals(n)
      PROVE  Feed!Deal(n)
  <2>1. ~InHand /\ answers = <<>> /\ spawning # "no" /\ Undelivered = <<>>
    BY <1>2, UndeliveredIs DEF ServerDeals
  <2>2. answers' = <<n>> /\ ~InHand'
    BY <1>2, <2>1 DEF ServerDeals, InHand
  <2>3. Undelivered' = <<n>>
    BY <2>2 DEF Undelivered
  <2> QED
    BY <1>1, <2>1, <2>3 DEF Feed!Deal, Undelivered, InHand
<1>3. ASSUME ReceivePiece \/ SetUpdated
      PROVE  UNCHANGED Undelivered
  <2>1. CASE ReceivePiece
    <3>1. answers # <<>> /\ answers' = Tail(answers)
      BY <2>1 DEF ReceivePiece
    <3>2. answers = <<Head(answers)>> /\ answers' = <<>> /\ Undelivered = answers
      BY <3>1, UndeliveredIs
    <3>3. InHand' /\ pieceValue' = Head(answers)
      BY <2>1 DEF ReceivePiece, InHand
    <3>4. Undelivered' = <<pieceValue'>>
      BY <3>2, <3>3 DEF Undelivered
    <3> QED
      BY <3>2, <3>3, <3>4
  <2>2. CASE SetUpdated
    BY <2>2 DEF SetUpdated, Undelivered, InHand
  <2> QED
    BY <1>3, <2>1, <2>2
<1> QED
  BY <1>1, <1>2, <1>3
     DEF Socket, Feed!Next, Feed!feedVars, Undelivered, InHand

LEMMA StepImplements ==
  ASSUME Inv, Inv', [Next]_multiVars
  PROVE  [Feed!Next]_(Feed!feedVars)
<1>1. CASE Play
  <2>1. AskForPiece("placed") /\ spawning = "no"
        /\ UNCHANGED <<socketVars, pieceUpdatedFromServer>>
    BY <1>1 DEF Play, EnterPressed, BlockClicked, PlayAt
  <2> QED
    BY <2>1, AskImplementsUse DEF Feed!Next
<1>2. CASE GameLoop
  <2>1. AskForPiece("gameLoop") /\ spawning = "no"
        /\ UNCHANGED <<socketVars, pieceUpdatedFromServer>>
    BY <1>2 DEF GameLoop
  <2> QED
    BY <2>1, AskImplementsUse DEF Feed!Next
<1>3. CASE PieceArrives
  BY <1>3, ArrivalImplementsTake DEF Feed!Next
<1>4. CASE Socket
  BY <1>4, SocketImplementsDeal
<1>5. CASE spawning = "no" /\ Game!PieceKey /\ UNCHANGED netVars
  <2>1. /\ \/ currentPiece' = Rotate(currentPiece)   /\ UNCHANGED followingPiece
           \/ currentPiece' = RotateCW(currentPiece) /\ UNCHANGED followingPiece
           \/ currentPiece' = followingPiece /\ followingPiece' = currentPiece
        /\ UNCHANGED <<spawning, answers, receiving, pieceValue, pieceUpdatedFromServer>>
    BY <1>5, SamePieces DEF Game!PieceKey, Game!HoldPieces, netVars, socketVars
  <2>2. Feed!Turn
    BY <1>5, <2>1, SamePieces DEF Feed!Turn
  <2> QED
    BY <2>2 DEF Feed!Next
<1>6. ASSUME \/ Input /\ ~Game!PieceKey
             \/ Escape
             \/ TimerThreads
             \/ UNCHANGED multiVars
      PROVE  UNCHANGED Feed!feedVars
  <2>1. UNCHANGED <<currentPiece, followingPiece, spawning, answers, receiving,
                    pieceValue, pieceUpdatedFromServer>>
    BY <1>6 DEF Input, Escape, TimerThreads, multiVars, netVars, gameVars,
                socketVars, Game!MoveHover, Game!MouseMoved, Game!Escape,
                Game!TimerThreads, Game!TimerRunsTask, Game!RunLater,
                Game!pieceVars
  <2> QED
    BY <2>1 DEF Feed!feedVars
<1> QED
  BY <1>1, <1>2, <1>3, <1>4, <1>5, <1>6 DEF Next, Input

LEMMA InitImplements == Init => Feed!Init
<1> SUFFICES ASSUME Init PROVE Feed!Init
  OBVIOUS
<1>1. /\ receiving = FALSE /\ pieceUpdatedFromServer = FALSE /\ answers = <<>>
      /\ currentPiece = NoPiece /\ followingPiece = NoPiece /\ spawning = "first"
  BY DEF Init
<1> QED
  BY <1>1 DEF Feed!Init

\* Whatever the delays of the network and the order of the threads, the hand
\* gets every piece the server dealt, once and in order.
THEOREM PiecesAsDealt == Spec => ImplementsFeed
<1>1. Inv /\ Inv' /\ [Next]_multiVars => [Feed!Next]_(Feed!feedVars)
  BY StepImplements
<1> QED
  BY <1>1, InitImplements, Invariance, PTL DEF Spec, ImplementsFeed, Feed!Spec

-----------------------------------------------------------------------------
(***************************************************************************)
(* The game itself.  Between the request and the answer of a handler it is  *)
(* half changed: full lines stand while a placement waits, a lost life may  *)
(* be the last, and before the second piece there is no Timer at all.  The  *)
(* invariant says what holds in each of the waits, so that the rest of the  *)
(* handler can be shown to make the game whole again.                       *)
(***************************************************************************)
Started == spawning \notin {"first", "second"}

Starting ==
  ~Started => /\ grid = EmptyGrid /\ level = 0 /\ scene = "challenge"
              /\ armed = {} /\ firing = {} /\ fxQueue = <<>>

TimerRuns == Started => Game!OneTimerScheduled

LinesCleared == spawning # "placed" => Game!NoFullLine

BoardsTold == spawning = "no" => Game!PieceBoardsCurrent

LivesLeft ==
  scene = "challenge" =>
    lives \in IF spawning = "gameLoop" THEN -1 .. 2 ELSE 0 .. 3

PlacedInScene == spawning = "placed" => scene = "challenge"

\* DIE is sent by whatever closes the game, and by nothing else.
CloseSaid == sent.dead <=> scene # "challenge"

GameInv ==
  /\ TypeOK
  /\ Starting
  /\ TimerRuns
  /\ Game!DelayFollowsLevel
  /\ LinesCleared
  /\ BoardsTold
  /\ LivesLeft
  /\ PlacedInScene
  /\ CloseSaid
  /\ ServerKnowsScore

(***************************************************************************)
(* What is proved of ChallengeGame's operators holds for those this game    *)
(* inherits; GameAssumption is MultiplayerAssumption.                       *)
(***************************************************************************)
Single == INSTANCE ChallengeGameProofs

LEMMA SameGame ==
  /\ Single!Cells = Cells /\ Single!Index = Index
  /\ Single!Delays = Game!Delays
  /\ \A l : Single!GetTimerDelay(l) = Game!GetTimerDelay(l)
  /\ Single!NoFullLine <=> Game!NoFullLine
  /\ Single!DealtPiece = Game!DealtPiece
  /\ \A p : Single!Rotate(p) = Rotate(p)
  /\ \A n : Single!CreatePiece(n) = CreatePiece(n)
<1>1. /\ Single!Cells = Cells /\ Single!Index = Index
      /\ Game!Cells = Cells /\ Game!Index = Index
  BY DEF Single!Cells, Single!Index, Game!Cells, Game!Index, Cells, Index
<1>2. Single!Delays = Game!Delays
  BY DEF Single!Delays, Game!Delays
<1>3. \A l : Single!GetTimerDelay(l) = Game!GetTimerDelay(l)
  BY DEF Single!GetTimerDelay, Game!GetTimerDelay
<1>4. Single!NoFullLine <=> Game!NoFullLine
  BY <1>1 DEF Single!NoFullLine, Game!NoFullLine
<1>5. Single!Offsets = Offsets /\ Game!Offsets = Offsets
  BY DEF Single!Offsets, Game!Offsets, Offsets
<1>6. Single!DealtPiece = Game!DealtPiece
  BY <1>5 DEF Single!DealtPiece, Game!DealtPiece, Single!Piece, Game!Piece
<1>7. \A p : Single!Rotate(p) = Rotate(p)
  BY <1>5 DEF Single!Rotate, Rotate
<1>8. Single!Matrices = Matrices
  BY DEF Single!Matrices, Matrices
<1>9. \A n : Single!CreatePiece(n) = CreatePiece(n)
  BY <1>5, <1>8 DEF Single!CreatePiece, CreatePiece
<1> QED
  BY <1>1, <1>2, <1>3, <1>4, <1>6, <1>7, <1>9

LEMMA SameAfterPiece ==
  ASSUME NEW g, Game!AfterPiece(g)
  PROVE  Single!AfterPiece(g)
<1>1. \A S : Game!Cardinality(S) = Single!Cardinality(S)
  BY DEF Game!Cardinality, Single!Cardinality
<1>2. /\ Single!Cells = Game!Cells /\ Single!Index = Game!Index
  BY DEF Single!Cells, Single!Index, Game!Cells, Game!Index
<1>3. \A h : /\ Game!CompletedRows(h) = Single!CompletedRows(h)
             /\ Game!CompletedCols(h) = Single!CompletedCols(h)
  BY <1>2 DEF Single!CompletedRows, Game!CompletedRows,
              Single!CompletedCols, Game!CompletedCols
<1>4. \A r, c, h : /\ Game!ClearedBlocks(r, c) = Single!ClearedBlocks(r, c)
                   /\ Game!Coordinates(r, c) = Single!Coordinates(r, c)
                   /\ Game!FadeOut(h, r) = Single!FadeOut(h, r)
  BY <1>1, <1>2 DEF Single!ClearedBlocks, Game!ClearedBlocks,
     Single!Coordinates, Game!Coordinates, Single!FadeOut, Game!FadeOut
<1>5. \A t : Game!ResetTimer(t) <=> Single!ResetTimer(t)
  BY SameGame DEF Game!ResetTimer, Single!ResetTimer, Game!GameLoopListener,
     Single!GameLoopListener, Game!FreshTimers, Single!FreshTimers,
     Game!QueuedTimers, Single!QueuedTimers
<1>6. \E t \in TimerId : Single!ResetTimer(t)
  BY <1>5 DEF Game!AfterPiece
<1> DEFINE rows  == Single!CompletedRows(g)
           cols  == Single!CompletedCols(g)
           lines == Single!Cardinality(rows) + Single!Cardinality(cols)
<1>7. /\ Game!Score(lines, Single!ClearedBlocks(rows, cols))
      /\ grid' = Single!FadeOut(g, Single!Coordinates(rows, cols))
      /\ multiplier' = IF lines > 0 THEN multiplier + 1 ELSE 1
      /\ level' = score' \div LevelStep
  BY <1>1, <1>3, <1>4 DEF Game!AfterPiece
<1> QED
  BY <1>6, <1>7 DEF Single!AfterPiece, Single!Score, Game!Score

\* afterPiece leaves a whole game behind, as in the single player game.
LEMMA AfterPieceWhole ==
  ASSUME NEW placed \in [Cells -> 0 .. 15], Game!AfterPiece(placed),
         score \in Nat, multiplier \in Nat, lives # -1,
         armed = {gameTimer}, scene = "challenge"
  PROVE  /\ grid' \in [Cells -> 0 .. 15]
         /\ Game!NoFullLine'
         /\ score' \in Nat
         /\ multiplier' \in Nat
         /\ level' \in Nat
         /\ gameTimer' \in TimerId
         /\ armed' = {gameTimer'}
         /\ period' = Game!GetTimerDelay(level')
         /\ barDelay' = period'
         /\ period' \in Game!Delays
         /\ scene' = "challenge"
<1>1. Single!AfterPiece(placed)
  BY SameAfterPiece
<1>2. placed \in [Single!Cells -> 0 .. 15]
  BY SameGame
<1>3. /\ grid' \in [Single!Cells -> 0 .. 15]
      /\ Single!NoFullLine'
      /\ score' \in Nat
      /\ multiplier' \in Nat \ {0}
      /\ level' \in Nat
      /\ gameTimer' \in TimerId
      /\ armed' = {gameTimer'}
      /\ period' = Single!GetTimerDelay(level')
      /\ barDelay' = period'
      /\ period' \in Single!Delays
      /\ scene' = "challenge"
  BY <1>1, <1>2, Single!AfterPieceInv, MultiplayerAssumption, SizeAssumption
<1>4. Single!NoFullLine' <=> Game!NoFullLine'
  BY SameGame DEF Single!NoFullLine, Game!NoFullLine, Game!Index, Index
<1> QED
  BY <1>3, <1>4, SameGame

LEMMA DelayType == \A l \in Nat : Game!GetTimerDelay(l) \in Game!Delays
BY DEF Game!GetTimerDelay, Game!Delays

\* A piece that is dealt or turned is one of the numbers in play.
LEMMA DealtType ==
  /\ \A n \in PieceNumbers : CreatePiece(n) \in Game!DealtPiece
  /\ \A p \in Game!DealtPiece : Rotate(p) \in Game!DealtPiece
BY Single!DealtType, SameGame, MultiplayerAssumption, SizeAssumption

\* In a started game the hand holds two pieces dealt.
LEMMA HandIsDealt ==
  ASSUME TypeOK, HandHeld, spawning # "first"
  PROVE  currentPiece \in Game!DealtPiece /\ followingPiece \in Game!DealtPiece
BY NoPieceIsNone DEF TypeOK, HandHeld, Hand

-----------------------------------------------------------------------------
LEMMA GameInitInv == Init => GameInv
<1> SUFFICES ASSUME Init PROVE GameInv
  OBVIOUS
<1>1. /\ spawning = "first" /\ scene = "challenge" /\ lives = 0 /\ level = 0
      /\ armed = {} /\ firing = {} /\ fxQueue = <<>>
      /\ period = Game!GetTimerDelay(0) /\ barDelay = 12000
      /\ grid = EmptyGrid /\ sent.dead = FALSE
  BY DEF Init
<1>2. 0 \in Index
  BY SizeAssumption DEF Index
<1>3. hovered \in Cells
  BY <1>2 DEF Init, Cells
<1>4. Game!GetTimerDelay(0) = 12000 /\ 12000 \in Game!Delays
  BY DEF Game!GetTimerDelay, Game!Delays
<1>5. grid \in [Cells -> 0 .. 15]
  BY <1>1 DEF EmptyGrid
<1>6. TypeOK
  <2>1. pieceBoards \in Hand \X Hand /\ currentPiece \in Hand /\ followingPiece \in Hand
    BY DEF Init, Hand
  <2>2. sent \in [score : Nat, lives : Int, board : BOOLEAN, dead : BOOLEAN]
    BY DEF Init
  <2>3. /\ requests \in Nat /\ answers \in Seq(PieceNumbers)
        /\ pieceValue \in PieceNumbers \cup {0}
    BY DEF Init
  <2>5. receiving \in BOOLEAN /\ pieceUpdatedFromServer \in BOOLEAN
    <3>1. receiving = FALSE /\ pieceUpdatedFromServer = FALSE
      BY DEF Init
    <3> QED
      BY <3>1
  <2>4. /\ score \in Nat /\ multiplier \in Nat /\ level \in Nat /\ lives \in Int
        /\ gameTimer \in TimerId
        /\ armed \in SUBSET TimerId /\ firing \in SUBSET TimerId
        /\ fxQueue \in Seq(TimerId)
    BY DEF Init
  <2> QED
    BY <1>1, <1>3, <1>4, <1>5, <2>1, <2>2, <2>3, <2>4, <2>5 DEF TypeOK
<1>7. Game!NoFullLine
  <2>1. \A i \in Index : grid[<<0, i>>] = 0 /\ grid[<<i, 0>>] = 0
    BY <1>1, <1>2 DEF EmptyGrid, Cells
  <2> QED
    BY <1>2, <2>1 DEF Game!NoFullLine, Game!Index, Index
<1> QED
  BY <1>1, <1>4, <1>6, <1>7 DEF GameInv, Started, Starting, TimerRuns,
     Game!DelayFollowsLevel, LinesCleared, BoardsTold, LivesLeft, PlacedInScene,
     CloseSaid, ServerKnowsScore

(***************************************************************************)
(* The handlers as far as the request.                                      *)
(***************************************************************************)
LEMMA PlayGameInv ==
  ASSUME Inv', GameInv, NEW x, NEW y, NEW report \in BOOLEAN, PlayAt(x, y, report),
         HandHeld
  PROVE  GameInv'
<1> USE DEF GameInv
<1>1. /\ spawning = "no" /\ scene = "challenge" /\ spawning' = "placed"
      /\ grid' = PlayPiece(grid, x, y, currentPiece)
      /\ currentPiece' = followingPiece
      /\ sent' = [sent EXCEPT !.board = report]
      /\ UNCHANGED <<score, multiplier, level, lives, followingPiece, pieceBoards,
                     hovered, gameTimer, period, armed, firing, fxQueue, barDelay,
                     scene, answers, receiving, pieceValue, pieceUpdatedFromServer>>
  BY DEF PlayAt, AskForPiece, timerVars, socketVars
<1>2. grid' \in [Cells -> 0 .. 15]
  <2>1. currentPiece.value \in 1 .. 15 /\ grid \in [Cells -> 0 .. 15]
    BY <1>1 DEF HandHeld, TypeOK, Piece
  <2> QED
    BY <1>1, <2>1 DEF PlayPiece
<1>3. /\ sent' \in [score : Nat, lives : Int, board : BOOLEAN, dead : BOOLEAN]
      /\ sent'.score = sent.score /\ sent'.lives = sent.lives
      /\ sent'.dead = sent.dead
  BY <1>1 DEF TypeOK
<1>4. TypeOK'
  BY <1>1, <1>2, <1>3 DEF TypeOK, Inv, NetTypes
<1> QED
  BY <1>1, <1>3, <1>4 DEF Started, Starting, TimerRuns, Game!OneTimerScheduled,
     Game!DelayFollowsLevel, LinesCleared, BoardsTold, LivesLeft, PlacedInScene,
     CloseSaid, ServerKnowsScore

\* The score and the lives reported are those of a game that is on.
LEMMA ReportedIs ==
  ASSUME TypeOK, NEW s \in Nat, NEW l \in Int
  PROVE  /\ Reported(s, l) \in [score : Nat, lives : Int, board : BOOLEAN,
                                dead : BOOLEAN]
         /\ Reported(s, l).dead = sent.dead
         /\ scene = "challenge" => Reported(s, l).score = s /\ Reported(s, l).lives = l
BY DEF Reported, Listening, TypeOK

LEMMA GameLoopGameInv ==
  ASSUME Inv', GameInv, GameLoop
  PROVE  GameInv'
<1> USE DEF GameInv
<1>1. /\ spawning = "no" /\ spawning' = "gameLoop"
      /\ fxQueue # <<>> /\ fxQueue' = Tail(fxQueue)
      /\ lives' = lives - 1
      /\ sent' = Reported(score, lives')
      /\ currentPiece' = followingPiece
      /\ UNCHANGED <<grid, score, multiplier, level, followingPiece, pieceBoards,
                     hovered, gameTimer, period, armed, firing, barDelay,
                     scene, answers, receiving, pieceValue, pieceUpdatedFromServer>>
  BY DEF GameLoop, AskForPiece, boardVars, timerVars, socketVars
<1>2. fxQueue' \in Seq(TimerId) /\ lives' \in Int
  BY <1>1 DEF TypeOK
<1>3. /\ sent' \in [score : Nat, lives : Int, board : BOOLEAN, dead : BOOLEAN]
      /\ sent'.dead = sent.dead
      /\ scene = "challenge" => sent'.score = score /\ sent'.lives = lives'
  <2>1. score \in Nat
    BY DEF TypeOK
  <2> QED
    BY <1>1, <1>2, <2>1, ReportedIs
<1>4. TypeOK'
  BY <1>1, <1>2, <1>3 DEF TypeOK, Inv, NetTypes
<1>5. LivesLeft'
  BY <1>1 DEF LivesLeft
<1> QED
  BY <1>1, <1>3, <1>4, <1>5 DEF Started, Starting, TimerRuns, Game!OneTimerScheduled,
     Game!DelayFollowsLevel, LinesCleared, Game!NoFullLine, BoardsTold,
     PlacedInScene, CloseSaid, ServerKnowsScore

(***************************************************************************)
(* The handlers from the answer on.                                         *)
(***************************************************************************)
\* The piece taken is one the server dealt.
LEMMA TakenIsDealt ==
  ASSUME NetTypes, TakePiece
  PROVE  /\ followingPiece' \in Game!DealtPiece
         /\ UNCHANGED <<answers, receiving, pieceValue>>
BY DealtType DEF TakePiece, NetTypes, socketVars

LEMMA FirstPieceGameInv ==
  ASSUME Inv, Inv', GameInv, FirstPiece
  PROVE  GameInv'
<1> USE DEF GameInv
<1>1. /\ spawning = "first" /\ spawning' = "second"
      /\ currentPiece' = followingPiece'
      /\ UNCHANGED <<grid, score, multiplier, level, lives, pieceBoards,
                     hovered, gameTimer, period, armed, firing, fxQueue, barDelay,
                     scene, sent>>
  BY DEF FirstPiece, boardVars, timerVars
<1>2. followingPiece' \in Game!DealtPiece /\ UNCHANGED <<answers, receiving, pieceValue>>
  BY TakenIsDealt DEF FirstPiece, Inv
<1>3. TypeOK'
  BY <1>1, <1>2 DEF TypeOK, Inv, NetTypes, Hand
<1> QED
  BY <1>1, <1>3 DEF Started, Starting, TimerRuns,
     Game!DelayFollowsLevel, LinesCleared, Game!NoFullLine, BoardsTold, LivesLeft,
     PlacedInScene, CloseSaid, ServerKnowsScore

\* The boards are told of two pieces that were dealt.
LEMMA BoardsToldInv ==
  ASSUME Inv, TypeOK, TakePiece, TellPieceBoards, spawning # "first",
         UNCHANGED currentPiece
  PROVE  /\ currentPiece' \in Hand /\ followingPiece' \in Hand
         /\ pieceBoards' \in Hand \X Hand
         /\ Game!PieceBoardsCurrent'
         /\ UNCHANGED <<answers, receiving, pieceValue>>
<1>1. followingPiece' \in Game!DealtPiece /\ UNCHANGED <<answers, receiving, pieceValue>>
  BY TakenIsDealt DEF Inv
<1>2. currentPiece' \in Hand /\ followingPiece' \in Hand
  BY <1>1 DEF Hand, TypeOK
<1>3. pieceBoards' = <<currentPiece', followingPiece'>>
  BY DEF TellPieceBoards
<1> QED
  BY <1>1, <1>2, <1>3 DEF Game!PieceBoardsCurrent

LEMMA SecondPieceGameInv ==
  ASSUME Inv, Inv', GameInv, SecondPiece
  PROVE  GameInv'
<1> USE DEF GameInv
<1>1. /\ spawning = "second" /\ spawning' = "no"
      /\ score' = 0 /\ multiplier' = 1 /\ lives' = 3 /\ level' = 0
      /\ sent' = Reported(0, 3) /\ armed' = {gameTimer} /\ barDelay' = 12000
      /\ UNCHANGED <<grid, currentPiece, hovered, gameTimer, period, firing,
                     fxQueue, scene>>
  BY DEF SecondPiece
<1>2. /\ currentPiece' \in Hand /\ followingPiece' \in Hand
      /\ pieceBoards' \in Hand \X Hand
      /\ Game!PieceBoardsCurrent'
      /\ UNCHANGED <<answers, receiving, pieceValue>>
  BY <1>1, BoardsToldInv DEF SecondPiece
<1>3. /\ sent' \in [score : Nat, lives : Int, board : BOOLEAN, dead : BOOLEAN]
      /\ sent'.dead = sent.dead
      /\ scene = "challenge" => sent'.score = 0 /\ sent'.lives = 3
  BY <1>1, ReportedIs
<1>4. Game!GetTimerDelay(0) = 12000 /\ 12000 \in Game!Delays
  BY DEF Game!GetTimerDelay, Game!Delays
<1>5. scene = "challenge" /\ period = Game!GetTimerDelay(0) /\ Game!NoFullLine
  BY <1>1 DEF Started, Starting, Game!DelayFollowsLevel, LinesCleared
<1>6. TypeOK'
  <2>1. /\ score' \in Nat /\ multiplier' \in Nat /\ lives' \in Int /\ level' \in Nat
        /\ barDelay' \in Game!Delays
    BY <1>1, <1>4
  <2>2. armed' \in SUBSET TimerId
    BY <1>1 DEF TypeOK
  <2>3. /\ grid' \in [Cells -> 0 .. 15] /\ hovered' \in Cells
        /\ gameTimer' \in TimerId /\ period' \in Game!Delays
        /\ firing' \in SUBSET TimerId /\ fxQueue' \in Seq(TimerId)
        /\ scene' \in {"challenge", "menu", "scores"}
    BY <1>1 DEF TypeOK
  <2> QED
    BY <1>1, <1>2, <1>3, <2>1, <2>2, <2>3 DEF TypeOK, Inv, NetTypes
<1>7. Game!NoFullLine'
  <2>1. UNCHANGED grid /\ Game!NoFullLine
    BY <1>1, <1>5
  <2> HIDE DEF GameInv
  <2> QED
    BY <2>1 DEF Game!NoFullLine
<1> QED
  BY <1>1, <1>2, <1>3, <1>4, <1>5, <1>6, <1>7 DEF Started, Starting, TimerRuns,
     Game!OneTimerScheduled, Game!DelayFollowsLevel, LinesCleared, BoardsTold,
     LivesLeft, PlacedInScene, CloseSaid, ServerKnowsScore

\* The full lines of the placement are emptied, and the Timer replaced.
LEMMA PlacedPieceGameInv ==
  ASSUME Inv, Inv', GameInv, PlacedPiece
  PROVE  GameInv'
<1> USE DEF GameInv
<1>1. /\ spawning = "placed" /\ spawning' = "no"
      /\ Game!AfterPiece(grid)
      /\ sent' = [Reported(score', lives) EXCEPT !.board = @ /\ grid' = grid]
      /\ UNCHANGED <<currentPiece, lives, hovered, firing, fxQueue>>
  BY DEF PlacedPiece
<1>2. /\ currentPiece' \in Hand /\ followingPiece' \in Hand
      /\ pieceBoards' \in Hand \X Hand
      /\ Game!PieceBoardsCurrent'
      /\ UNCHANGED <<answers, receiving, pieceValue>>
  BY <1>1, BoardsToldInv DEF PlacedPiece
<1>3. /\ scene = "challenge" /\ armed = {gameTimer} /\ lives \in 0 .. 3
  BY <1>1 DEF PlacedInScene, LivesLeft, TimerRuns, Started, Game!OneTimerScheduled
<1>4. /\ grid' \in [Cells -> 0 .. 15]
      /\ Game!NoFullLine'
      /\ score' \in Nat
      /\ multiplier' \in Nat
      /\ level' \in Nat
      /\ gameTimer' \in TimerId
      /\ armed' = {gameTimer'}
      /\ period' = Game!GetTimerDelay(level')
      /\ barDelay' = period'
      /\ period' \in Game!Delays
      /\ scene' = "challenge"
  <2>1. grid \in [Cells -> 0 .. 15] /\ score \in Nat /\ multiplier \in Nat
    BY DEF TypeOK
  <2>2. lives # -1
    BY <1>3
  <2>3. Game!AfterPiece(grid)
    BY <1>1
  <2> HIDE DEF GameInv
  <2> QED
    BY <1>3, <2>1, <2>2, <2>3, AfterPieceWhole
<1>5. /\ sent' \in [score : Nat, lives : Int, board : BOOLEAN, dead : BOOLEAN]
      /\ sent'.dead = sent.dead
      /\ sent'.score = score' /\ sent'.lives = lives
  <2> DEFINE r == Reported(score', lives)
  <2>1. /\ r \in [score : Nat, lives : Int, board : BOOLEAN, dead : BOOLEAN]
        /\ r.dead = sent.dead /\ r.score = score' /\ r.lives = lives
    BY <1>3, <1>4, ReportedIs
  <2>2. sent' = [r EXCEPT !.board = @ /\ grid' = grid]
    BY <1>1
  <2> HIDE DEF r
  <2> QED
    BY <2>1, <2>2
<1>6. TypeOK'
  <2>1. /\ lives' \in Int /\ hovered' \in Cells
        /\ firing' \in SUBSET TimerId /\ fxQueue' \in Seq(TimerId)
    BY <1>1 DEF TypeOK
  <2>2. barDelay' \in Game!Delays /\ armed' \in SUBSET TimerId
    BY <1>4
  <2> QED
    BY <1>1, <1>2, <1>4, <1>5, <2>1, <2>2 DEF TypeOK, Inv, NetTypes
<1> QED
  BY <1>1, <1>2, <1>3, <1>4, <1>5, <1>6 DEF Started, Starting, TimerRuns,
     Game!OneTimerScheduled, Game!DelayFollowsLevel, LinesCleared, BoardsTold,
     LivesLeft, PlacedInScene, CloseSaid, ServerKnowsScore

\* The life after the last closes the game, says so, and leaves no Timer.
LEMMA LifeLostGameInv ==
  ASSUME Inv, Inv', GameInv, LifeLost
  PROVE  GameInv'
<1> USE DEF GameInv
<1>1. /\ spawning = "gameLoop" /\ spawning' = "no"
      /\ multiplier' = 1
      /\ Game!GameLoopListener(Game!GetTimerDelay(level), lives, armed, gameTimer)
      /\ sent' = IF lives = -1 THEN [sent EXCEPT !.dead = TRUE] ELSE sent
      /\ UNCHANGED <<grid, score, level, lives, currentPiece, hovered, gameTimer,
                     period, firing, fxQueue>>
  BY DEF LifeLost
<1>2. /\ currentPiece' \in Hand /\ followingPiece' \in Hand
      /\ pieceBoards' \in Hand \X Hand
      /\ Game!PieceBoardsCurrent'
      /\ UNCHANGED <<answers, receiving, pieceValue>>
  BY <1>1, BoardsToldInv DEF LifeLost
<1>3. Game!NoFullLine'
  BY <1>1 DEF LinesCleared, Game!NoFullLine
<1>4. CASE lives = -1
  <2>1. /\ armed' = {} /\ scene' = "scores" /\ barDelay' = barDelay
        /\ sent' = [sent EXCEPT !.dead = TRUE]
    BY <1>1, <1>4 DEF Game!GameLoopListener, TimerRuns, Started, Game!OneTimerScheduled
  <2>2. /\ sent' \in [score : Nat, lives : Int, board : BOOLEAN, dead : BOOLEAN]
        /\ sent'.dead = TRUE
    BY <2>1 DEF TypeOK
  <2>3. TypeOK'
    BY <1>1, <1>2, <2>1, <2>2 DEF TypeOK, Inv, NetTypes
  <2> QED
    BY <1>1, <1>2, <1>3, <2>1, <2>2, <2>3 DEF Started, Starting, TimerRuns,
       Game!OneTimerScheduled, Game!DelayFollowsLevel, LinesCleared, BoardsTold,
       LivesLeft, PlacedInScene, CloseSaid, ServerKnowsScore
<1>5. CASE lives # -1
  <2>1. /\ armed' = armed /\ scene' = scene
        /\ barDelay' = Game!GetTimerDelay(level) /\ sent' = sent
    BY <1>1, <1>5 DEF Game!GameLoopListener
  <2>2. barDelay' \in Game!Delays
    BY <2>1, DelayType DEF TypeOK
  <2>3. TypeOK'
    BY <1>1, <1>2, <2>1, <2>2 DEF TypeOK, Inv, NetTypes
  <2>4. LivesLeft'
    BY <1>1, <1>5, <2>1 DEF LivesLeft
  <2> QED
    BY <1>1, <1>2, <1>3, <2>1, <2>3, <2>4 DEF Started, Starting, TimerRuns,
       Game!OneTimerScheduled, Game!DelayFollowsLevel, LinesCleared, BoardsTold,
       PlacedInScene, CloseSaid, ServerKnowsScore
<1> QED
  BY <1>4, <1>5

(***************************************************************************)
(* The other threads, and the handlers that need no piece.                  *)
(***************************************************************************)
LEMMA SocketGameInv ==
  ASSUME Inv, Inv', GameInv, Socket
  PROVE  GameInv'
<1> USE DEF GameInv
<1>1. UNCHANGED <<gameVars, spawning, sent>>
  BY DEF Socket, ServerDeals, ReceivePiece, SetUpdated
<1>2. pieceValue' \in PieceNumbers \cup {0}
  <2>1. CASE ReceivePiece
    BY <2>1 DEF ReceivePiece, Inv, NetTypes
  <2>2. CASE SetUpdated \/ \E n \in PieceNumbers : ServerDeals(n)
    BY <2>2 DEF SetUpdated, ServerDeals, TypeOK
  <2> QED
    BY <2>1, <2>2 DEF Socket
<1>3. TypeOK'
  BY <1>1, <1>2 DEF TypeOK, Inv, NetTypes, gameVars, boardVars, timerVars
<1> QED
  BY <1>1, <1>3 DEF gameVars, boardVars, timerVars, Started, Starting, TimerRuns,
     Game!OneTimerScheduled, Game!DelayFollowsLevel, LinesCleared, Game!NoFullLine,
     BoardsTold, Game!PieceBoardsCurrent, LivesLeft, PlacedInScene, CloseSaid,
     ServerKnowsScore

LEMMA InputGameInv ==
  ASSUME Inv, Inv', GameInv, Input
  PROVE  GameInv'
<1> USE DEF GameInv
<1>1. /\ spawning = "no"
      /\ UNCHANGED netVars
      /\ UNCHANGED <<boardVars, lives, timerVars, firing, fxQueue, barDelay, scene>>
  BY DEF Input, Game!PieceKey, Game!MoveHover, Game!MouseMoved, Game!boardVars,
         Game!timerVars, boardVars, timerVars
<1>2. hovered' \in Cells
  <2>1. CASE Game!PieceKey
    BY <2>1 DEF Game!PieceKey, TypeOK
  <2>2. CASE Game!MoveHover
    <3>1. hovered \in Index \X Index
      BY DEF TypeOK, Cells
    <3> QED
      BY <2>2, <3>1, SizeAssumption DEF Game!MoveHover, Index, Cells
  <2>3. CASE \E c \in Cells : Game!MouseMoved(c[1], c[2])
    BY <2>3 DEF Game!MouseMoved, Cells
  <2> QED
    BY <2>1, <2>2, <2>3 DEF Input
<1>3. /\ currentPiece' \in Hand /\ followingPiece' \in Hand
      /\ pieceBoards' \in Hand \X Hand
      /\ Game!PieceBoardsCurrent'
  <2>1. CASE Game!PieceKey
    <3>1. currentPiece \in Game!DealtPiece /\ followingPiece \in Game!DealtPiece
      BY <1>1, HandIsDealt DEF Inv
    <3>2. /\ Game!Rotate(currentPiece) \in Game!DealtPiece
          /\ Game!RotateCW(currentPiece) \in Game!DealtPiece
      BY <3>1, DealtType, SamePieces DEF RotateCW
    <3> QED
      BY <2>1, <3>1, <3>2 DEF Game!PieceKey, Game!HoldPieces, Hand,
         Game!PieceBoardsCurrent
  <2>2. CASE Game!MoveHover \/ \E c \in Cells : Game!MouseMoved(c[1], c[2])
    <3>1. UNCHANGED <<currentPiece, followingPiece, pieceBoards>>
      BY <2>2 DEF Game!MoveHover, Game!MouseMoved, Game!pieceVars
    <3> QED
      BY <1>1, <3>1 DEF TypeOK, BoardsTold, Game!PieceBoardsCurrent
  <2> QED
    BY <2>1, <2>2 DEF Input
<1>4. TypeOK'
  BY <1>1, <1>2, <1>3 DEF TypeOK, netVars, socketVars, boardVars, timerVars
<1> QED
  BY <1>1, <1>3, <1>4 DEF netVars, boardVars, timerVars, Started, Starting,
     TimerRuns, Game!OneTimerScheduled, Game!DelayFollowsLevel, LinesCleared,
     Game!NoFullLine, BoardsTold, LivesLeft, PlacedInScene, CloseSaid,
     ServerKnowsScore

LEMMA EscapeGameInv ==
  ASSUME Inv, GameInv, Escape
  PROVE  GameInv'
<1> USE DEF GameInv
<1>1. /\ spawning = "no" /\ scene' = "menu"
      /\ armed' = armed \ {gameTimer}
      /\ sent' = [sent EXCEPT !.dead = TRUE]
      /\ UNCHANGED <<grid, score, multiplier, level, lives, currentPiece,
                     followingPiece, pieceBoards, hovered, gameTimer, period,
                     firing, fxQueue, barDelay, spawning, requests, answers,
                     receiving, pieceValue, pieceUpdatedFromServer>>
  BY DEF Escape, Game!Escape, Game!boardVars, Game!pieceVars, socketVars
<1>2. armed' = {}
  BY <1>1 DEF TimerRuns, Started, Game!OneTimerScheduled
<1>3. /\ sent' \in [score : Nat, lives : Int, board : BOOLEAN, dead : BOOLEAN]
      /\ sent'.dead = TRUE
  BY <1>1 DEF TypeOK
<1>4. TypeOK'
  BY <1>1, <1>2, <1>3 DEF TypeOK
<1> QED
  BY <1>1, <1>2, <1>3, <1>4 DEF Started, Starting, TimerRuns,
     Game!OneTimerScheduled, Game!DelayFollowsLevel, LinesCleared,
     Game!NoFullLine, BoardsTold, Game!PieceBoardsCurrent, LivesLeft,
     PlacedInScene, CloseSaid, ServerKnowsScore

\* Before the game has started no Timer is there to run its task.
LEMMA TimerThreadsGameInv ==
  ASSUME Inv, GameInv, TimerThreads
  PROVE  GameInv'
<1> USE DEF GameInv
<1>1. PICK t \in TimerId : Game!TimerRunsTask(t) \/ Game!RunLater(t)
  BY DEF TimerThreads, Game!TimerThreads
<1>2. /\ UNCHANGED netVars
      /\ UNCHANGED <<boardVars, lives, currentPiece, followingPiece, pieceBoards,
                     hovered, timerVars, barDelay, scene>>
  BY <1>1 DEF TimerThreads, Game!TimerRunsTask, Game!RunLater, Game!boardVars,
     Game!pieceVars, Game!timerVars, boardVars, timerVars
<1>3. Started
  BY <1>1 DEF Starting, Game!TimerRunsTask, Game!RunLater
<1>4. firing' \in SUBSET TimerId /\ fxQueue' \in Seq(TimerId)
  <2>1. firing \in SUBSET TimerId /\ fxQueue \in Seq(TimerId)
    BY DEF TypeOK
  <2> QED
    BY <1>1, <2>1 DEF Game!TimerRunsTask, Game!RunLater
<1>5. TypeOK'
  BY <1>2, <1>4 DEF TypeOK, netVars, socketVars, boardVars, timerVars
<1> QED
  BY <1>2, <1>3, <1>5 DEF netVars, boardVars, timerVars, Started, Starting,
     TimerRuns, Game!OneTimerScheduled, Game!DelayFollowsLevel, LinesCleared,
     Game!NoFullLine, BoardsTold, Game!PieceBoardsCurrent, LivesLeft,
     PlacedInScene, CloseSaid, ServerKnowsScore

LEMMA GameNextInv == Inv /\ Inv' /\ GameInv /\ [Next]_multiVars => GameInv'
<1> SUFFICES ASSUME Inv, Inv', GameInv, [Next]_multiVars PROVE GameInv'
  OBVIOUS
<1>1. CASE Play
  <2>1. CASE EnterPressed
    BY <2>1, PlayGameInv DEF EnterPressed, Inv
  <2>2. ASSUME NEW c \in Cells, BlockClicked(c[1], c[2])
        PROVE  GameInv'
    BY <2>2, PlayGameInv DEF BlockClicked, Inv
  <2> QED
    BY <1>1, <2>1, <2>2 DEF Play
<1>2. CASE GameLoop
  BY <1>2, GameLoopGameInv
<1>3. CASE PieceArrives
  BY <1>3, FirstPieceGameInv, SecondPieceGameInv, PlacedPieceGameInv,
     LifeLostGameInv DEF PieceArrives
<1>4. CASE Socket
  BY <1>4, SocketGameInv
<1>5. CASE Input
  BY <1>5, InputGameInv
<1>6. CASE Escape
  BY <1>6, EscapeGameInv
<1>7. CASE TimerThreads
  BY <1>7, TimerThreadsGameInv
<1>8. CASE UNCHANGED multiVars
  <2>1. UNCHANGED <<gameVars, netVars>>
    BY <1>8 DEF multiVars
  <2>2. TypeOK'
    BY <2>1 DEF GameInv, TypeOK, gameVars, netVars, socketVars, boardVars, timerVars
  <2> QED
    BY <2>1, <2>2 DEF GameInv, gameVars, netVars, boardVars, timerVars, Started,
       Starting, TimerRuns, Game!OneTimerScheduled, Game!DelayFollowsLevel,
       LinesCleared, Game!NoFullLine, BoardsTold, Game!PieceBoardsCurrent,
       LivesLeft, PlacedInScene, CloseSaid, ServerKnowsScore
<1> QED
  BY <1>1, <1>2, <1>3, <1>4, <1>5, <1>6, <1>7, <1>8 DEF Next

\* The inductive invariant of the game, on top of that of the conversation.
THEOREM GameInvariance == Spec => []GameInv
BY GameInitInv, GameNextInv, Invariance, PTL DEF Spec

\* Every variable keeps its type, before the first piece as well.
THEOREM TypeCorrect == Spec => []TypeOK
BY GameInvariance, PTL DEF GameInv

\* As long as DIE was not sent the server has the score and the lives: every change
\* is reported before anything closes the game (the listeners of initialise, close).
THEOREM ServerIsTold == Spec => []ServerKnowsScore
BY GameInvariance, PTL DEF GameInv

\* However many gameLoops are queued while a handler waits, each finds one Timer, the
\* delay of the level, no full line and piece boards that are right.
THEOREM GameIsWhole == Spec => []GameWholeBetweenHandlers
<1>1. GameInv => GameWholeBetweenHandlers
  BY DEF GameInv, GameWholeBetweenHandlers, TimerRuns, Started, LinesCleared, BoardsTold
<1> QED
  BY <1>1, GameInvariance, PTL
=============================================================================
