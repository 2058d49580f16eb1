--------------------------------- MODULE Labs ---------------------------------
(***************************************************************************)
(* The exercises of the labs, and the colour game and the whiteboard of     *)
(* ecschat, checked together.  They are programs of their own: a behaviour  *)
(* is one of one of them, chosen at the start, and the others stay as they  *)
(* begin.                                                                   *)
(*                                                                         *)
(* The zoo is here twice, as lab7 and as lab8 keep its gates apart, and so  *)
(* is the belt of lab8: once with a producer that may stop inside enqueue,  *)
(* once with a consumer that may be interrupted.  The two of each use the   *)
(* same variables.                                                          *)
(***************************************************************************)
EXTENDS Integers, Sequences

CONSTANTS
  Gates, Guests,                                          \* Zoo
  Numbers, QueueCapacity,                                 \* CyclicQueue
  SeatCount,                                              \* Seats
  Blocks, Colours, Rounds, MaxClicks,                     \* ColourGame
  Sizes, Values, Garbage,                                 \* Triangular
  Sources, Outputs, JavaOutputs, Contents, MaxBytes,      \* JavaFileUtil
  Letters, MaxLength, MaxK,                               \* KPalindrome
  Points, Buttons, Drawings, MaxStrokes, MaxPoints, MaxReceived,   \* WhiteBoard
  p1, p2, c1, c2                                          \* Belt

VARIABLES
  exercise,   \* which of them the behaviour is of
  \* Zoo
  started, gate, passed, register, count, monitor,
  \* CyclicQueue
  queue, queueHead, queueTail, queueFull, outcome,
  \* Seats
  holder, asked,
  \* ColourGame
  currentColor, gridBlock, currentScore, gameLoopCounter, over, sentScore, click, temp,
  temp2, clicks, late,
  \* Triangular
  cells, size, made, table, result,
  \* JavaFileUtil
  fileName, files, folders, javaFiles, listed, position, call,
  \* KPalindrome
  word, limit, answer,
  \* WhiteBoard
  context, canvas, points, sent, held, stroke, disturbed, mixed, shown, strokes,
  received,
  \* Belt
  head, tail, isFull, unread, enqueueLock, dequeueLock, waitSet, pc, calls, onShift,
  interrupted

Z7 == INSTANCE Zoo WITH OneByOne <- TRUE, Locked <- FALSE, pc <- gate
Z8 == INSTANCE Zoo WITH OneByOne <- FALSE, Locked <- TRUE, pc <- gate
Q  == INSTANCE CyclicQueue WITH
        Capacity <- QueueCapacity, head <- queueHead, tail <- queueTail, isFull <- queueFull
P  == INSTANCE Seats
C  == INSTANCE ColourGame WITH sent <- sentScore
T  == INSTANCE Triangular
J  == INSTANCE JavaFileUtil
K  == INSTANCE KPalindrome WITH s <- word, i <- limit, outcome <- answer
W  == INSTANCE WhiteBoard

\* Numbers enough, and a producer that may stop inside enqueue.
B1 == INSTANCE Belt WITH
  Producers <- {p1}, Consumers <- {c1, c2}, Capacity <- 5, Initially <- 3,
  Interruptible <- {}, MaxCalls <- 1

\* A belt that is soon full or empty, and a consumer that may be interrupted.
B2 == INSTANCE Belt WITH
  Producers <- {p1, p2}, Consumers <- {c1}, Capacity <- 2, Initially <- 0,
  Interruptible <- {c1}, MaxCalls <- 2

zVars == <<started, gate, passed, register, count, monitor>>
qVars == <<queue, queueHead, queueTail, queueFull, outcome>>
pVars == <<holder, asked>>
cVars == <<currentColor, gridBlock, currentScore, gameLoopCounter, over, sentScore, click,
           temp, temp2, clicks, late>>
tVars == <<cells, size, made, table, result>>
jVars == <<fileName, files, folders, javaFiles, listed, position, call>>
kVars == <<word, limit, answer>>
wVars == <<context, canvas, points, sent, held, stroke, disturbed, mixed, shown,
           strokes, received>>
bVars == <<head, tail, isFull, unread, enqueueLock, dequeueLock, waitSet, pc, calls,
           onShift, interrupted>>
vars  == <<exercise, zVars, qVars, pVars, cVars, tVars, jVars, kVars, wVars, bVars>>

ASSUME LabsAssumption ==
  /\ Z7!ZooAssumption /\ Z8!ZooAssumption
  /\ Q!CyclicQueueAssumption
  /\ P!SeatsAssumption
  /\ C!ColourGameAssumption
  /\ T!TriangularAssumption
  /\ J!JavaFileUtilAssumption
  /\ K!KPalindromeAssumption
  /\ W!WhiteBoardAssumption
  /\ B1!BeltAssumption /\ B2!BeltAssumption

Zoo7    == exercise = "zoo7"
Zoo8    == exercise = "zoo8"
Queue   == exercise = "queue"
Table   == exercise = "seats"
Colour  == exercise = "colours"
Array   == exercise = "array"
Files   == exercise = "files"
Words   == exercise = "words"
Board   == exercise = "whiteboard"
Stopped == exercise = "stopped"   \* B1
Woken   == exercise = "woken"     \* B2

\* How a part that is not chosen begins matters to nobody.
Init ==
  /\ exercise \in {"zoo7", "zoo8", "queue", "seats", "colours", "array", "files", "words",
                   "whiteboard", "stopped", "woken"}
  /\ Z7!Init /\ Q!Init /\ P!Init /\ T!Init /\ W!Init
  /\ \/ Colour
     \/ /\ currentColor = CHOOSE colour \in Colours : TRUE
        /\ gridBlock = [b \in Blocks |-> currentColor]
  /\ C!Init
  /\ \/ Files
     \/ /\ fileName = CHOOSE name \in Outputs : TRUE
        /\ files = [name \in Sources |-> CHOOSE content \in Contents : TRUE]
        /\ folders = {}
  /\ J!Init
  /\ \/ Words
     \/ word = <<>> /\ limit = 0
  /\ K!Init
  /\ IF Woken THEN B2!Init ELSE B1!Init

\* Steps of one part leave the others alone.
InZoo(A) ==
  A /\ UNCHANGED <<exercise, qVars, pVars, cVars, tVars, jVars, kVars, wVars, bVars>>
InQueue(A) ==
  A /\ UNCHANGED <<exercise, zVars, pVars, cVars, tVars, jVars, kVars, wVars, bVars>>
InSeats(A) ==
  A /\ UNCHANGED <<exercise, zVars, qVars, cVars, tVars, jVars, kVars, wVars, bVars>>
InColour(A) ==
  A /\ UNCHANGED <<exercise, zVars, qVars, pVars, tVars, jVars, kVars, wVars, bVars>>
InArray(A) ==
  A /\ UNCHANGED <<exercise, zVars, qVars, pVars, cVars, jVars, kVars, wVars, bVars>>
InFiles(A) ==
  A /\ UNCHANGED <<exercise, zVars, qVars, pVars, cVars, tVars, kVars, wVars, bVars>>
InWords(A) ==
  A /\ UNCHANGED <<exercise, zVars, qVars, pVars, cVars, tVars, jVars, wVars, bVars>>
InBoard(A) ==
  A /\ UNCHANGED <<exercise, zVars, qVars, pVars, cVars, tVars, jVars, kVars, bVars>>
InBelt(A) ==
  A /\ UNCHANGED <<exercise, zVars, qVars, pVars, cVars, tVars, jVars, kVars, wVars>>

Next ==
  \/ Zoo7 /\ InZoo(Z7!Next)
  \/ Zoo8 /\ InZoo(Z8!Next)
  \/ Queue /\ InQueue(Q!Next)
  \/ Table /\ InSeats(P!Next)
  \/ Colour /\ InColour(C!Next)
  \/ Array /\ InArray(T!Next)
  \/ Files /\ InFiles(J!Next)
  \/ Words /\ InWords(K!Next)
  \/ Board /\ InBoard(W!Next)
  \/ Stopped /\ InBelt(B1!Next)
  \/ Woken /\ InBelt(B2!Next)

Spec == Init /\ [][Next]_vars

(***************************************************************************)
(* The fairness of the modules.                                             *)
(***************************************************************************)
Philosopher(seat) == Table /\ InSeats(P!Philosopher(seat))
RunStopped(c)     == Stopped /\ InBelt(B1!Run(c))
LockStopped(c)    == Stopped /\ InBelt(B1!LockDequeue(c))
RunWoken(t)       == Woken /\ InBelt(B2!Run(t))
LockWoken(t) ==
  \/ t # c1 /\ Woken /\ InBelt(B2!LockEnqueue(t))
  \/ t = c1 /\ Woken /\ InBelt(B2!LockDequeue(t))

Fairness ==
  /\ \A seat \in 1 .. SeatCount : WF_pVars(Philosopher(seat))
  /\ \A c \in {c1, c2} : WF_bVars(RunStopped(c)) /\ SF_bVars(LockStopped(c))
  /\ \A t \in {p1, p2, c1} : WF_bVars(RunWoken(t)) /\ SF_bVars(LockWoken(t))

FairSpec == Spec /\ Fairness

-----------------------------------------------------------------------------
(***************************************************************************)
(* The properties of the modules, each of the exercise it is about.         *)
(***************************************************************************)
\* Types, and what each module's type invariant relates.
TypeOK ==
  /\ Zoo7 => Z7!TypeOK
  /\ Zoo8 => Z8!TypeOK
  /\ Q!TypeOK /\ P!TypeOK /\ C!TypeOK /\ T!TypeOK /\ J!TypeOK /\ W!TypeOK
  /\ Stopped => B1!TypeOK
  /\ Woken => B2!TypeOK

\* No guest is lost or counted twice (lab7 and lab8, Gate.run).
EveryGuestCounted ==
  [][(Zoo7 => Z7!CountedOnce) /\ (Zoo8 => Z8!CountedOnce)]_vars

\* The cyclic queue gives back what was put in, oldest first (CyclicQueue).
ImplementsFifo == Q!ImplementsFifo

\* Somebody always gets to eat (seatType1, seatType2; SynchronisationQ3Test).
SomebodyEats == []<>(Table => P!Eating)

\* Without a late click the score sent is the one the player ends with (gameLoop).
SentScoreStands == C!SentScoreStands

\* A block that was hit gets another colour (blockClicked).
HitRepaints == [][C!Repainted]_vars

\* No two cells of the table share a cell of memory, and none is outside the block
\* if its size began at zero or above (q2.c, newarray and store).
BlockHoldsTable == T!BlockHoldsTable

\* The file holds the others one after the other (concatenateJavaFiles).
Concatenated == J!Concatenated

\* The answer is no exactly if no choice of letters leaves a palindrome
\* (isKPalindrome).
NoExactly == K!NoExactly

\* The whiteboard shows the lines of its strokes and drawings (DrawWindow, paint).
NothingMixed == W!NothingMixed

\* The others see a stroke as it was drawn (PaintMessage, encode and decode).
OthersSeeStroke == [][W!SameStroke]_vars

\* Consumers of a belt with numbers enough finish even if a producer stops halfway
\* through enqueue (Belt.dequeue, twoLockQueueTest).
DequeueNotHeldUp == <>(Stopped => \A c \in {c1, c2} : B1!At(c, "done"))

\* A sleeper sleeps no longer than the next call of the other side takes
\* (Belt.threadWait, threadNotify).
WakeupFollows ==
  \A p \in {p1, p2} :
    /\ (Woken /\ B2!At(c1, "asleep") /\ B2!At(p, "write"))
          ~> (Woken /\ ~B2!At(c1, "asleep"))
    /\ (Woken /\ B2!At(p, "asleep") /\ B2!At(c1, "read"))
          ~> (Woken /\ ~B2!At(p, "asleep"))
===============================================================================
