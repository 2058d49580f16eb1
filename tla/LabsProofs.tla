------------------------------- MODULE LabsProofs -------------------------------
(***************************************************************************)
(* The properties of the labs for any number of gates, seats, rounds, sizes*)
(* and letters, any files and any strokes.                                 *)
(*                                                                         *)
(* Each part has an inductive invariant of its own, which the steps of the *)
(* others leave as it is; the last section puts them together.  For the zoo,*)
(* the cyclic queue and the belt they are the invariants of their own proof*)
(* modules.                                                                *)
(*                                                                         *)
(* Several of the parts are computed by a fold or a recursive function.    *)
(* What these give follows from Inductive: every set that holds 0 and the  *)
(* successors of its elements holds the naturals.                          *)
(***************************************************************************)
EXTENDS Labs, FiniteSetTheorems, SequenceTheorems, WellFoundedInduction, TLAPS

(***************************************************************************)
(* Induction.  That < is well founded on the naturals gives every set of   *)
(* them a least element, and so a set that holds 0 and with n also n + 1   *)
(* holds them all.                                                         *)
(***************************************************************************)
LEMMA LeastNat ==
  ASSUME NEW S, S \subseteq Nat, S # {}
  PROVE  \E n \in S : \A m \in S : n <= m
<1> DEFINE R == {pair \in Nat \X Nat : pair[1] < pair[2]}
<1>1. IsWellFoundedOn(R, Nat)
  BY NatLessThanWellFounded DEF OpToRel
<1> HIDE DEF R
<1>2. PICK n \in S : \A m \in S : ~ (<<m, n>> \in R)
  BY <1>1, WFMin
<1>3. \A k, m \in Nat : <<k, m>> \in R <=> k < m
  BY DEF R
<1>4. \A m \in S : m \in Nat /\ n \in Nat /\ ~(m < n)
  BY <1>2, <1>3
<1>5. \A m \in S : n <= m
  BY <1>4
<1> QED
  BY <1>5

\* Induction on the naturals, about sets.
LEMMA Inductive ==
  ASSUME NEW S, 0 \in S, \A n \in Nat : n \in S => n + 1 \in S
  PROVE  Nat \subseteq S
<1> SUFFICES ASSUME Nat \ S # {} PROVE FALSE
  OBVIOUS
<1>1. PICK n \in Nat \ S : \A m \in Nat \ S : n <= m
  BY LeastNat
<1>2. n # 0
  BY <1>1
<1>3. n - 1 \in Nat /\ ~(n <= n - 1) /\ (n - 1) + 1 = n
  BY <1>1, <1>2
<1>4. n - 1 \in S
  BY <1>1, <1>3
<1> QED
  BY <1>1, <1>3, <1>4

(***************************************************************************)
(* The colour game.  Once the score is sent only a click can change it, and*)
(* a click that does not make the game late has ended before.              *)
(***************************************************************************)
NoLateClick == over /\ ~late => click = C!NoClick

\* The colour a click will paint is not the one it saw.
PaintsAnother == click # C!NoClick => temp2 # temp

ColourInv ==
  C!TypeOK /\ NoLateClick /\ C!SentScoreStands /\ PaintsAnother

ColourSteps == [C!Next]_cVars

\* The game begins with a score of zero and no click.
LEMMA ColourInit ==
  ASSUME C!ColourGameAssumption, C!Init
  PROVE  ColourInv
<1> USE DEF C!ColourGameAssumption, C!Init
<1>1. currentScore \in Int /\ sentScore \in Int /\ ~(currentScore < 0)
  OBVIOUS
<1>2. gameLoopCounter \in 1 .. Rounds + 1 /\ clicks \in 0 .. MaxClicks
  OBVIOUS
<1>3. over \in BOOLEAN /\ late \in BOOLEAN
  OBVIOUS
<1>4. C!TypeOK
  BY <1>1, <1>2, <1>3 DEF C!TypeOK
<1> QED
  BY <1>1, <1>4 DEF ColourInv, NoLateClick, C!SentScoreStands, PaintsAnother, C!NoClick

\* A click is idle or at one of its labels.
LEMMA ClickAt ==
  /\ \A label, b : C!Clicking(label, b).at = label /\ C!Clicking(label, b).on = b
  /\ \A label, b : label # "idle" => C!Clicking(label, b) # C!NoClick
  /\ C!NoClick.at = "idle"
BY DEF C!Clicking, C!NoClick

\* A click under way has a label and a block.
LEMMA ClickType ==
  ASSUME C!TypeOK, click.at # "idle"
  PROVE  /\ click \in [at : {"compare", "hit", "miss", "paint", "clamp"}, on : Blocks]
         /\ click # C!NoClick
BY ClickAt DEF C!TypeOK

\* gameLoop sends the score, and notes a click it comes in the middle of.
LEMMA GameLoopInv ==
  ASSUME C!ColourGameAssumption, ColourInv, C!GameLoop
  PROVE  ColourInv'
<1> USE DEF ColourInv, C!GameLoop, C!clickVars
<1>1. C!TypeOK'
  <2>1. currentColor' \in Colours /\ sentScore' \in Int
    BY DEF C!TypeOK
  <2>2. gameLoopCounter' \in 1 .. Rounds + 1
    BY DEF C!TypeOK, C!ColourGameAssumption
  <2>3. over' \in BOOLEAN /\ late' \in BOOLEAN
    BY DEF C!TypeOK
  <2> QED
    BY <2>1, <2>2, <2>3 DEF C!TypeOK, C!NoClick
<1>2. NoLateClick' /\ PaintsAnother'
  <2>1. click' = click /\ temp' = temp /\ temp2' = temp2
    OBVIOUS
  <2>2. over' /\ ~late' => click = C!NoClick
    BY DEF NoLateClick
  <2> QED
    BY <2>1, <2>2 DEF NoLateClick, PaintsAnother, C!NoClick
<1>3. C!SentScoreStands'
  <2>1. CASE over'=over
    BY <2>1 DEF C!SentScoreStands
  <2>2. CASE over' # over /\ ~late'
    <3>1. click = C!NoClick /\ sentScore' = currentScore /\ currentScore' = currentScore
      BY <2>2
    <3>2. ~(currentScore < 0) /\ currentScore \in Int
      BY <3>1, ClickAt DEF C!TypeOK
    <3> QED
      BY <3>1, <3>2 DEF C!SentScoreStands
  <2> QED
    BY <2>1, <2>2 DEF C!SentScoreStands
<1> QED
  BY <1>1, <1>2, <1>3

\* A click that begins chooses a colour other than the one it saw, and is late if the
\* game is over.
LEMMA ChooseColourInv ==
  ASSUME C!ColourGameAssumption, ColourInv, NEW b \in Blocks, C!ChooseColour(b)
  PROVE  ColourInv'
<1> USE DEF ColourInv, C!ChooseColour
<1>1. C!TypeOK'
  <2>1. click' \in [at : {"compare", "hit", "miss", "paint", "clamp"}, on : Blocks]
    BY DEF C!Clicking
  <2>2. ~(currentScore' < 0)
    BY ClickAt DEF C!TypeOK
  <2> QED
    BY <2>1, <2>2 DEF C!TypeOK, C!ColourGameAssumption
<1>2. NoLateClick' /\ PaintsAnother' /\ C!SentScoreStands'
  BY DEF NoLateClick, PaintsAnother, C!SentScoreStands
<1> QED
  BY <1>1, <1>2

\* What a click does later changes neither the score sent nor the colour it chose.
LEMMA HandleClickInv ==
  ASSUME C!ColourGameAssumption, ColourInv, C!HandleClick
  PROVE  ColourInv'
<1> USE DEF ColourInv
<1>1. click.at # "idle"
  BY DEF C!HandleClick, C!Compare, C!Score, C!Paint, C!Lose, C!Clamp
<1>2. /\ click \in [at : {"compare", "hit", "miss", "paint", "clamp"}, on : Blocks]
      /\ click # C!NoClick
  BY <1>1, ClickType
<1>3. over => late
  BY <1>2 DEF NoLateClick
<1>4. over' = over /\ late' = late
  BY DEF C!HandleClick, C!Compare, C!Score, C!Paint, C!Lose, C!Clamp
<1>5. NoLateClick' /\ C!SentScoreStands'
  BY <1>3, <1>4 DEF NoLateClick, C!SentScoreStands
<1>6. PaintsAnother'
  BY <1>2 DEF PaintsAnother, C!HandleClick, C!Compare, C!Score, C!Paint, C!Lose, C!Clamp
<1>7. C!TypeOK'
  <2>1. CASE C!Compare
    <3>1. click' \in [at : {"compare", "hit", "miss", "paint", "clamp"}, on : Blocks]
      BY <1>2, <2>1 DEF C!Clicking, C!Compare
    <3> QED
      BY <2>1, <3>1 DEF C!TypeOK, C!Compare
  <2>2. CASE C!Score
    <3>1. click' \in [at : {"compare", "hit", "miss", "paint", "clamp"}, on : Blocks]
      BY <1>2, <2>2 DEF C!Clicking, C!Score
    <3>2. ~(currentScore < 0) /\ currentScore \in Int
      BY <2>2 DEF C!TypeOK, C!Score
    <3> QED
      BY <2>2, <3>1, <3>2 DEF C!TypeOK, C!Score
  <2>3. CASE C!Paint
    BY <1>2, <2>3 DEF C!TypeOK, C!Paint
  <2>4. CASE C!Lose
    <3>1. /\ click' \in [at : {"compare", "hit", "miss", "paint", "clamp"}, on : Blocks]
          /\ click'.at = "clamp"
      BY <1>2, <2>4 DEF C!Clicking, C!Lose
    <3> QED
      BY <2>4, <3>1 DEF C!TypeOK, C!Lose
  <2>5. CASE C!Clamp
    <3>1. currentScore' \in Int /\ ~(currentScore' < 0)
      BY <2>5 DEF C!TypeOK, C!Clamp
    <3> QED
      BY <2>5, <3>1 DEF C!TypeOK, C!Clamp
  <2> QED
    BY <2>1, <2>2, <2>3, <2>4, <2>5 DEF C!HandleClick
<1> QED
  BY <1>5, <1>6, <1>7

\* Every step of the game keeps the invariant.
LEMMA ColourNext ==
  ASSUME C!ColourGameAssumption, ColourInv, ColourSteps
  PROVE  ColourInv'
<1>1. CASE UNCHANGED cVars
  BY <1>1 DEF cVars, ColourInv, C!TypeOK, NoLateClick, C!SentScoreStands, PaintsAnother,
              C!NoClick
<1> QED
  BY <1>1, GameLoopInv, ChooseColourInv, HandleClickInv DEF ColourSteps, C!Next

\* What is painted is the colour chosen.
LEMMA ColourRepaints ==
  ASSUME ColourInv, ColourSteps
  PROVE  C!Repainted
<1> SUFFICES ASSUME NEW b \in Blocks, click = C!Clicking("paint", b), click' = C!NoClick,
                    temp = gridBlock[b]
             PROVE  gridBlock'[b] # gridBlock[b]
  BY DEF C!Repainted
<1>1. click.at = "paint" /\ click.on = b /\ click # C!NoClick /\ click' # click
  BY ClickAt
<1>2. C!Paint
  BY <1>1 DEF ColourSteps, cVars, C!Next, C!GameLoop, C!clickVars, C!ChooseColour,
              C!HandleClick, C!Compare, C!Score, C!Lose, C!Clamp
<1>3. gridBlock'[b] = temp2
  BY <1>1, <1>2 DEF C!Paint, ColourInv, C!TypeOK
<1> QED
  BY <1>1, <1>3 DEF ColourInv, PaintsAnother

(***************************************************************************)
(* The philosophers' seats.  Who holds what follows from how many forks a  *)
(* philosopher has asked for.                                              *)
(***************************************************************************)
\* s has taken f.
Taken(f, s) ==
  \/ asked[s] \in {1, 2} /\ f = P!FirstFork(s)
  \/ asked[s] = 2 /\ f = P!SecondFork(s)

SeatInv ==
  /\ P!TypeOK
  /\ \A f, s \in P!Seats : holder[f] = s <=> Taken(f, s)

SeatSteps == [P!Next]_pVars

\* The forks of each seat, written without the remainder.
LEMMA ForksAre ==
  ASSUME P!SeatsAssumption, NEW s \in P!Seats
  PROVE  /\ P!FirstFork(s) = (IF s < SeatCount THEN s ELSE 1)
         /\ P!SecondFork(s) = (IF s < SeatCount THEN s + 1 ELSE SeatCount)
         /\ P!FirstFork(s) \in P!Seats /\ P!SecondFork(s) \in P!Seats
         /\ P!FirstFork(s) # P!SecondFork(s)
         /\ {P!FirstFork(s), P!SecondFork(s)} = {P!leftFork(s), P!rightFork(s)}
<1>1. SeatCount \in Nat /\ SeatCount >= 2 /\ s \in Nat /\ 1 <= s /\ s <= SeatCount
  BY DEF P!SeatsAssumption, P!Seats
<1>2. CASE s < SeatCount
  <2>1. s % SeatCount = s
    BY <1>1, <1>2
  <2> QED
    BY <1>1, <1>2, <2>1 DEF P!FirstFork, P!SecondFork, P!leftFork, P!rightFork, P!Seats
<1>3. CASE s = SeatCount
  <2>1. s % SeatCount = 0
    BY <1>1, <1>3
  <2> QED
    BY <1>1, <1>3, <2>1 DEF P!FirstFork, P!SecondFork, P!leftFork, P!rightFork, P!Seats
<1> QED
  BY <1>1, <1>2, <1>3

\* At first no fork is taken.
LEMMA SeatInit ==
  ASSUME P!SeatsAssumption, P!Init
  PROVE  SeatInv
<1>1. P!TypeOK
  BY DEF P!Init, P!TypeOK, P!Seats
<1>2. \A f, s \in P!Seats : holder[f] # s /\ asked[s] = 0
  BY DEF P!Init, P!Seats
<1>3. \A f, s \in P!Seats : ~Taken(f, s)
  BY <1>2 DEF Taken
<1> QED
  BY <1>1, <1>2, <1>3 DEF SeatInv

\* A philosopher takes a free fork, or gives its two back.
LEMMA SeatNext ==
  ASSUME P!SeatsAssumption, SeatInv, SeatSteps
  PROVE  SeatInv'
<1>1. CASE UNCHANGED pVars
  BY <1>1 DEF pVars, SeatInv, P!TypeOK, Taken
<1>2. ASSUME NEW t \in P!Seats, P!Philosopher(t) PROVE SeatInv'
  <2>0. /\ holder \in [P!Seats -> {0} \cup P!Seats] /\ asked \in [P!Seats -> 0 .. 2]
        /\ \A f \in P!Seats : holder[f] # 0 => f \in {P!leftFork(holder[f]), P!rightFork(holder[f])}
        /\ \A f, s \in P!Seats : holder[f] = s <=> Taken(f, s)
    BY DEF SeatInv, P!TypeOK
  <2> DEFINE first(s) == P!FirstFork(s)
  <2> DEFINE second(s) == P!SecondFork(s)
  <2>f. \A s \in P!Seats : /\ first(s) \in P!Seats /\ second(s) \in P!Seats
                           /\ first(s) # second(s)
                           /\ {first(s), second(s)} = {P!leftFork(s), P!rightFork(s)}
    BY ForksAre
  <2>z. 0 \notin P!Seats
    BY DEF P!Seats
  <2>t. \A s \in P!Seats : asked[s] \in {0, 1, 2}
    BY <2>0
  <2> HIDE DEF first, second
  <2>1. CASE P!AskFork1(t)
    <3>1. /\ asked[t] = 0 /\ holder[first(t)] = 0
          /\ holder' = [holder EXCEPT ![first(t)] = t]
          /\ asked' = [asked EXCEPT ![t] = 1]
      BY <2>1 DEF P!AskFork1, first
    <3>2. P!TypeOK'
      <4>1. holder' \in [P!Seats -> {0} \cup P!Seats] /\ asked' \in [P!Seats -> 0 .. 2]
        BY <2>0, <2>f, <3>1
      <4>2. \A f \in P!Seats : holder'[f] = IF f = first(t) THEN t ELSE holder[f]
        BY <2>0, <3>1
      <4>3. first(t) \in {P!leftFork(t), P!rightFork(t)}
        BY <2>f
      <4>4. \A f \in P!Seats :
              holder'[f] # 0 => f \in {P!leftFork(holder'[f]), P!rightFork(holder'[f])}
        BY <2>0, <4>2, <4>3
      <4> QED
        BY <4>1, <4>4 DEF P!TypeOK
    <3>3. \A f \in P!Seats : holder'[f] = IF f = first(t) THEN t ELSE holder[f]
      BY <2>0, <3>1
    <3>4. \A s \in P!Seats : asked'[s] = IF s = t THEN 1 ELSE asked[s]
      BY <2>0, <3>1
    <3>5. \A f, s \in P!Seats : Taken(f, s)' <=>
             IF s = t THEN f = first(t) ELSE Taken(f, s)
      BY <3>4 DEF Taken, first
    <3>6. \A f \in P!Seats : ~Taken(f, t)
      BY <3>1 DEF Taken
    <3>7. \A s \in P!Seats : ~Taken(first(t), s)
      BY <2>0, <2>f, <2>z, <3>1
    <3>8. \A f, s \in P!Seats : (holder[f] = s <=> Taken(f, s))'
      BY <2>0, <3>3, <3>5, <3>6, <3>7
    <3> QED
      BY <3>2, <3>8 DEF SeatInv
  <2>2. CASE P!AskFork2(t)
    <3>1. /\ asked[t] = 1 /\ holder[second(t)] = 0
          /\ holder' = [holder EXCEPT ![second(t)] = t]
          /\ asked' = [asked EXCEPT ![t] = 2]
      BY <2>2 DEF P!AskFork2, second
    <3>2. P!TypeOK'
      <4>1. holder' \in [P!Seats -> {0} \cup P!Seats] /\ asked' \in [P!Seats -> 0 .. 2]
        BY <2>0, <2>f, <3>1
      <4>2. \A f \in P!Seats : holder'[f] = IF f = second(t) THEN t ELSE holder[f]
        BY <2>0, <3>1
      <4>3. second(t) \in {P!leftFork(t), P!rightFork(t)}
        BY <2>f
      <4>4. \A f \in P!Seats :
              holder'[f] # 0 => f \in {P!leftFork(holder'[f]), P!rightFork(holder'[f])}
        BY <2>0, <4>2, <4>3
      <4> QED
        BY <4>1, <4>4 DEF P!TypeOK
    <3>3. \A f \in P!Seats : holder'[f] = IF f = second(t) THEN t ELSE holder[f]
      BY <2>0, <3>1
    <3>4. \A s \in P!Seats : asked'[s] = IF s = t THEN 2 ELSE asked[s]
      BY <2>0, <3>1
    <3>5. \A f, s \in P!Seats : Taken(f, s)' <=>
             IF s = t THEN f \in {first(t), second(t)} ELSE Taken(f, s)
      BY <3>4 DEF Taken, first, second
    <3>6. \A f \in P!Seats : Taken(f, t) <=> f = first(t)
      BY <3>1 DEF Taken, first
    <3>7. \A s \in P!Seats : ~Taken(second(t), s)
      BY <2>0, <2>f, <2>z, <3>1
    <3>8. \A f, s \in P!Seats : (holder[f] = s <=> Taken(f, s))'
      BY <2>0, <3>3, <3>5, <3>6, <3>7
    <3> QED
      BY <3>2, <3>8 DEF SeatInv
  <2>3. CASE P!PutDown(t)
    <3>1. /\ asked[t] = 2
          /\ holder' = [f \in P!Seats |-> IF holder[f] = t THEN 0 ELSE holder[f]]
          /\ asked' = [asked EXCEPT ![t] = 0]
      BY <2>3 DEF P!PutDown
    <3>2. P!TypeOK'
      BY <2>0, <3>1 DEF P!TypeOK
    <3>3. \A f \in P!Seats : holder'[f] = IF holder[f] = t THEN 0 ELSE holder[f]
      BY <3>1
    <3>4. \A s \in P!Seats : asked'[s] = IF s = t THEN 0 ELSE asked[s]
      BY <2>0, <3>1
    <3>5. \A f, s \in P!Seats : Taken(f, s)' <=> s # t /\ Taken(f, s)
      BY <3>4 DEF Taken
    <3>8. \A f, s \in P!Seats : (holder[f] = s <=> Taken(f, s))'
      BY <2>0, <2>z, <3>3, <3>5
    <3> QED
      BY <3>2, <3>8 DEF SeatInv
  <2> QED
    BY <1>2, <2>1, <2>2, <2>3 DEF P!Philosopher
<1> QED
  BY <1>1, <1>2 DEF SeatSteps, P!Next

\* Some philosopher can take the next step.
Free(s) ==
  \/ asked[s] = 0 /\ holder[P!FirstFork(s)] = 0
  \/ asked[s] = 1 /\ holder[P!SecondFork(s)] = 0
  \/ asked[s] = 2

SomebodyFree == \E s \in P!Seats : Free(s)

\* If nobody could go on, a seat would hold its first fork and wait for that of the next,
\* which would do the same: there is no such seat behind the last of the first type.
LEMMA SeatFree ==
  ASSUME P!SeatsAssumption, SeatInv
  PROVE  SomebodyFree
<1> SUFFICES ASSUME \A s \in P!Seats : ~Free(s) PROVE FALSE
  BY DEF SomebodyFree
<1>1. \A f, s \in P!Seats : holder[f] = s <=> Taken(f, s)
  BY DEF SeatInv
<1>2. \A f \in P!Seats : holder[f] # 0 => holder[f] \in P!Seats
  BY DEF SeatInv, P!TypeOK
<1>3. \A s \in P!Seats : asked[s] \in {0, 1}
  BY DEF SeatInv, P!TypeOK, Free
<1>4. SeatCount \in Nat /\ SeatCount >= 2 /\ P!Seats = 1 .. SeatCount
  BY DEF P!SeatsAssumption, P!Seats
\* A fork that is taken is the first one of a seat that has it alone.
<1>5. \A f \in P!Seats : holder[f] # 0 => \E s \in P!Seats : asked[s] = 1 /\ f = P!FirstFork(s)
  BY <1>1, <1>2, <1>3 DEF Taken
<1>6. \A s \in P!Seats :
        /\ P!FirstFork(s) = (IF s < SeatCount THEN s ELSE 1)
        /\ P!SecondFork(s) = (IF s < SeatCount THEN s + 1 ELSE SeatCount)
        /\ P!FirstFork(s) \in P!Seats /\ P!SecondFork(s) \in P!Seats
  BY ForksAre
<1>7. \E s \in P!Seats : asked[s] = 1
  <2>1. 1 \in P!Seats
    BY <1>4
  <2> QED
    BY <1>3, <1>5, <1>6, <2>1 DEF Free
<1>8. \A s \in P!Seats : asked[s] = 1 => s + 1 \in P!Seats /\ asked[s + 1] = 1 /\ s + 1 < SeatCount
  <2> SUFFICES ASSUME NEW s \in P!Seats, asked[s] = 1
               PROVE  s + 1 \in P!Seats /\ asked[s + 1] = 1 /\ s + 1 < SeatCount
    OBVIOUS
  <2>1. holder[P!SecondFork(s)] # 0
    BY DEF Free
  <2>2. PICK r \in P!Seats : asked[r] = 1 /\ P!SecondFork(s) = P!FirstFork(r)
    BY <1>5, <1>6, <2>1
  <2>3. s \in Nat /\ r \in Nat /\ 1 <= s /\ 1 <= r /\ s <= SeatCount /\ r <= SeatCount
    BY <1>4
  <2>4. s < SeatCount /\ r < SeatCount /\ r = s + 1
    <3>1. P!FirstFork(r) = (IF r < SeatCount THEN r ELSE 1)
      BY <1>6
    <3>2. P!SecondFork(s) = (IF s < SeatCount THEN s + 1 ELSE SeatCount)
      BY <1>6
    <3> QED
      BY <1>4, <2>2, <2>3, <3>1, <3>2
  <2> QED
    BY <1>4, <2>2, <2>3, <2>4
<1> DEFINE Last == {m \in Nat : m < SeatCount /\ asked[SeatCount - m] = 1}
<1>9. PICK m \in Last : \A k \in Last : m <= k
  <2>1. PICK s \in P!Seats : asked[s] = 1
    BY <1>7
  <2>2. SeatCount - s \in Nat /\ SeatCount - s < SeatCount /\ SeatCount - (SeatCount - s) = s
    BY <1>4
  <2>3. Last # {} /\ Last \subseteq Nat
    BY <2>1, <2>2
  <2> HIDE DEF Last
  <2> QED
    BY <2>3, LeastNat
<1>10. SeatCount - m \in P!Seats /\ asked[SeatCount - m] = 1
  BY <1>4
<1>11. PICK s \in P!Seats : s = SeatCount - m
  BY <1>10
<1>12. asked[s + 1] = 1 /\ s + 1 < SeatCount
  BY <1>8, <1>10, <1>11
<1>13. m - 1 \in Nat /\ SeatCount - (m - 1) = s + 1 /\ m - 1 < SeatCount
  BY <1>4, <1>11, <1>12
<1>14. m - 1 \in Last
  BY <1>12, <1>13
<1> QED
  BY <1>9, <1>14

(***************************************************************************)
(* The triangular array.  Rows 0 to r - 1 take r * (2 * N - r + 1) / 2     *)
(* cells, so a row begins behind the one before it and the last ends with  *)
(* the block.                                                              *)
(***************************************************************************)
AreRowStarts(f, N, row) ==
  f = [r \in 0 .. row |-> IF r = 0 THEN 0 ELSE f[r - 1] + N - (r - 1)]

Above(N, r) == r * (2 * N - r + 1)

\* The recursion over the rows has a solution.
LEMMA RowStartsExist ==
  ASSUME NEW N \in Nat, NEW row \in Nat
  PROVE  \E f : AreRowStarts(f, N, row)
<1> DEFINE S == {n \in Nat : \E f : AreRowStarts(f, N, n)}
<1>1. 0 \in S
  <2>1. AreRowStarts([r \in 0 .. 0 |-> 0], N, 0)
    BY DEF AreRowStarts
  <2> QED
    BY <2>1
<1>2. ASSUME NEW n \in Nat, n \in S
      PROVE  n + 1 \in S
  <2>1. PICK f : AreRowStarts(f, N, n)
    BY <1>2
  <2> DEFINE g == [r \in 0 .. n + 1 |-> IF r = n + 1 THEN f[n] + N - n ELSE f[r]]
  <2>2. \A r \in 0 .. n + 1 : g[r] = IF r = 0 THEN 0 ELSE g[r - 1] + N - (r - 1)
    BY <2>1 DEF AreRowStarts
  <2>3. AreRowStarts(g, N, n + 1)
    BY <2>2 DEF AreRowStarts
  <2> QED
    BY <2>3
<1> HIDE DEF S
<1>3. row \in S
  BY <1>1, <1>2, Inductive
<1> QED
  BY <1>3 DEF S

\* It is the formula.
LEMMA RowStartsAre ==
  ASSUME NEW N \in Nat, NEW row \in Nat, NEW f, AreRowStarts(f, N, row)
  PROVE  \A r \in 0 .. row : f[r] \in Int /\ 2 * f[r] = Above(N, r)
<1> DEFINE S == {n \in Nat : n <= row => f[n] \in Int /\ 2 * f[n] = Above(N, n)}
<1>1. 0 \in S
  BY DEF AreRowStarts, Above
<1>2. ASSUME NEW n \in Nat, n \in S
      PROVE  n + 1 \in S
  <2>1. CASE n + 1 <= row
    <3>1. f[n] \in Int /\ 2 * f[n] = Above(N, n)
      BY <1>2, <2>1
    <3>2. f[n + 1] = f[n] + N - n
      BY <2>1 DEF AreRowStarts
    <3>3. Above(N, n + 1) = Above(N, n) + 2 * (N - n)
      BY DEF Above
    <3>4. f[n + 1] \in Int /\ 2 * f[n + 1] = Above(N, n + 1)
      BY <3>1, <3>2, <3>3
    <3> QED
      BY <3>4
  <2> QED
    BY <2>1
<1> HIDE DEF S
<1>3. \A n \in Nat : n \in S
  BY <1>1, <1>2, Inductive
<1> QED
  BY <1>3 DEF S

\* Where the cells of a row are.
LEMMA IndexIs ==
  ASSUME NEW N \in Nat, NEW row \in Nat, NEW col \in Int
  PROVE  /\ T!Index(N, row, col) \in Int
         /\ 2 * T!Index(N, row, col) = Above(N, row) + 2 * (col - row + 1)
<1> DEFINE f == CHOOSE g : AreRowStarts(g, N, row)
<1>1. AreRowStarts(f, N, row)
  BY RowStartsExist
<1>2. T!Index(N, row, col) = f[row] + col - row + 1
  BY DEF T!Index, AreRowStarts
<1> HIDE DEF f
<1>3. f[row] \in Int /\ 2 * f[row] = Above(N, row)
  BY <1>1, RowStartsAre
<1> QED
  BY <1>2, <1>3

\* A later row begins no earlier than the one before it ends.
LEMMA AboveGrows ==
  ASSUME NEW N \in Nat, NEW a \in 0 .. N, NEW b \in a .. N
  PROVE  Above(N, a) <= Above(N, b)
<1>1. Above(N, b) - Above(N, a) = (b - a) * (2 * N - b - a + 1)
  BY DEF Above
<1>2. b - a >= 0 /\ 2 * N - b - a + 1 >= 0 /\ b - a \in Int /\ 2 * N - b - a + 1 \in Int
  OBVIOUS
<1>3. \A m, n \in Int : m >= 0 /\ n >= 0 => m * n >= 0
  OBVIOUS
<1>4. (b - a) * (2 * N - b - a + 1) >= 0
  BY <1>2, <1>3
<1>5. Above(N, a) \in Int /\ Above(N, b) \in Int
  BY DEF Above
<1> QED
  BY <1>1, <1>4, <1>5

\* The places of the table's cells: where a row ends the next begins.
LEMMA IndexInRow ==
  ASSUME NEW N \in Nat, NEW row \in 0 .. N - 1, NEW col \in row .. N - 1
  PROVE  /\ T!Index(N, row, col) \in Int
         /\ Above(N, row) \in Int /\ Above(N, row + 1) \in Int
         /\ Above(N, row) < 2 * T!Index(N, row, col)
         /\ 2 * T!Index(N, row, col) <= Above(N, row + 1)
<1>1. /\ T!Index(N, row, col) \in Int
      /\ 2 * T!Index(N, row, col) = Above(N, row) + 2 * (col - row + 1)
  BY IndexIs
<1>2. Above(N, row) \in Int /\ Above(N, row + 1) = Above(N, row) + 2 * (N - row)
  BY DEF Above
<1> QED
  BY <1>1, <1>2

\* The cells of the table are in its block.
LEMMA IndexInBlock ==
  ASSUME NEW N \in Nat, NEW row \in 0 .. N - 1, NEW col \in row .. N - 1
  PROVE  /\ T!Index(N, row, col) \in Nat \ {0}
         /\ T!Index(N, row, col) <= T!Sum(N)
<1>1. Above(N, 0) = 0 /\ Above(N, N) = N * (N + 1)
  BY DEF Above
<1>2. 0 <= Above(N, row)
  BY <1>1, AboveGrows
<1>3. Above(N, row + 1) <= N * (N + 1)
  BY <1>1, AboveGrows
<1>4. PICK M \in Int : M = N * (N + 1)
  OBVIOUS
<1>5. T!Sum(N) = M \div 2
  BY <1>4 DEF T!Sum
<1>6. 2 * T!Index(N, row, col) <= M /\ 0 < 2 * T!Index(N, row, col)
  BY <1>2, <1>3, <1>4, IndexInRow
<1> QED
  BY <1>5, <1>6, IndexInRow

\* No two cells of the table have the same place.
LEMMA IndexApart ==
  ASSUME NEW N \in Nat,
         NEW r1 \in 0 .. N - 1, NEW col1 \in r1 .. N - 1,
         NEW r2 \in 0 .. N - 1, NEW col2 \in r2 .. N - 1,
         T!Index(N, r1, col1) = T!Index(N, r2, col2)
  PROVE  r1 = r2 /\ col1 = col2
<1>1. ~(r1 < r2)
  <2> SUFFICES ASSUME r1 < r2 PROVE FALSE
    OBVIOUS
  <2>1. Above(N, r1 + 1) <= Above(N, r2)
    BY AboveGrows
  <2> QED
    BY <2>1, IndexInRow
<1>2. ~(r2 < r1)
  <2> SUFFICES ASSUME r2 < r1 PROVE FALSE
    OBVIOUS
  <2>1. Above(N, r2 + 1) <= Above(N, r1)
    BY AboveGrows
  <2> QED
    BY <2>1, IndexInRow
<1>3. r1 = r2
  BY <1>1, <1>2
<1>4. PICK A \in Int : A = Above(N, r1)
  BY DEF Above
<1>5. A + 2 * (col1 - r1 + 1) = A + 2 * (col2 - r1 + 1)
  BY <1>3, <1>4, IndexIs
<1> QED
  BY <1>3, <1>5

\* What was written is in the block if the size began right, and every cell of the
\* table has been written.
CellsInBlock ==
  \A index \in DOMAIN cells :
    index <= T!Sum(made) /\ (index # 0 => cells[index] \in Values)

TableWritten ==
  \A cell \in DOMAIN table :
    /\ cell[2] \in cell[1] .. made - 1
    /\ T!Index(made, cell[1], cell[2]) \in DOMAIN cells

Unmade == made = 0 => DOMAIN cells = {} /\ DOMAIN table = {}

SizeKept == made # 0 => 0 \in DOMAIN cells

ArrayInv ==
  T!TypeOK /\ Unmade /\ SizeKept /\ CellsInBlock /\ TableWritten /\ T!TableKept

ArraySteps == [T!Next]_tVars

\* The size newarray computes.
LEMMA SumIs ==
  /\ \A N \in Nat : T!Sum(N) \in Nat
  /\ T!Sum(0) = 0
<1>1. ASSUME NEW N \in Nat
      PROVE  T!Sum(N) \in Nat
  <2>1. PICK M \in Nat : M = N * (N + 1)
    OBVIOUS
  <2> QED
    BY <2>1 DEF T!Sum
<1> QED
  BY <1>1 DEF T!Sum

\* At first nothing is made and nothing stored.
LEMMA ArrayInit ==
  ASSUME T!TriangularAssumption, T!Init
  PROVE  ArrayInv
<1>1. DOMAIN cells = {} /\ DOMAIN table = {} /\ size = 0 /\ made = 0 /\ result = 0
  BY DEF T!Init, T!Nothing
<1> QED
  BY <1>1 DEF ArrayInv, T!TypeOK, Unmade, SizeKept, CellsInBlock, TableWritten,
              T!TableKept, T!TriangularAssumption

\* A new block holds its size in cell 0, and nothing is in its table.
LEMMA NewArrayInv ==
  ASSUME T!TriangularAssumption, ArrayInv, NEW N \in Sizes, T!NewArray(N)
  PROVE  ArrayInv'
<1>1. made = 0 /\ made' = N /\ N \in Nat \ {0} /\ result' = result
  BY DEF T!NewArray, T!TriangularAssumption
<1>2. DOMAIN table = {} /\ table' = table
  BY <1>1 DEF ArrayInv, Unmade, T!NewArray
<1>3. DOMAIN cells' = {0} /\ cells'[0] = N
  BY DEF T!NewArray, T!With, T!Nothing
<1>4. size' \in Nat
  BY <1>1, SumIs DEF T!NewArray, T!TriangularAssumption
<1>5. 0 <= T!Sum(N)
  BY <1>1, SumIs
<1>6. T!TypeOK'
  BY <1>1, <1>2, <1>3, <1>4 DEF T!TypeOK, ArrayInv
<1>7. Unmade' /\ SizeKept' /\ TableWritten' /\ T!TableKept'
  BY <1>1, <1>2, <1>3 DEF Unmade, SizeKept, TableWritten, T!TableKept
<1>8. CellsInBlock'
  BY <1>1, <1>3, <1>5 DEF CellsInBlock
<1> QED
  BY <1>6, <1>7, <1>8 DEF ArrayInv

\* What is not refused is a cell of the table.
LEMMA NotRefused ==
  ASSUME T!TriangularAssumption, ArrayInv, made # 0, NEW N \in Sizes,
         NEW row \in -1 .. N, NEW col \in -1 .. N, ~T!Refused(N, row, col)
  PROVE  /\ N = made /\ made \in Nat
         /\ row \in 0 .. made - 1 /\ col \in row .. made - 1
BY DEF T!Refused, ArrayInv, T!TypeOK, T!TriangularAssumption

\* store writes a cell of the table where no other is.
LEMMA StoreInv ==
  ASSUME T!TriangularAssumption, ArrayInv, NEW N \in Sizes, NEW row \in -1 .. N,
         NEW col \in -1 .. N, NEW val \in Values, T!Store(N, row, col, val)
  PROVE  ArrayInv'
<1>1. made # 0 /\ made' = made /\ size' = size
  BY DEF T!Store
<1>2. CASE T!Refused(N, row, col)
  <2>1. result' = -1 /\ cells' = cells /\ table' = table
    BY <1>2 DEF T!Store
  <2> QED
    BY <1>1, <2>1 DEF ArrayInv, T!TypeOK, Unmade, SizeKept, CellsInBlock, TableWritten,
                      T!TableKept
<1>3. CASE ~T!Refused(N, row, col)
  <2>1. /\ N = made /\ made \in Nat
        /\ row \in 0 .. made - 1 /\ col \in row .. made - 1
    BY <1>1, <1>3, NotRefused
  <2>2. PICK place : place = T!Index(made, row, col)
    OBVIOUS
  <2>3. place \in Nat \ {0} /\ place <= T!Sum(made)
    BY <2>1, <2>2, IndexInBlock
  <2>4. /\ cells' = T!With(cells, place, val)
        /\ table' = T!With(table, <<row, col>>, val)
        /\ result' \in Garbage
    BY <1>3, <2>1, <2>2 DEF T!Store
  <2>5. /\ DOMAIN cells' = DOMAIN cells \cup {place} /\ cells'[place] = val
        /\ \A index \in DOMAIN cells : index # place => cells'[index] = cells[index]
    BY <2>4 DEF T!With
  <2>6. /\ DOMAIN table' = DOMAIN table \cup {<<row, col>>} /\ table'[<<row, col>>] = val
        /\ \A cell \in DOMAIN table : cell # <<row, col>> => table'[cell] = table[cell]
    BY <2>4 DEF T!With
  <2>7. \A cell \in DOMAIN table :
          /\ cell \in (0 .. made - 1) \X (0 .. made - 1)
          /\ cell[2] \in cell[1] .. made - 1
          /\ T!Index(made, cell[1], cell[2]) \in DOMAIN cells
    BY DEF ArrayInv, T!TypeOK, TableWritten
  <2>8. T!TypeOK'
    <3>1. \A index \in DOMAIN cells' : index \in Nat /\ cells'[index] \in Values \cup {made}
      BY <2>3, <2>5 DEF ArrayInv, T!TypeOK
    <3>2. cells'[0] = made
      BY <1>1, <2>3, <2>5 DEF ArrayInv, T!TypeOK, SizeKept
    <3>3. \A cell \in DOMAIN table' : cell \in (0 .. made - 1) \X (0 .. made - 1)
      BY <2>1, <2>6, <2>7
    <3> QED
      BY <1>1, <2>4, <3>1, <3>2, <3>3 DEF ArrayInv, T!TypeOK
  <2>9. Unmade' /\ SizeKept'
    BY <1>1, <2>5 DEF Unmade, SizeKept, ArrayInv
  <2>10. CellsInBlock'
    BY <1>1, <2>3, <2>5 DEF CellsInBlock, ArrayInv
  <2>11. TableWritten'
    BY <1>1, <2>1, <2>2, <2>5, <2>6, <2>7 DEF TableWritten
  <2>12. T!TableKept'
    <3> SUFFICES ASSUME NEW cell \in DOMAIN table'
                 PROVE  cells'[T!Index(made, cell[1], cell[2])] = table'[cell]
      BY <1>1 DEF T!TableKept
    <3>1. CASE cell = <<row, col>>
      BY <2>2, <2>5, <2>6, <3>1
    <3>2. CASE cell # <<row, col>>
      <4>1. cell \in DOMAIN table /\ table'[cell] = table[cell]
        BY <2>6, <3>2
      <4>2. cells[T!Index(made, cell[1], cell[2])] = table[cell]
        BY <4>1 DEF ArrayInv, T!TableKept
      <4>3. cell = <<cell[1], cell[2]>> /\ cell[1] \in 0 .. made - 1
        BY <2>7, <4>1
      <4>4. T!Index(made, cell[1], cell[2]) # place
        BY <2>1, <2>2, <2>7, <3>2, <4>1, <4>3, IndexApart
      <4> QED
        BY <2>5, <2>7, <4>1, <4>2, <4>4
    <3> QED
      BY <3>1, <3>2
  <2> QED
    BY <2>8, <2>9, <2>10, <2>11, <2>12 DEF ArrayInv
<1> QED
  BY <1>2, <1>3

\* fetch writes nothing.
LEMMA FetchInv ==
  ASSUME T!TriangularAssumption, ArrayInv, NEW N \in Sizes, NEW row \in -1 .. N,
         NEW col \in -1 .. N, T!Fetch(N, row, col)
  PROVE  ArrayInv'
<1>1. UNCHANGED <<cells, size, made, table>>
  BY DEF T!Fetch
<1>2. result' \in Values \cup Garbage \cup {-1}
  <2>1. CASE T!Refused(N, row, col)
    BY <2>1 DEF T!Fetch
  <2>2. CASE ~T!Refused(N, row, col)
    <3>1. PICK place : place = T!Index(N, row, col)
      OBVIOUS
    <3>2. place # 0
      BY <2>2, <3>1, NotRefused, IndexInBlock DEF T!Fetch
    <3>3. place \in DOMAIN cells => cells[place] \in Values
      BY <3>2 DEF ArrayInv, CellsInBlock
    <3> QED
      BY <2>2, <3>1, <3>3 DEF T!Fetch
  <2> QED
    BY <2>1, <2>2
<1> QED
  BY <1>1, <1>2 DEF ArrayInv, T!TypeOK, Unmade, SizeKept, CellsInBlock, TableWritten,
                    T!TableKept

\* Every call keeps the invariant.
LEMMA ArrayNext ==
  ASSUME T!TriangularAssumption, ArrayInv, ArraySteps
  PROVE  ArrayInv'
<1>1. CASE UNCHANGED tVars
  BY <1>1 DEF tVars, ArrayInv, T!TypeOK, Unmade, SizeKept, CellsInBlock, TableWritten,
              T!TableKept
<1>2. CASE T!Next
  BY <1>2, NewArrayInv, StoreInv, FetchInv DEF T!Next
<1> QED
  BY <1>1, <1>2 DEF ArraySteps

\* The invariant says what BlockHoldsTable does.
LEMMA ArrayHoldsTable ==
  ASSUME T!TriangularAssumption, ArrayInv
  PROVE  T!BlockHoldsTable
<1> SUFFICES ASSUME size >= T!Sum(made), NEW index \in DOMAIN cells
             PROVE  index <= size
  BY DEF ArrayInv, T!BlockHoldsTable, T!InsideBlock
<1>1. index \in Nat /\ index <= T!Sum(made) /\ made \in Nat /\ size \in Nat
  BY DEF T!TriangularAssumption, ArrayInv, T!TypeOK, CellsInBlock
<1> QED
  BY <1>1, SumIs

Bytes == 0 .. 255

(***************************************************************************)
(* Concatenation.  AreFlat: g is the concatenation of the first of ss, for *)
(* every number of them.                                                   *)
(***************************************************************************)
AreFlat(g, ss, n) ==
  /\ g \in [0 .. n -> Seq(Bytes)]
  /\ g[0] = <<>>
  /\ \A j \in 1 .. n : g[j] = g[j - 1] \o ss[j]

Flats(ss) == CHOOSE g : AreFlat(g, ss, Len(ss))

\* There is a function that concatenates, by induction on how many.
LEMMA FlatsAre ==
  ASSUME NEW ss \in Seq(Seq(Bytes))
  PROVE  AreFlat(Flats(ss), ss, Len(ss))
<1> DEFINE M == {n \in Nat : n <= Len(ss) => \E g : AreFlat(g, ss, n)}
<1>1. 0 \in M
  <2> DEFINE g == [j \in 0 .. 0 |-> <<>>]
  <2>1. 0 \in 0 .. 0 /\ <<>> \in Seq(Bytes)
    OBVIOUS
  <2>2. AreFlat(g, ss, 0)
    BY <2>1 DEF AreFlat
  <2> QED
    BY <2>2
<1>2. ASSUME NEW n \in Nat, n \in M
      PROVE  n + 1 \in M
  <2> SUFFICES ASSUME n + 1 <= Len(ss) PROVE \E g : AreFlat(g, ss, n + 1)
    OBVIOUS
  <2>1. PICK g : AreFlat(g, ss, n)
    BY <1>2
  <2>a. /\ g \in [0 .. n -> Seq(Bytes)]
        /\ g[0] = <<>>
        /\ \A j \in 1 .. n : g[j] = g[j - 1] \o ss[j]
    BY <2>1 DEF AreFlat
  <2> DEFINE h == [j \in 0 .. n + 1 |-> IF j <= n THEN g[j] ELSE g[n] \o ss[n + 1]]
  <2>2. ss[n + 1] \in Seq(Bytes) /\ n \in 0 .. n /\ 0 \in 0 .. n
    OBVIOUS
  <2>3. g[n] \o ss[n + 1] \in Seq(Bytes)
    BY <2>a, <2>2
  <2>4. \A j \in 0 .. n : g[j] \in Seq(Bytes)
    BY <2>a
  <2>5. h \in [0 .. n + 1 -> Seq(Bytes)]
    BY <2>3, <2>4
  <2>6. h[0] = <<>>
    BY <2>a
  <2>7. ASSUME NEW j \in 1 .. n + 1 PROVE h[j] = h[j - 1] \o ss[j]
    <3>1. CASE j <= n
      <4>1. j \in 1 .. n /\ j \in 0 .. n + 1 /\ j - 1 \in 0 .. n + 1 /\ j - 1 <= n
        BY <3>1
      <4>2. h[j] = g[j] /\ h[j - 1] = g[j - 1]
        BY <3>1, <4>1
      <4> QED
        BY <2>a, <4>1, <4>2
    <3>2. CASE j = n + 1
      <4>1. n + 1 \in 0 .. n + 1 /\ n \in 0 .. n + 1 /\ ~(n + 1 <= n) /\ j - 1 = n /\ n <= n
        BY <3>2
      <4>2. h[n + 1] = g[n] \o ss[n + 1] /\ h[n] = g[n]
        BY <4>1
      <4> HIDE DEF h
      <4> QED
        BY <3>2, <4>1, <4>2
    <3>3. j <= n \/ j = n + 1
      OBVIOUS
    <3> HIDE DEF h
    <3> QED
      BY <3>1, <3>2, <3>3
  <2> HIDE DEF h
  <2>8. AreFlat(h, ss, n + 1)
    BY <2>5, <2>6, <2>7 DEF AreFlat
  <2> QED
    BY <2>8
<1> HIDE DEF M
<1>3. Len(ss) \in M
  BY <1>1, <1>2, Inductive
<1>4. \E g : AreFlat(g, ss, Len(ss))
  BY <1>3 DEF M
<1> QED
  BY <1>4 DEF Flats

\* FlattenSeq gives the last of them.
LEMMA FlattenIs ==
  ASSUME NEW ss \in Seq(Seq(Bytes))
  PROVE  J!FlattenSeq(ss) = Flats(ss)[Len(ss)]
<1> DEFINE g == Flats(ss)
<1>1. /\ g \in [0 .. Len(ss) -> Seq(Bytes)]
      /\ g[0] = <<>>
      /\ \A j \in 1 .. Len(ss) : g[j] = g[j - 1] \o ss[j]
  BY FlatsAre DEF AreFlat
<1> HIDE DEF g
<1>2. CASE Len(ss) = 0
  <2>1. ss = <<>>
    BY <1>2
  <2> QED
    BY <1>1, <1>2, <2>1 DEF J!FlattenSeq, g
<1>3. CASE Len(ss) # 0
  <2> DEFINE Eqn(f) == f = [i \in 1 .. Len(ss) |-> IF i = 1 THEN ss[i] ELSE f[i - 1] \o ss[i]]
  <2> DEFINE f == CHOOSE f : Eqn(f)
  <2>1. J!FlattenSeq(ss) = f[Len(ss)]
    BY <1>3 DEF J!FlattenSeq
  <2>2. \E h : Eqn(h)
    <3> DEFINE h == [i \in 1 .. Len(ss) |-> g[i]]
    <3>1. ASSUME NEW i \in 1 .. Len(ss)
          PROVE  g[i] = IF i = 1 THEN ss[i] ELSE h[i - 1] \o ss[i]
      <4>1. g[i] = g[i - 1] \o ss[i]
        BY <1>1
      <4>2. CASE i = 1
        <5>1. ss[i] \in Seq(Bytes) /\ g[i - 1] = <<>>
          BY <1>1, <4>2
        <5>2. <<>> \o ss[i] = ss[i]
          BY <5>1
        <5> QED
          BY <4>1, <4>2, <5>1, <5>2
      <4>3. CASE i # 1
        <5>1. i - 1 \in 1 .. Len(ss)
          BY <4>3
        <5> QED
          BY <4>1, <4>3, <5>1
      <4> QED
        BY <4>2, <4>3
    <3>2. Eqn(h)
      BY <3>1
    <3> QED
      BY <3>2
  <2>3. Eqn(f)
    BY <2>2
  <2>4. f = [i \in 1 .. Len(ss) |-> IF i = 1 THEN ss[i] ELSE f[i - 1] \o ss[i]]
    BY <2>3
  <2> HIDE DEF f
  <2> DEFINE M == {n \in Nat : n + 1 <= Len(ss) => f[n + 1] = g[n + 1]}
  <2>5. 0 \in M
    <3>1. 1 \in 1 .. Len(ss) /\ 1 - 1 = 0 /\ ss[1] \in Seq(Bytes)
      BY <1>3
    <3>2. f[1] = ss[1]
      BY <2>4, <3>1
    <3>3. g[1] = <<>> \o ss[1]
      BY <1>1, <3>1
    <3>4. <<>> \o ss[1] = ss[1]
      BY <3>1
    <3> QED
      BY <3>2, <3>3, <3>4
  <2>6. ASSUME NEW n \in Nat, n \in M
        PROVE  n + 1 \in M
    <3> SUFFICES ASSUME n + 1 + 1 <= Len(ss) PROVE f[n + 1 + 1] = g[n + 1 + 1]
      OBVIOUS
    <3>1. PICK i \in 1 .. Len(ss) : i = n + 1 + 1
      OBVIOUS
    <3>2. i # 1 /\ i - 1 = n + 1
      BY <3>1
    <3>3. f[i - 1] = g[i - 1]
      <4>1. f[n + 1] = g[n + 1]
        BY <2>6
      <4> QED
        BY <3>2, <4>1
    <3> HIDE DEF M
    <3>4. f[i] = f[i - 1] \o ss[i]
      BY <2>4, <3>2
    <3>5. g[i] = g[i - 1] \o ss[i]
      BY <1>1
    <3> QED
      BY <3>1, <3>3, <3>4, <3>5
  <2> HIDE DEF M
  <2>7. Len(ss) - 1 \in M
    <3>1. Len(ss) - 1 \in Nat
      BY <1>3
    <3> QED
      BY <2>5, <2>6, <3>1, Inductive
  <2>8. Len(ss) - 1 + 1 = Len(ss)
    OBVIOUS
  <2>9. f[Len(ss)] = g[Len(ss)]
    BY <2>7, <2>8 DEF M
  <2> QED
    BY <2>1, <2>9 DEF g
<1> QED
  BY <1>2, <1>3

(***************************************************************************)
(* The files.                                                              *)
(***************************************************************************)
\* What each file listed gives, and how many of them are done.
Piece(i) == IF listed[i] = fileName THEN <<>> ELSE files[listed[i]]
Pieces == [i \in DOMAIN listed |-> Piece(i)]
Finished == Len(listed) - Len(javaFiles)

\* The file written is being read itself, and the end moves on.
Stuck ==
  javaFiles # <<>> /\ Head(javaFiles) = fileName /\ position < Len(files[fileName])

\* It holds what has been read so far, and none of that was its own.
SoFar ==
  /\ javaFiles # <<>> /\ Head(javaFiles) = fileName => position = 0
  /\ files[fileName] =
       Flats(Pieces)[Finished] \o
         (IF javaFiles = <<>> \/ Head(javaFiles) = fileName THEN <<>>
          ELSE SubSeq(files[Head(javaFiles)], 1, position))

FileTypes ==
  /\ fileName \in Outputs /\ DOMAIN files \in {Sources, Sources \cup {fileName}}
  /\ files \in [DOMAIN files -> Seq(Bytes)]
  /\ \A name \in Sources : files[name] \in Contents
  /\ \A name \in folders : name \in Sources /\ files[name] = <<>>
  /\ listed \in Seq(DOMAIN files) /\ javaFiles \in Seq(DOMAIN files)
  /\ Len(javaFiles) <= Len(listed)
  /\ \A i \in 1 .. Len(javaFiles) : javaFiles[i] = listed[Finished + i]
  /\ javaFiles # <<>> => position \in 0 .. Len(files[Head(javaFiles)])
  /\ call \in {"none", "listed", "copying", "done", "thrown"}

FileInv ==
  /\ FileTypes
  /\ call = "none" => listed = <<>> /\ position = 0
  /\ call = "listed" => javaFiles = listed /\ position = 0
  /\ call \in {"copying", "done"} =>
       DOMAIN files = Sources \cup {fileName} /\ (Stuck \/ SoFar)
  /\ call = "done" => javaFiles = <<>>

FileSteps == [J!Next]_jVars

\* Sources are not outputs.
LEMMA FileOutside ==
  ASSUME J!JavaFileUtilAssumption, FileTypes
  PROVE  fileName \notin Sources
BY DEF J!JavaFileUtilAssumption, FileTypes

\* What a file listed gives is a sequence of bytes.
LEMMA PiecesAre ==
  ASSUME FileTypes
  PROVE  /\ Pieces \in Seq(Seq(Bytes)) /\ Len(Pieces) = Len(listed)
         /\ \A i \in 1 .. Len(listed) : Pieces[i] = Piece(i)
         /\ AreFlat(Flats(Pieces), Pieces, Len(listed))
<1>1. DOMAIN listed = 1 .. Len(listed) /\ Len(listed) \in Nat
  BY DEF FileTypes
<1>2. \A i \in 1 .. Len(listed) : listed[i] \in DOMAIN files
  BY DEF FileTypes
<1>3. \A i \in 1 .. Len(listed) : Piece(i) \in Seq(Bytes)
  <2>1. <<>> \in Seq(Bytes)
    OBVIOUS
  <2> QED
    BY <1>2, <2>1 DEF Piece, FileTypes
<1>4. Pieces \in [1 .. Len(listed) -> Seq(Bytes)]
  BY <1>1, <1>3 DEF Pieces
<1>5. Pieces \in Seq(Seq(Bytes)) /\ Len(Pieces) = Len(listed)
  BY <1>1, <1>4
<1>6. \A i \in 1 .. Len(listed) : Pieces[i] = Piece(i)
  BY <1>1 DEF Pieces
<1> QED
  BY <1>5, <1>6, FlatsAre

\* The invariant has the types, and what is so far there is all when the call is done.
LEMMA FilesTyped ==
  ASSUME FileInv
  PROVE  J!TypeOK /\ J!Concatenated
<1>1. J!TypeOK
  <2>1. \A i \in DOMAIN listed : listed[i] \in DOMAIN files
    BY DEF FileInv, FileTypes
  <2> QED
    BY <2>1 DEF FileInv, FileTypes, J!TypeOK
<1>2. ASSUME call = "done" PROVE files[fileName] = J!FlattenSeq(Pieces)
  <2>1. FileTypes /\ javaFiles = <<>> /\ SoFar
    BY <1>2 DEF FileInv, Stuck
  <2>2. Finished = Len(listed)
    BY <2>1 DEF Finished, FileTypes
  <2>3. files[fileName] = Flats(Pieces)[Len(listed)] \o <<>>
    BY <2>1, <2>2 DEF SoFar
  <2>4. Flats(Pieces)[Len(listed)] \in Seq(Bytes)
    <3>1. Len(listed) \in 0 .. Len(listed)
      BY <2>1 DEF FileTypes
    <3> QED
      BY <2>1, <3>1, PiecesAre DEF AreFlat
  <2>5. J!FlattenSeq(Pieces) = Flats(Pieces)[Len(listed)]
    BY <2>1, PiecesAre, FlattenIs
  <2> QED
    BY <2>3, <2>4, <2>5
<1> QED
  BY <1>1, <1>2 DEF J!Concatenated, Pieces, Piece

\* At first nothing is listed.
LEMMA FileInit ==
  ASSUME J!Init, J!JavaFileUtilAssumption
  PROVE  FileInv
<1> USE DEF J!Init
<1>1. fileName \in Outputs /\ DOMAIN files \in {Sources, Sources \cup {fileName}}
      /\ files \in [DOMAIN files -> Contents]
  OBVIOUS
<1>2. Sources \subseteq DOMAIN files
  BY <1>1
<1>3. files \in [DOMAIN files -> Seq(Bytes)]
  BY <1>1 DEF J!JavaFileUtilAssumption, Bytes
<1>4. \A name \in Sources : files[name] \in Contents
  BY <1>1, <1>2
<1>5. <<>> \in Seq(DOMAIN files) /\ Len(<<>>) = 0
  OBVIOUS
<1>6. FileTypes
  BY <1>1, <1>3, <1>4, <1>5 DEF FileTypes
<1> QED
  BY <1>6 DEF FileInv

\* A call that throws changes no file.
LEMMA ThrowKeeps ==
  ASSUME FileInv, J!RefuseArgument \/ J!MeetFolder
  PROVE  FileInv'
<1>1. call' = "thrown" /\ UNCHANGED <<fileName, folders, files, javaFiles, listed, position>>
  BY DEF J!RefuseArgument, J!MeetFolder
<1> QED
  BY <1>1 DEF FileInv, FileTypes, Finished

\* list() gives every file a place, and changes none.
LEMMA ListKeeps ==
  ASSUME J!JavaFileUtilAssumption, FileInv, J!List
  PROVE  FileInv'
<1> DEFINE names == {name \in DOMAIN files : J!IsJava(name)}
<1>1. FileTypes /\ call = "none" /\ call' = "listed" /\ UNCHANGED <<fileName, folders, files, position>>
      /\ listed' = javaFiles' /\ position = 0
  BY DEF FileInv, J!List
<1>2. Cardinality(names) \in Nat
  <2>1. IsFiniteSet(Sources)
    BY DEF J!JavaFileUtilAssumption, J!IsFiniteSet, IsFiniteSet
  <2>2. IsFiniteSet(Sources \cup {fileName})
    BY <2>1, FS_AddElement
  <2>3. names \subseteq Sources \cup {fileName}
    BY <1>1 DEF FileTypes
  <2>4. IsFiniteSet(names)
    BY <2>2, <2>3, FS_Subset
  <2> QED
    BY <2>4, FS_CardinalityType
<1>3. javaFiles' \in [1 .. Cardinality(names) -> names]
  <2>1. J!Cardinality(names) = Cardinality(names)
    BY DEF J!Cardinality, Cardinality
  <2>2. javaFiles' \in J!SetToSeqs(names)
    BY DEF J!List
  <2> HIDE DEF names
  <2> QED
    BY <2>1, <2>2 DEF J!SetToSeqs
<1>4. javaFiles' \in Seq(DOMAIN files)
  <2>1. PICK n \in Nat : n = Cardinality(names)
    BY <1>2
  <2>2. javaFiles' \in [1 .. n -> DOMAIN files]
    BY <1>3, <2>1
  <2> QED
    BY <2>2
<1>5. Len(javaFiles') \in Nat /\ Finished' = 0
  BY <1>1, <1>4 DEF Finished
<1>6. \A i \in 1 .. Len(javaFiles') : javaFiles'[i] = listed'[Finished' + i]
  BY <1>1, <1>5
<1>7. javaFiles' # <<>> => Head(javaFiles') \in DOMAIN files
  BY <1>4
<1>8. javaFiles' # <<>> => position' \in 0 .. Len(files'[Head(javaFiles')])
  <2>1. ASSUME javaFiles' # <<>> PROVE Len(files[Head(javaFiles')]) \in Nat
    BY <1>1, <1>7, <2>1 DEF FileTypes
  <2> QED
    BY <1>1, <2>1
<1>9. FileTypes'
  BY <1>1, <1>4, <1>5, <1>6, <1>8 DEF FileTypes
<1> QED
  BY <1>1, <1>9 DEF FileInv

\* Opening changes the file written alone, and what the files give stays.
LEMMA OpenKeeps ==
  ASSUME J!JavaFileUtilAssumption, FileInv, J!Open
  PROVE  FileInv'
<1>1. FileTypes /\ call = "listed" /\ call' = "copying" /\ javaFiles = listed /\ position = 0
      /\ UNCHANGED <<fileName, folders, javaFiles, listed, position>>
  BY DEF FileInv, J!Open
<1>2. fileName \notin Sources
  BY <1>1, FileOutside
<1>3. DOMAIN files' = DOMAIN files \cup {fileName}
      /\ files'[fileName] = <<>>
      /\ \A name \in DOMAIN files : name # fileName => files'[name] = files[name]
  BY DEF J!Open
<1>4. DOMAIN files' = Sources \cup {fileName} /\ DOMAIN files \subseteq DOMAIN files'
  BY <1>1, <1>3 DEF FileTypes
<1>5. files' \in [DOMAIN files' -> Seq(Bytes)]
  <2>1. <<>> \in Seq(Bytes)
    OBVIOUS
  <2>2. \A name \in DOMAIN files' : files'[name] \in Seq(Bytes)
    BY <1>1, <1>3, <2>1 DEF FileTypes
  <2>3. files' = [name \in DOMAIN files' |-> files'[name]]
    BY <1>3 DEF J!Open
  <2> QED
    BY <2>2, <2>3
<1>6. /\ \A name \in Sources : files'[name] \in Contents
      /\ \A name \in folders : name \in Sources /\ files'[name] = <<>>
  <2>1. Sources \subseteq DOMAIN files
    BY <1>1 DEF FileTypes
  <2> QED
    BY <1>1, <1>2, <1>3, <2>1 DEF FileTypes
<1>7. listed' \in Seq(DOMAIN files') /\ javaFiles' \in Seq(DOMAIN files')
  BY <1>1, <1>4 DEF FileTypes
<1>8. javaFiles' # <<>> => position' \in 0 .. Len(files'[Head(javaFiles')])
  <2>1. ASSUME javaFiles' # <<>> PROVE Len(files'[Head(javaFiles')]) \in Nat
    <3>1. Head(javaFiles') \in DOMAIN files'
      BY <1>7, <2>1
    <3>2. files'[Head(javaFiles')] \in Seq(Bytes)
      BY <1>5, <3>1
    <3> QED
      BY <3>2
  <2> QED
    BY <1>1, <2>1
<1>9. FileTypes'
  BY <1>1, <1>4, <1>5, <1>6, <1>7, <1>8 DEF FileTypes, Finished
<1>10. SoFar'
  <2>1. Finished' = 0
    BY <1>1 DEF Finished, FileTypes
  <2>2. Flats(Pieces)'[0] = <<>>
    <3>1. (AreFlat(Flats(Pieces), Pieces, Len(listed)))'
      BY <1>9, PiecesAre, PTL
    <3> QED
      BY <3>1 DEF AreFlat
  <2>3. javaFiles # <<>> => SubSeq(files'[Head(javaFiles)], 1, 0) = <<>>
    OBVIOUS
  <2> QED
    BY <1>1, <1>3, <2>1, <2>2, <2>3 DEF SoFar
<1> QED
  BY <1>1, <1>4, <1>9, <1>10 DEF FileInv

\* As long as only the file written changes, what the others give stays.
LEMMA PiecesStay ==
  ASSUME FileTypes, UNCHANGED <<fileName, listed>>,
         \A name \in DOMAIN files : name # fileName => files'[name] = files[name]
  PROVE  Pieces' = Pieces
<1>1. \A i \in DOMAIN listed : listed[i] \in DOMAIN files
  BY DEF FileTypes
<1>2. \A i \in DOMAIN listed : Piece(i)' = Piece(i)
  BY <1>1 DEF Piece
<1> QED
  BY <1>2 DEF Pieces

\* A byte more: the file written grows, and the rest of what is said of it depends on
\* whether it is the one that is read.
LEMMA CopyKeeps ==
  ASSUME J!JavaFileUtilAssumption, FileInv, J!CopyByte
  PROVE  FileInv'
<1> DEFINE src == Head(javaFiles)
<1> DEFINE byte == files[src][position + 1]
<1>1. /\ FileTypes /\ call = "copying" /\ javaFiles # <<>>
      /\ position # Len(files[src])
      /\ files' = [files EXCEPT ![fileName] = Append(@, byte)]
      /\ position' = position + 1
      /\ UNCHANGED <<fileName, folders, javaFiles, listed, call>>
  BY DEF FileInv, J!CopyByte, J!AtEnd
<1>2. /\ DOMAIN files = Sources \cup {fileName} /\ fileName \in DOMAIN files
      /\ Stuck \/ SoFar
  BY <1>1 DEF FileInv
<1>3. src \in DOMAIN files
  BY <1>1 DEF FileTypes
<1>4. files[src] \in Seq(Bytes) /\ files[fileName] \in Seq(Bytes)
  BY <1>1, <1>2, <1>3 DEF FileTypes
<1>5. position \in Nat /\ position + 1 \in 1 .. Len(files[src])
  BY <1>1, <1>4 DEF FileTypes
<1>6. byte \in Bytes
  BY <1>4, <1>5
<1> HIDE DEF byte
<1>7. /\ files'[fileName] = Append(files[fileName], byte)
      /\ \A name \in DOMAIN files : name # fileName => files'[name] = files[name]
      /\ DOMAIN files' = DOMAIN files
  BY <1>1, <1>2
<1>8. Append(files[fileName], byte) \in Seq(Bytes)
      /\ Len(Append(files[fileName], byte)) = Len(files[fileName]) + 1
  BY <1>4, <1>6
<1>9. files' \in [DOMAIN files' -> Seq(Bytes)]
  <2>1. \A name \in DOMAIN files : files'[name] \in Seq(Bytes)
    BY <1>1, <1>7, <1>8 DEF FileTypes
  <2>2. files' = [name \in DOMAIN files |-> files'[name]]
    BY <1>1
  <2> QED
    BY <1>7, <2>1, <2>2
<1>10. /\ \A name \in Sources : files'[name] \in Contents
       /\ \A name \in folders : name \in Sources /\ files'[name] = <<>>
  <2>1. fileName \notin Sources /\ Sources \subseteq DOMAIN files
    BY <1>1, <1>2, FileOutside
  <2> QED
    BY <1>1, <1>7, <2>1 DEF FileTypes
<1>11. position' \in 0 .. Len(files'[src])
  <2>1. CASE src = fileName
    BY <1>1, <1>4, <1>5, <1>7, <1>8, <2>1
  <2>2. CASE src # fileName
    <3>1. files'[src] = files[src]
      BY <1>3, <1>7, <2>2
    <3> QED
      BY <1>1, <1>5, <3>1
  <2> QED
    BY <2>1, <2>2
<1>12. FileTypes'
  BY <1>1, <1>7, <1>9, <1>10, <1>11 DEF FileTypes, Finished
<1>13. CASE src = fileName
  <2>1. position + 1 < Len(files[fileName]) + 1
    BY <1>5, <1>1, <1>4, <1>13
  <2>2. Stuck'
    BY <1>1, <1>7, <1>8, <1>13, <2>1 DEF Stuck
  <2> QED
    BY <1>1, <1>2, <1>7, <1>12, <2>2 DEF FileInv
<1>14. CASE src # fileName
  <2> DEFINE flat == Flats(Pieces)[Finished]
  <2> DEFINE taken == SubSeq(files[src], 1, position)
  <2>1. files[fileName] = flat \o taken
    BY <1>1, <1>2, <1>14 DEF Stuck, SoFar
  <2>2. flat \in Seq(Bytes)
    <3>1. Finished \in 0 .. Len(listed)
      BY <1>1 DEF FileTypes, Finished
    <3> QED
      BY <1>1, <3>1, PiecesAre DEF AreFlat
  <2>3. taken \in Seq(Bytes)
    BY <1>4, <1>5
  <2>4. SubSeq(files[src], 1, position + 1) = Append(taken, byte)
    BY <1>4, <1>5 DEF byte
  <2>6. (Flats(Pieces)[Finished])' = flat
    <3>1. Pieces' = Pieces
      BY <1>1, <1>7, PiecesStay
    <3> QED
      BY <1>1, <3>1 DEF Finished
  <2>7. files'[src] = files[src]
    BY <1>3, <1>7, <1>14
  <2> HIDE DEF flat, taken
  <2>8. Append(flat \o taken, byte) = flat \o Append(taken, byte)
    BY <1>6, <2>2, <2>3
  <2>9. SoFar'
    <3>1. files'[fileName] = flat \o SubSeq(files'[src], 1, position + 1)
      BY <1>7, <2>1, <2>4, <2>7, <2>8
    <3> QED
      BY <1>1, <1>14, <2>6, <3>1 DEF SoFar
  <2> QED
    BY <1>1, <1>2, <1>7, <1>12, <2>9 DEF FileInv
<1> QED
  BY <1>13, <1>14

\* At its end, a file has been copied as a whole.
LEMMA NextFileKeeps ==
  ASSUME J!JavaFileUtilAssumption, FileInv, J!NextFile
  PROVE  FileInv'
<1> DEFINE src == Head(javaFiles)
<1>1. /\ FileTypes /\ call = "copying" /\ javaFiles # <<>>
      /\ position = Len(files[src])
      /\ javaFiles' = Tail(javaFiles) /\ position' = 0
      /\ UNCHANGED <<fileName, folders, files, listed, call>>
  BY DEF FileInv, J!NextFile, J!AtEnd
<1>2. SoFar /\ DOMAIN files = Sources \cup {fileName}
  <2>1. Len(files[src]) \in Nat
    BY <1>1 DEF FileTypes
  <2>2. ~Stuck
    BY <1>1, <2>1 DEF Stuck
  <2> QED
    BY <1>1, <2>2 DEF FileInv
<1>3. /\ javaFiles \in Seq(DOMAIN files) /\ listed \in Seq(DOMAIN files)
      /\ Len(javaFiles) <= Len(listed) /\ Len(javaFiles) \in Nat /\ Len(javaFiles) >= 1
      /\ \A i \in 1 .. Len(javaFiles) : javaFiles[i] = listed[Finished + i]
  BY <1>1 DEF FileTypes
<1>4. /\ Tail(javaFiles) \in Seq(DOMAIN files) /\ Len(Tail(javaFiles)) = Len(javaFiles) - 1
      /\ \A i \in 1 .. Len(javaFiles) - 1 : Tail(javaFiles)[i] = javaFiles[i + 1]
  BY <1>3
<1>5. Finished' = Finished + 1 /\ Finished + 1 \in 1 .. Len(listed) /\ Finished \in Nat
  BY <1>1, <1>3, <1>4 DEF Finished
<1>6. \A i \in 1 .. Len(javaFiles') : javaFiles'[i] = listed'[Finished' + i]
  <2>1. ASSUME NEW i \in 1 .. Len(javaFiles) - 1
        PROVE  javaFiles'[i] = listed[Finished + 1 + i]
    <3>1. i + 1 \in 1 .. Len(javaFiles) /\ Finished + (i + 1) = Finished + 1 + i
      BY <1>3, <1>5
    <3> QED
      BY <1>1, <1>3, <1>4, <3>1
  <2> QED
    BY <1>1, <1>4, <1>5, <2>1
<1>7. javaFiles' # <<>> => position' \in 0 .. Len(files'[Head(javaFiles')])
  <2>1. ASSUME javaFiles' # <<>> PROVE Len(files[Head(javaFiles')]) \in Nat
    <3>1. Head(javaFiles') \in DOMAIN files
      BY <1>1, <1>4, <2>1
    <3> QED
      BY <1>1, <3>1 DEF FileTypes
  <2> QED
    BY <1>1, <2>1
<1>8. FileTypes'
  BY <1>1, <1>3, <1>4, <1>6, <1>7 DEF FileTypes
<1>9. Pieces' = Pieces
  BY <1>1, PiecesStay
<1>10. src = listed[Finished + 1]
  BY <1>3
<1>11. Flats(Pieces)[Finished + 1] = Flats(Pieces)[Finished] \o Piece(Finished + 1)
  <2>1. PICK n \in 1 .. Len(listed) : n = Finished + 1 /\ n - 1 = Finished
    BY <1>5
  <2>2. Flats(Pieces)[n] = Flats(Pieces)[n - 1] \o Pieces[n]
    BY <1>1, PiecesAre DEF AreFlat
  <2>3. Pieces[n] = Piece(n)
    BY <1>1, PiecesAre
  <2> QED
    BY <2>1, <2>2, <2>3
<1>12. Flats(Pieces)[Finished + 1] \in Seq(Bytes)
  <2>1. Finished + 1 \in 0 .. Len(listed)
    BY <1>5
  <2> QED
    BY <1>1, <2>1, PiecesAre DEF AreFlat
<1>13. files[fileName] = Flats(Pieces)[Finished + 1]
  <2>1. CASE src = fileName
    BY <1>1, <1>2, <1>10, <1>11, <2>1 DEF SoFar, Piece
  <2>2. CASE src # fileName
    <3>1. files[src] \in Seq(Bytes)
      BY <1>1, <1>3 DEF FileTypes
    <3>2. SubSeq(files[src], 1, position) = files[src]
      BY <1>1, <3>1
    <3> QED
      BY <1>1, <1>2, <1>10, <1>11, <2>2, <3>2 DEF SoFar, Piece
  <2> QED
    BY <2>1, <2>2
<1>14. SoFar'
  <2>1. files'[fileName'] = Flats(Pieces)'[Finished'] \o <<>>
    <3>1. Flats(Pieces)[Finished + 1] \o <<>> = Flats(Pieces)[Finished + 1]
      BY <1>12
    <3> QED
      BY <1>1, <1>5, <1>9, <1>13, <3>1
  <2>2. javaFiles' # <<>> => SubSeq(files'[Head(javaFiles')], 1, position') = <<>>
    BY <1>1
  <2> QED
    BY <1>1, <2>1, <2>2 DEF SoFar
<1> QED
  BY <1>1, <1>2, <1>8, <1>14 DEF FileInv

\* Every step of the call keeps the invariant.
LEMMA FileNext ==
  ASSUME J!JavaFileUtilAssumption, FileInv, FileSteps
  PROVE  FileInv'
<1>1. CASE UNCHANGED jVars
  BY <1>1 DEF jVars, FileInv, FileTypes, Stuck, SoFar, Pieces, Piece, Finished
<1>2. CASE J!Close
  BY <1>2 DEF J!Close, FileInv, FileTypes, Stuck, SoFar, Pieces, Piece, Finished
<1> QED
  BY <1>1, <1>2, ThrowKeeps, ListKeeps, OpenKeeps, CopyKeeps, NextFileKeeps DEF FileSteps, J!Next

(***************************************************************************)
(* Palindromes.  e picks m letters of w from its letters a to b that read  *)
(* the same in both directions.                                            *)
(***************************************************************************)
Picks(e, m, w, a, b) ==
  /\ e \in [1 .. m -> a .. b]
  /\ \A x, y \in 1 .. m : x < y => e[x] < e[y]
  /\ \A x \in 1 .. m : w[e[x]] = w[e[m + 1 - x]]

\* All letters from a to b but at most k of them.
Leaves(w, a, b, k) ==
  \E m \in Nat : m >= b - a + 1 - k /\ \E e : Picks(e, m, w, a, b)

\* An increasing sequence grows by one at least with every step.
LEMMA PicksGrow ==
  ASSUME NEW a \in Nat, NEW b \in Nat, NEW w, NEW m \in Nat, NEW e,
         Picks(e, m, w, a, b), NEW n \in 1 .. m
  PROVE  e[1] + n - 1 <= e[n] /\ 1 \in 1 .. m /\ e[1] \in a .. b /\ e[n] \in a .. b
<1>0. /\ e \in [1 .. m -> a .. b]
      /\ \A x, y \in 1 .. m : x < y => e[x] < e[y]
  BY DEF Picks
<1>a. \A x \in 1 .. m : e[x] \in Nat
  BY <1>0
<1>b. 1 \in 1 .. m
  OBVIOUS
<1> DEFINE M == {k \in Nat : k + 1 <= m => e[1] + k <= e[k + 1]}
<1>1. 0 \in M
  BY <1>a, <1>b
<1>2. ASSUME NEW k \in Nat, k \in M PROVE k + 1 \in M
  <2> SUFFICES ASSUME k + 1 + 1 <= m PROVE e[1] + (k + 1) <= e[k + 1 + 1]
    OBVIOUS
  <2>1. PICK x \in 1 .. m, y \in 1 .. m : x = k + 1 /\ y = k + 1 + 1
    OBVIOUS
  <2>2. e[1] + k <= e[x]
    BY <1>2, <2>1
  <2>3. e[x] < e[y] /\ e[x] \in Nat /\ e[y] \in Nat /\ e[1] \in Nat
    BY <1>0, <1>a, <1>b, <2>1
  <2>4. e[1] + (k + 1) <= e[y]
    BY <2>2, <2>3
  <2> QED
    BY <2>1, <2>4
<1> HIDE DEF M
<1>3. n - 1 \in M
  BY <1>1, <1>2, Inductive
<1>4. e[1] + (n - 1) <= e[(n - 1) + 1]
  BY <1>3 DEF M
<1>5. (n - 1) + 1 = n /\ e[1] \in Nat
  BY <1>a, <1>b
<1> QED
  BY <1>0, <1>b, <1>4, <1>5

\* Nothing left, and a single letter.
LEMMA LeavesShort ==
  ASSUME NEW a \in Nat, NEW b \in Nat, b <= a, NEW k \in Nat, NEW w
  PROVE  Leaves(w, a, b, k)
<1>1. CASE b < a
  <2>1. Picks([x \in 1 .. 0 |-> a], 0, w, a, b)
    BY DEF Picks
  <2>2. 0 >= b - a + 1 - k
    BY <1>1
  <2> QED
    BY <2>1, <2>2 DEF Leaves
<1>2. CASE b = a
  <2> DEFINE e == [x \in 1 .. 1 |-> a]
  <2>1. \A x \in 1 .. 1 : x = 1 /\ 1 + 1 - x = 1
    OBVIOUS
  <2>2. Picks(e, 1, w, a, b)
    <3>1. e \in [1 .. 1 -> a .. b]
      BY <1>2
    <3> QED
      BY <2>1, <3>1 DEF Picks
  <2>3. 1 >= b - a + 1 - k
    BY <1>2
  <2> QED
    BY <2>2, <2>3 DEF Leaves
<1> QED
  BY <1>1, <1>2

\* Equal ends are part of a longest choice.
LEMMA LeavesInner ==
  ASSUME NEW a \in Nat, NEW b \in Nat, a < b, NEW k \in Nat, NEW w, w[a] = w[b]
  PROVE  Leaves(w, a, b, k) <=> Leaves(w, a + 1, b - 1, k)
<1>1. ASSUME Leaves(w, a + 1, b - 1, k) PROVE Leaves(w, a, b, k)
  <2>m. PICK m \in Nat : m >= b - 1 - (a + 1) + 1 - k /\ \E d : Picks(d, m, w, a + 1, b - 1)
    BY <1>1 DEF Leaves
  <2>1. PICK d : m >= b - 1 - (a + 1) + 1 - k /\ Picks(d, m, w, a + 1, b - 1)
    BY <2>m
  <2>d. /\ d \in [1 .. m -> a + 1 .. b - 1]
        /\ \A x, y \in 1 .. m : x < y => d[x] < d[y]
        /\ \A x \in 1 .. m : w[d[x]] = w[d[m + 1 - x]]
    BY <2>1 DEF Picks
  <2> DEFINE e == [x \in 1 .. m + 2 |-> IF x = 1 THEN a ELSE IF x = m + 2 THEN b ELSE d[x - 1]]
  <2>2. e[1] = a /\ e[m + 2] = b
    OBVIOUS
  <2>3. \A x \in 2 .. m + 1 : x - 1 \in 1 .. m /\ e[x] = d[x - 1] /\ d[x - 1] \in a + 1 .. b - 1
    BY <2>d
  <2>4. \A x \in 1 .. m + 2 : x = 1 \/ x = m + 2 \/ x \in 2 .. m + 1
    OBVIOUS
  <2>5. e \in [1 .. m + 2 -> a .. b]
    <3>1. a \in a .. b /\ b \in a .. b /\ a + 1 .. b - 1 \subseteq a .. b
      OBVIOUS
    <3>2. \A x \in 1 .. m + 2 : e[x] \in a .. b
      BY <2>2, <2>3, <2>4, <3>1
    <3> QED
      BY <3>2
  <2> HIDE DEF e
  <2>6. ASSUME NEW x \in 1 .. m + 2, NEW y \in 1 .. m + 2, x < y PROVE e[x] < e[y]
    <3>1. CASE x = 1 /\ y = m + 2
      BY <2>2, <3>1
    <3>2. CASE x = 1 /\ y \in 2 .. m + 1
      BY <2>2, <2>3, <3>2
    <3>3. CASE x \in 2 .. m + 1 /\ y = m + 2
      BY <2>2, <2>3, <3>3
    <3>4. CASE x \in 2 .. m + 1 /\ y \in 2 .. m + 1
      <4>1. x - 1 < y - 1
        BY <2>6
      <4> QED
        BY <2>3, <2>d, <3>4, <4>1
    <3> QED
      BY <2>4, <2>6, <3>1, <3>2, <3>3, <3>4
  <2>7. ASSUME NEW x \in 1 .. m + 2 PROVE w[e[x]] = w[e[m + 2 + 1 - x]]
    <3>1. CASE x = 1
      <4>1. m + 2 + 1 - x = m + 2
        BY <3>1
      <4> QED
        BY <2>2, <3>1, <4>1
    <3>2. CASE x = m + 2
      <4>1. m + 2 + 1 - x = 1
        BY <3>2
      <4> QED
        BY <2>2, <3>2, <4>1
    <3>3. CASE x \in 2 .. m + 1
      <4>1. m + 2 + 1 - x \in 2 .. m + 1 /\ (m + 2 + 1 - x) - 1 = m + 1 - (x - 1)
        BY <3>3
      <4> QED
        BY <2>3, <2>d, <3>3, <4>1
    <3> QED
      BY <2>4, <3>1, <3>2, <3>3
  <2>8. Picks(e, m + 2, w, a, b)
    BY <2>5, <2>6, <2>7 DEF Picks
  <2>9. m + 2 \in Nat /\ m + 2 >= b - a + 1 - k
    BY <2>1
  <2> QED
    BY <2>8, <2>9 DEF Leaves
<1>2. ASSUME Leaves(w, a, b, k) PROVE Leaves(w, a + 1, b - 1, k)
  <2>m. PICK m \in Nat : m >= b - a + 1 - k /\ \E e : Picks(e, m, w, a, b)
    BY <1>2 DEF Leaves
  <2>1. PICK e : m >= b - a + 1 - k /\ Picks(e, m, w, a, b)
    BY <2>m
  <2>e. /\ e \in [1 .. m -> a .. b]
        /\ \A x, y \in 1 .. m : x < y => e[x] < e[y]
        /\ \A x \in 1 .. m : w[e[x]] = w[e[m + 1 - x]]
    BY <2>1 DEF Picks
  <2>2. CASE m <= 1
    <3>1. Picks([x \in 1 .. 0 |-> a], 0, w, a + 1, b - 1)
      BY DEF Picks
    <3>2. 0 >= b - 1 - (a + 1) + 1 - k
      BY <2>1, <2>2
    <3> QED
      BY <3>1, <3>2 DEF Leaves
  <2>3. CASE m > 1
    <3> DEFINE d == [x \in 1 .. m - 2 |-> e[x + 1]]
    <3>1. 1 \in 1 .. m /\ m \in 1 .. m /\ \A x \in 1 .. m - 2 : x + 1 \in 1 .. m /\ 1 < x + 1 /\ x + 1 < m
      BY <2>3
    <3>2. \A x \in 1 .. m - 2 : e[x + 1] \in a + 1 .. b - 1
      <4> SUFFICES ASSUME NEW x \in 1 .. m - 2 PROVE e[x + 1] \in a + 1 .. b - 1
        OBVIOUS
      <4>1. e[1] < e[x + 1] /\ e[x + 1] < e[m]
        BY <2>e, <3>1
      <4>2. e[1] \in a .. b /\ e[m] \in a .. b /\ e[x + 1] \in a .. b
        BY <2>e, <3>1
      <4> QED
        BY <4>1, <4>2
    <3>3. d \in [1 .. m - 2 -> a + 1 .. b - 1]
      BY <3>2
    <3>4. ASSUME NEW x \in 1 .. m - 2, NEW y \in 1 .. m - 2, x < y PROVE d[x] < d[y]
      <4>1. x + 1 < y + 1
        BY <3>4
      <4> QED
        BY <2>e, <3>1, <4>1
    <3>5. ASSUME NEW x \in 1 .. m - 2 PROVE w[d[x]] = w[d[m - 2 + 1 - x]]
      <4>1. m - 2 + 1 - x \in 1 .. m - 2 /\ (m - 2 + 1 - x) + 1 = m + 1 - (x + 1)
        BY <2>3
      <4> QED
        BY <2>e, <3>1, <4>1
    <3> HIDE DEF d
    <3>6. Picks(d, m - 2, w, a + 1, b - 1)
      BY <3>3, <3>4, <3>5 DEF Picks
    <3>7. m - 2 \in Nat /\ m - 2 >= b - 1 - (a + 1) + 1 - k
      BY <2>1, <2>3
    <3> QED
      BY <3>6, <3>7 DEF Leaves
  <2> QED
    BY <2>2, <2>3
<1> QED
  BY <1>1, <1>2

\* Unequal ends, and nothing may be taken out.
LEMMA LeavesNone ==
  ASSUME NEW a \in Nat, NEW b \in Nat, a < b, NEW w, w[a] # w[b]
  PROVE  ~Leaves(w, a, b, 0)
<1> SUFFICES ASSUME Leaves(w, a, b, 0) PROVE FALSE
  OBVIOUS
<1>m. PICK m \in Nat : m >= b - a + 1 - 0 /\ \E e : Picks(e, m, w, a, b)
  BY DEF Leaves
<1>1. PICK e : m >= b - a + 1 - 0 /\ Picks(e, m, w, a, b)
  BY <1>m
<1>2. m \in 1 .. m
  BY <1>1
<1>3. e[1] + m - 1 <= e[m] /\ 1 \in 1 .. m /\ e[1] \in a .. b /\ e[m] \in a .. b
  BY <1>1, <1>2, PicksGrow
<1>4. e[1] = a /\ e[m] = b
  BY <1>1, <1>3
<1>5. w[e[1]] = w[e[m + 1 - 1]] /\ m + 1 - 1 = m
  BY <1>1, <1>3 DEF Picks
<1> QED
  BY <1>4, <1>5

\* Unequal ends, one of which must go.
LEMMA LeavesEnds ==
  ASSUME NEW a \in Nat, NEW b \in Nat, a < b, NEW k \in Nat, k # 0, NEW w, w[a] # w[b]
  PROVE  Leaves(w, a, b, k) <=> Leaves(w, a, b - 1, k - 1) \/ Leaves(w, a + 1, b, k - 1)
<1>1. ASSUME NEW c \in Nat, NEW d \in Nat, a <= c, d <= b, NEW m \in Nat, NEW e,
             Picks(e, m, w, c, d)
      PROVE  Picks(e, m, w, a, b)
  <2>1. c .. d \subseteq a .. b
    BY <1>1
  <2> QED
    BY <1>1, <2>1 DEF Picks
<1>2. ASSUME Leaves(w, a, b - 1, k - 1) PROVE Leaves(w, a, b, k)
  <2>m. PICK m \in Nat : m >= b - 1 - a + 1 - (k - 1) /\ \E e : Picks(e, m, w, a, b - 1)
    BY <1>2 DEF Leaves
  <2>1. PICK e : m >= b - 1 - a + 1 - (k - 1) /\ Picks(e, m, w, a, b - 1)
    BY <2>m
  <2>2. Picks(e, m, w, a, b) /\ m >= b - a + 1 - k
    BY <1>1, <2>1
  <2> QED
    BY <2>2 DEF Leaves
<1>3. ASSUME Leaves(w, a + 1, b, k - 1) PROVE Leaves(w, a, b, k)
  <2>m. PICK m \in Nat : m >= b - (a + 1) + 1 - (k - 1) /\ \E e : Picks(e, m, w, a + 1, b)
    BY <1>3 DEF Leaves
  <2>1. PICK e : m >= b - (a + 1) + 1 - (k - 1) /\ Picks(e, m, w, a + 1, b)
    BY <2>m
  <2>2. Picks(e, m, w, a, b) /\ m >= b - a + 1 - k
    BY <1>1, <2>1
  <2> QED
    BY <2>2 DEF Leaves
<1>4. ASSUME Leaves(w, a, b, k)
      PROVE  Leaves(w, a, b - 1, k - 1) \/ Leaves(w, a + 1, b, k - 1)
  <2>m. PICK m \in Nat : m >= b - a + 1 - k /\ \E e : Picks(e, m, w, a, b)
    BY <1>4 DEF Leaves
  <2>1. PICK e : m >= b - a + 1 - k /\ Picks(e, m, w, a, b)
    BY <2>m
  <2>e. /\ e \in [1 .. m -> a .. b]
        /\ \A x, y \in 1 .. m : x < y => e[x] < e[y]
        /\ \A x \in 1 .. m : w[e[x]] = w[e[m + 1 - x]]
    BY <2>1 DEF Picks
  <2>2. m >= b - 1 - a + 1 - (k - 1) /\ m >= b - (a + 1) + 1 - (k - 1)
    BY <2>1
  <2>3. CASE \A x \in 1 .. m : e[x] # b
    <3>1. \A x \in 1 .. m : e[x] \in a .. b - 1
      BY <2>e, <2>3
    <3>2. e \in [1 .. m -> a .. b - 1]
      BY <2>e, <3>1
    <3>3. Picks(e, m, w, a, b - 1)
      BY <2>e, <3>2 DEF Picks
    <3> QED
      BY <2>2, <3>3 DEF Leaves
  <2>4. CASE \E x \in 1 .. m : e[x] = b
    <3>1. PICK z \in 1 .. m : e[z] = b
      BY <2>4
    <3>2. 1 \in 1 .. m /\ m \in 1 .. m
      OBVIOUS
    <3>3. e[m] = b
      <4>1. e[m] \in a .. b
        BY <2>e, <3>2
      <4>2. z = m \/ e[z] < e[m]
        BY <2>e, <3>2
      <4> QED
        BY <3>1, <4>1, <4>2
    <3>4. w[e[1]] = w[e[m]]
      <4>1. w[e[1]] = w[e[m + 1 - 1]] /\ m + 1 - 1 = m
        BY <2>e, <3>2
      <4> QED
        BY <4>1
    <3>5. e[1] # a
      BY <3>3, <3>4
    <3>6. \A x \in 1 .. m : e[x] \in a + 1 .. b
      <4> SUFFICES ASSUME NEW x \in 1 .. m PROVE e[x] \in a + 1 .. b
        OBVIOUS
      <4>1. e[x] \in a .. b /\ e[1] \in a .. b
        BY <2>e, <3>2
      <4>2. x = 1 \/ e[1] < e[x]
        BY <2>e, <3>2
      <4> QED
        BY <3>5, <4>1, <4>2
    <3>7. e \in [1 .. m -> a + 1 .. b]
      BY <2>e, <3>6
    <3>8. Picks(e, m, w, a + 1, b)
      BY <2>e, <3>7 DEF Picks
    <3> QED
      BY <2>2, <3>8 DEF Leaves
  <2> QED
    BY <2>3, <2>4
<1> QED
  BY <1>2, <1>3, <1>4

(***************************************************************************)
(* The recursion.  Answer: what one call returns if f says what the others *)
(* return.                                                                 *)
(***************************************************************************)
Answer(f, w, c) ==
  IF c[2] < c[1] THEN "thrown"
  ELSE IF c[1] = c[2] THEN "yes"
  ELSE IF w[c[1]] = w[c[2]] THEN f[<<c[1] + 1, c[2] - 1, c[3]>>]
  ELSE IF c[3] = 0 THEN "no"
  ELSE IF f[<<c[1], c[2] - 1, c[3] - 1>>] # "no" THEN f[<<c[1], c[2] - 1, c[3] - 1>>]
       ELSE f[<<c[1] + 1, c[2], c[3] - 1>>]

Answers(f, w, k) == f = [c \in K!Calls(w, k) |-> Answer(f, w, c)]

\* isKPalindrome is the first of these answers.
LEMMA RecursionIs ==
  ASSUME NEW w, NEW k
  PROVE  K!isKPalindrome(w, k) = (CHOOSE f : Answers(f, w, k))[<<1, Len(w), k>>]
BY DEF K!isKPalindrome, Answers, Answer

\* The calls a call makes are among the calls, and shorter.
LEMMA CallsInner ==
  ASSUME NEW w \in Seq(Letters), NEW k \in Nat, NEW c \in K!Calls(w, k), c[1] < c[2]
  PROVE  /\ <<c[1] + 1, c[2] - 1, c[3]>> \in K!Calls(w, k)
         /\ c[3] # 0 => /\ <<c[1], c[2] - 1, c[3] - 1>> \in K!Calls(w, k)
                        /\ <<c[1] + 1, c[2], c[3] - 1>> \in K!Calls(w, k)
<1>1. /\ c[1] \in 1 .. Len(w) + 1 /\ c[2] \in 0 .. Len(w) /\ c[3] \in 0 .. k
      /\ Len(w) \in Nat
  BY DEF K!Calls
<1>2. c[1] + 1 \in 1 .. Len(w) + 1 /\ c[2] - 1 \in 0 .. Len(w)
  BY <1>1
<1>3. c[3] # 0 => c[3] - 1 \in 0 .. k
  BY <1>1
<1> QED
  BY <1>1, <1>2, <1>3 DEF K!Calls

\* Shorter calls that return the same give the same.
LEMMA AnswerDepends ==
  ASSUME NEW w \in Seq(Letters), NEW k \in Nat, NEW c \in K!Calls(w, k), NEW f, NEW g,
         \A d \in K!Calls(w, k) : d[2] - d[1] < c[2] - c[1] => f[d] = g[d]
  PROVE  Answer(f, w, c) = Answer(g, w, c)
<1>1. c[1] \in Nat /\ c[2] \in Nat /\ c[3] \in Nat
  BY DEF K!Calls
<1>2. CASE c[2] < c[1] \/ c[1] = c[2]
  BY <1>2 DEF Answer
<1>3. CASE c[1] < c[2]
  <2> DEFINE both == <<c[1] + 1, c[2] - 1, c[3]>>
  <2> DEFINE right == <<c[1], c[2] - 1, c[3] - 1>>
  <2> DEFINE left == <<c[1] + 1, c[2], c[3] - 1>>
  <2>1. both[2] - both[1] < c[2] - c[1] /\ right[2] - right[1] < c[2] - c[1]
        /\ left[2] - left[1] < c[2] - c[1]
    BY <1>1
  <2>2. both \in K!Calls(w, k) /\ (c[3] # 0 => right \in K!Calls(w, k) /\ left \in K!Calls(w, k))
    BY <1>3, CallsInner
  <2> HIDE DEF both, right, left
  <2>3. f[both] = g[both] /\ (c[3] # 0 => f[right] = g[right] /\ f[left] = g[left])
    BY <2>1, <2>2
  <2> QED
    BY <2>3 DEF Answer, both, right, left
<1> QED
  BY <1>1, <1>2, <1>3

\* The recursion has a solution: every call makes shorter ones only.
LEMMA AnswersExist ==
  ASSUME NEW w \in Seq(Letters), NEW k \in Nat
  PROVE  \E f : Answers(f, w, k)
<1> DEFINE UpTo(f, n) ==
      \A c \in K!Calls(w, k) : c[2] - c[1] < n => f[c] = Answer(f, w, c)
<1> DEFINE M == {n \in Nat : \E f : UpTo(f, n)}
<1>t. \A c \in K!Calls(w, k) : c[1] \in Nat /\ c[2] \in Nat /\ c[2] - c[1] < Len(w) + 1
  BY DEF K!Calls
<1>1. 0 \in M
  <2> DEFINE f == [c \in K!Calls(w, k) |-> "thrown"]
  <2>1. ASSUME NEW c \in K!Calls(w, k), c[2] - c[1] < 0 PROVE f[c] = Answer(f, w, c)
    <3>1. c[2] < c[1]
      BY <1>t, <2>1
    <3> QED
      BY <3>1 DEF Answer
  <2> HIDE DEF f
  <2>2. UpTo(f, 0)
    BY <2>1
  <2> QED
    BY <2>2
<1>2. ASSUME NEW n \in Nat, n \in M PROVE n + 1 \in M
  <2>1. PICK f : UpTo(f, n)
    BY <1>2
  <2> DEFINE g == [c \in K!Calls(w, k) |-> Answer(f, w, c)]
  <2>2. \A c \in K!Calls(w, k) : c[2] - c[1] < n => g[c] = f[c]
    BY <2>1
  <2>3. \A c \in K!Calls(w, k) : g[c] = Answer(f, w, c)
    OBVIOUS
  <2> HIDE DEF g
  <2>4. ASSUME NEW c \in K!Calls(w, k), c[2] - c[1] < n + 1 PROVE g[c] = Answer(g, w, c)
    <3>1. \A d \in K!Calls(w, k) : d[2] - d[1] < c[2] - c[1] => d[2] - d[1] < n
      BY <1>t, <2>4
    <3>2. \A d \in K!Calls(w, k) : d[2] - d[1] < c[2] - c[1] => f[d] = g[d]
      BY <2>2, <3>1
    <3>3. Answer(f, w, c) = Answer(g, w, c)
      BY <3>2, AnswerDepends
    <3> QED
      BY <2>3, <3>3
  <2>5. UpTo(g, n + 1)
    BY <2>4
  <2> QED
    BY <2>5
<1> HIDE DEF M
<1>3. Len(w) + 1 \in M
  BY <1>1, <1>2, Inductive
<1>4. PICK f : UpTo(f, Len(w) + 1)
  BY <1>3 DEF M
<1> DEFINE g == [c \in K!Calls(w, k) |-> Answer(f, w, c)]
<1>5. \A c \in K!Calls(w, k) : f[c] = g[c]
  BY <1>4, <1>t
<1>6. \A c \in K!Calls(w, k) : Answer(f, w, c) = Answer(g, w, c)
  <2> HIDE DEF g
  <2> QED
    BY <1>5, AnswerDepends
<1>7. g = [c \in K!Calls(w, k) |-> Answer(g, w, c)]
  BY <1>6
<1> HIDE DEF g
<1>8. Answers(g, w, k)
  BY <1>7 DEF Answers
<1> QED
  BY <1>8

\* The answer is no exactly if no choice of letters reads the same in both directions.
LEMMA AnswerRight ==
  ASSUME NEW w \in Seq(Letters), NEW k \in Nat
  PROVE  K!isKPalindrome(w, k) = "no" <=> ~Leaves(w, 1, Len(w), k)
<1>1. PICK f : Answers(f, w, k) /\ K!isKPalindrome(w, k) = f[<<1, Len(w), k>>]
  BY AnswersExist, RecursionIs
<1>f. \A c \in K!Calls(w, k) : f[c] = Answer(f, w, c)
  BY <1>1 DEF Answers
<1>t. \A c \in K!Calls(w, k) : c[1] \in Nat /\ c[2] \in Nat /\ c[3] \in Nat /\ c = <<c[1], c[2], c[3]>>
  BY DEF K!Calls
<1> DEFINE Right(c) == f[c] = "no" <=> ~Leaves(w, c[1], c[2], c[3])
<1> DEFINE M == {n \in Nat : \A c \in K!Calls(w, k) : c[2] - c[1] < n => Right(c)}
<1>2. 0 \in M
  <2>1. ASSUME NEW c \in K!Calls(w, k), c[2] - c[1] < 0 PROVE Right(c)
    <3>1. c[2] < c[1] /\ c[2] <= c[1]
      BY <1>t, <2>1
    <3>2. f[c] = "thrown"
      BY <1>f, <3>1 DEF Answer
    <3>3. Leaves(w, c[1], c[2], c[3])
      BY <1>t, <3>1, LeavesShort
    <3> QED
      BY <3>2, <3>3
  <2> QED
    BY <2>1
<1>3. ASSUME NEW n \in Nat, n \in M PROVE n + 1 \in M
  <2> SUFFICES ASSUME NEW c \in K!Calls(w, k), c[2] - c[1] < n + 1 PROVE Right(c)
    OBVIOUS
  <2> DEFINE a == c[1]
  <2> DEFINE b == c[2]
  <2> DEFINE r == c[3]
  <2>t. a \in Nat /\ b \in Nat /\ r \in Nat /\ b - a < n + 1
    BY <1>t
  <2>f. f[c] = Answer(f, w, c)
    BY <1>f
  <2>m. \A d \in K!Calls(w, k) : d[2] - d[1] < n => Right(d)
    BY <1>3
  <2>1. CASE b < a
    BY <2>t, <2>f, <2>1, LeavesShort DEF Answer
  <2>2. CASE a = b
    BY <2>t, <2>f, <2>2, LeavesShort DEF Answer
  <2>3. CASE a < b /\ w[a] = w[b]
    <3>1. f[c] = f[<<a + 1, b - 1, r>>]
      BY <2>t, <2>f, <2>3 DEF Answer
    <3>2. <<a + 1, b - 1, r>> \in K!Calls(w, k)
      BY <2>3, CallsInner
    <3>3. Right(<<a + 1, b - 1, r>>)
      <4>1. b - 1 - (a + 1) < n
        BY <2>t
      <4> QED
        BY <2>m, <3>2, <4>1
    <3>4. Leaves(w, a, b, r) <=> Leaves(w, a + 1, b - 1, r)
      BY <2>t, <2>3, LeavesInner
    <3> QED
      BY <3>1, <3>3, <3>4
  <2>4. CASE a < b /\ w[a] # w[b] /\ r = 0
    <3>1. f[c] = "no"
      BY <2>t, <2>f, <2>4 DEF Answer
    <3>2. ~Leaves(w, a, b, r)
      BY <2>t, <2>4, LeavesNone
    <3> QED
      BY <3>1, <3>2
  <2>5. CASE a < b /\ w[a] # w[b] /\ r # 0
    <3> DEFINE right == <<a, b - 1, r - 1>>
    <3> DEFINE left == <<a + 1, b, r - 1>>
    <3>1. f[c] = IF f[right] # "no" THEN f[right] ELSE f[left]
      BY <2>t, <2>f, <2>5 DEF Answer
    <3>2. right \in K!Calls(w, k) /\ left \in K!Calls(w, k)
      BY <2>5, CallsInner
    <3>3. f[right] = "no" <=> ~Leaves(w, a, b - 1, r - 1)
      <4>1. b - 1 - a < n
        BY <2>t
      <4> QED
        BY <2>m, <3>2, <4>1
    <3>4. f[left] = "no" <=> ~Leaves(w, a + 1, b, r - 1)
      <4>1. b - (a + 1) < n
        BY <2>t
      <4> QED
        BY <2>m, <3>2, <4>1
    <3>5. Leaves(w, a, b, r) <=> Leaves(w, a, b - 1, r - 1) \/ Leaves(w, a + 1, b, r - 1)
      BY <2>t, <2>5, LeavesEnds
    <3> QED
      BY <3>1, <3>3, <3>4, <3>5
  <2> QED
    BY <2>t, <2>1, <2>2, <2>3, <2>4, <2>5
<1> HIDE DEF M
<1>4. Len(w) + 1 \in M
  BY <1>2, <1>3, Inductive
<1>5. <<1, Len(w), k>> \in K!Calls(w, k)
  BY DEF K!Calls
<1>6. Right(<<1, Len(w), k>>)
  BY <1>4, <1>5 DEF M
<1> QED
  BY <1>1, <1>6

(***************************************************************************)
(* The letters left.                                                       *)
(***************************************************************************)
LEMMA SameCardinality ==
  ASSUME NEW S
  PROVE  K!Cardinality(S) = Cardinality(S)
BY DEF K!Cardinality, Cardinality

UpToPlace(kept, p) == {q \in kept : q <= p}

\* The n-th of the places kept.
LEMMA NthExists ==
  ASSUME NEW top \in Nat, NEW kept \in SUBSET (1 .. top), NEW n \in 1 .. Cardinality(kept)
  PROVE  \E p \in kept : Cardinality(UpToPlace(kept, p)) = n
<1>k. \A x \in kept : x \in Nat /\ 1 <= x /\ x <= top
  OBVIOUS
<1>0. IsFiniteSet(kept)
  <2>1. IsFiniteSet(1 .. top)
    BY FS_Interval
  <2> QED
    BY <2>1, FS_Subset
<1>1. ASSUME NEW p \in Nat PROVE IsFiniteSet(UpToPlace(kept, p)) /\ Cardinality(UpToPlace(kept, p)) \in Nat
  <2>1. UpToPlace(kept, p) \in SUBSET kept
    BY DEF UpToPlace
  <2> QED
    BY <1>0, <2>1, FS_Subset, FS_CardinalityType
<1> DEFINE Enough == {p \in Nat : n <= Cardinality(UpToPlace(kept, p))}
<1>2. UpToPlace(kept, top) = kept
  BY <1>k DEF UpToPlace
<1>3. top \in Enough
  BY <1>2
<1>4. PICK p \in Enough : \A q \in Enough : p <= q
  <2>1. Enough \subseteq Nat /\ Enough # {}
    BY <1>3
  <2> HIDE DEF Enough
  <2> QED
    BY <2>1, LeastNat
<1>5. p \in Nat /\ n <= Cardinality(UpToPlace(kept, p)) /\ n \in Nat /\ n >= 1
  <2>1. Cardinality(kept) \in Nat
    BY <1>0, FS_CardinalityType
  <2> QED
    BY <2>1
<1>6. p # 0
  <2>1. UpToPlace(kept, 0) = {}
    <3>1. \A x \in kept : ~(x <= 0)
      BY <1>k
    <3> QED
      BY <3>1 DEF UpToPlace
  <2>2. Cardinality(UpToPlace(kept, 0)) = 0
    BY <2>1, FS_EmptySet
  <2> QED
    BY <1>5, <2>2
<1>7. PICK q \in Nat : p = q + 1
  <2>1. p - 1 \in Nat /\ p = p - 1 + 1
    BY <1>5, <1>6
  <2> QED
    BY <2>1
<1>8. ~(n <= Cardinality(UpToPlace(kept, q)))
  <2>1. q \notin Enough
    BY <1>4, <1>7
  <2> QED
    BY <2>1
<1>9. Cardinality(UpToPlace(kept, q)) < n
  BY <1>1, <1>5, <1>8
<1>10. p \in kept
  <2> SUFFICES ASSUME p \notin kept PROVE FALSE
    OBVIOUS
  <2>1. UpToPlace(kept, p) = UpToPlace(kept, q)
    <3>1. \A x \in kept : x <= p <=> x <= q
      BY <1>k, <1>7
    <3> QED
      BY <3>1 DEF UpToPlace
  <2> QED
    BY <1>5, <1>8, <2>1
<1>11. UpToPlace(kept, p) = UpToPlace(kept, q) \cup {p} /\ p \notin UpToPlace(kept, q)
  <2>1. \A x \in kept : x <= p <=> x <= q \/ x = p
    BY <1>k, <1>7
  <2>2. ~(p <= q)
    BY <1>7
  <2> QED
    BY <1>10, <2>1, <2>2 DEF UpToPlace
<1>12. Cardinality(UpToPlace(kept, p)) = Cardinality(UpToPlace(kept, q)) + 1
  <2>1. IsFiniteSet(UpToPlace(kept, q))
    BY <1>1
  <2> QED
    BY <1>11, <2>1, FS_AddElement
<1>13. Cardinality(UpToPlace(kept, p)) = n
  BY <1>1, <1>5, <1>9, <1>12
<1> QED
  BY <1>10, <1>13

Nth(kept, n) == CHOOSE p \in kept : K!Cardinality(UpToPlace(kept, p)) = n

\* There is an n-th.
LEMMA NthIs ==
  ASSUME NEW top \in Nat, NEW kept \in SUBSET (1 .. top), NEW n \in 1 .. Cardinality(kept)
  PROVE  Nth(kept, n) \in kept /\ Cardinality(UpToPlace(kept, Nth(kept, n))) = n
<1>1. \E p \in kept : K!Cardinality(UpToPlace(kept, p)) = n
  BY NthExists, SameCardinality
<1>2. Nth(kept, n) \in kept /\ K!Cardinality(UpToPlace(kept, Nth(kept, n))) = n
  BY <1>1 DEF Nth
<1> QED
  BY <1>2, SameCardinality

\* A later place has more of them before it.
LEMMA NthGrows ==
  ASSUME NEW top \in Nat, NEW kept \in SUBSET (1 .. top),
         NEW m \in 1 .. Cardinality(kept), NEW n \in 1 .. Cardinality(kept), m < n
  PROVE  Nth(kept, m) < Nth(kept, n)
<1> DEFINE p == Nth(kept, m)
<1> DEFINE q == Nth(kept, n)
<1>1. p \in kept /\ q \in kept /\ Cardinality(UpToPlace(kept, p)) = m
      /\ Cardinality(UpToPlace(kept, q)) = n
  BY NthIs
<1>k. \A x \in kept : x \in Nat
  OBVIOUS
<1>2. p \in Nat /\ q \in Nat
  BY <1>1, <1>k
<1> HIDE DEF p, q
<1> SUFFICES ASSUME ~(p < q) PROVE FALSE
  BY DEF p, q
<1>3. UpToPlace(kept, q) \in SUBSET UpToPlace(kept, p)
  <2>1. \A x \in kept : x <= q => x <= p
    BY <1>2, <1>k
  <2> QED
    BY <2>1 DEF UpToPlace
<1>4. IsFiniteSet(UpToPlace(kept, p))
  <2>1. IsFiniteSet(1 .. top)
    BY FS_Interval
  <2>2. UpToPlace(kept, p) \in SUBSET (1 .. top)
    BY DEF UpToPlace
  <2> QED
    BY <2>1, <2>2, FS_Subset
<1>5. n <= m
  BY <1>1, <1>3, <1>4, FS_Subset
<1>6. IsFiniteSet(kept)
  <2>1. IsFiniteSet(1 .. top)
    BY FS_Interval
  <2> QED
    BY <2>1, FS_Subset
<1>7. Cardinality(kept) \in Nat
  BY <1>6, FS_CardinalityType
<1> QED
  BY <1>5, <1>7

\* The first n of an increasing sequence of places are n places.
LEMMA PicksCount ==
  ASSUME NEW top \in Nat, NEW m \in Nat, NEW w, NEW e, Picks(e, m, w, 1, top), NEW n \in 0 .. m
  PROVE  Cardinality({e[x] : x \in 1 .. n}) = n
<1> DEFINE places == {e[x] : x \in 1 .. n}
<1> DEFINE g == [x \in 1 .. n |-> e[x]]
<1>1. \A x, y \in 1 .. m : x < y => e[x] < e[y] /\ e[x] \in Nat /\ e[y] \in Nat
  BY DEF Picks
<1>2. \A x \in 1 .. n : x \in 1 .. m
  OBVIOUS
<1>3. g \in [1 .. n -> places]
  OBVIOUS
<1>4. ASSUME NEW x \in 1 .. n, NEW y \in 1 .. n, g[x] = g[y] PROVE x = y
  <2>1. e[x] = e[y]
    BY <1>4
  <2>2. x < y \/ y < x \/ x = y
    OBVIOUS
  <2> QED
    BY <1>1, <1>2, <2>1, <2>2
<1>5. \A p \in places : \E x \in 1 .. n : g[x] = p
  OBVIOUS
<1> HIDE DEF places, g
<1>6. g \in Bijection(1 .. n, places)
  BY <1>3, <1>4, <1>5 DEF Bijection, Injection, Surjection, IsInjective
<1>7. ExistsBijection(1 .. n, places)
  BY <1>6 DEF ExistsBijection
<1> QED
  BY <1>7, FS_CountingElements DEF places

LeftOf(w, kept) == [n \in 1 .. K!Cardinality(kept) |-> w[Nth(kept, n)]]

\* What Left takes out of a word.
LEMMA LeftIs ==
  ASSUME NEW w, NEW out
  PROVE  K!Left(w, out) = LeftOf(w, DOMAIN w \ out)
BY DEF K!Left, LeftOf, Nth, UpToPlace

\* Taking out at most k letters and leaving all but k of them come to the same.
LEMMA KPalindromeIs ==
  ASSUME NEW w \in Seq(Letters), NEW k \in Nat
  PROVE  K!IsKPalindrome(w, k) <=> Leaves(w, 1, Len(w), k)
<1>0. DOMAIN w = 1 .. Len(w) /\ Len(w) \in Nat
  OBVIOUS
<1>a. IsFiniteSet(1 .. Len(w)) /\ Cardinality(1 .. Len(w)) = Len(w)
  BY <1>0, FS_Interval
<1>b. ASSUME NEW out \in SUBSET (1 .. Len(w))
      PROVE  /\ Cardinality(out) \in Nat
             /\ Cardinality((1 .. Len(w)) \ out) = Len(w) - Cardinality(out)
             /\ Cardinality((1 .. Len(w)) \ out) \in Nat
  <2>1. IsFiniteSet(out)
    BY <1>a, FS_Subset
  <2>2. (1 .. Len(w)) \cap out = out
    OBVIOUS
  <2>3. IsFiniteSet((1 .. Len(w)) \ out)
    BY <1>a, FS_Difference
  <2>4. Cardinality((1 .. Len(w)) \ out)
          = Cardinality(1 .. Len(w)) - Cardinality((1 .. Len(w)) \cap out)
    BY <1>a, FS_Difference
  <2> QED
    BY <1>a, <2>1, <2>2, <2>3, <2>4, FS_CardinalityType
<1>1. ASSUME K!IsKPalindrome(w, k) PROVE Leaves(w, 1, Len(w), k)
  <2>1. PICK out \in SUBSET (1 .. Len(w)) :
          Cardinality(out) <= k /\ K!Palindrome(K!Left(w, out))
    BY <1>0, <1>1, SameCardinality DEF K!IsKPalindrome
  <2> DEFINE kept == (1 .. Len(w)) \ out
  <2> DEFINE m == Cardinality(kept)
  <2> DEFINE e == [n \in 1 .. m |-> Nth(kept, n)]
  <2>2. m \in Nat /\ m >= Len(w) - 1 + 1 - k
    BY <1>0, <1>b, <2>1
  <2>3. kept \in SUBSET (1 .. Len(w))
    OBVIOUS
  <2>4. K!Palindrome(LeftOf(w, kept))
    BY <1>0, <2>1, LeftIs
  <2> HIDE DEF kept
  <2>5. e \in [1 .. m -> 1 .. Len(w)]
    BY <1>0, <2>3, NthIs
  <2>6. \A x, y \in 1 .. m : x < y => e[x] < e[y]
    BY <1>0, <2>3, NthGrows
  <2>7. \A x \in 1 .. m : w[e[x]] = w[e[m + 1 - x]]
    <3> SUFFICES ASSUME NEW x \in 1 .. m PROVE w[e[x]] = w[e[m + 1 - x]]
      OBVIOUS
    <3> DEFINE v == LeftOf(w, kept)
    <3>1. DOMAIN v = 1 .. m /\ \A n \in 1 .. m : v[n] = w[e[n]]
      BY SameCardinality DEF LeftOf
    <3>2. v \in Seq({w[e[n]] : n \in 1 .. m}) /\ Len(v) = m
      <4>1. v = [n \in 1 .. m |-> w[e[n]]]
        BY SameCardinality DEF LeftOf
      <4> DEFINE letters == {w[e[n]] : n \in 1 .. m}
      <4> HIDE DEF v, e, m
      <4>2. v \in [1 .. m -> letters]
        BY <4>1
      <4> HIDE DEF letters
      <4>3. v \in Seq(letters) /\ Len(v) = m
        BY <2>2, <4>2
      <4> QED
        BY <4>3 DEF letters
    <3> HIDE DEF v
    <3>3. v[x] = v[Len(v) + 1 - x]
      BY <2>4, <3>1 DEF K!Palindrome, v
    <3>4. m + 1 - x \in 1 .. m
      BY <2>2
    <3> HIDE DEF m, e
    <3> QED
      BY <3>1, <3>2, <3>3, <3>4
  <2> HIDE DEF m, e
  <2>8. Picks(e, m, w, 1, Len(w))
    BY <2>5, <2>6, <2>7 DEF Picks
  <2> QED
    BY <2>2, <2>8 DEF Leaves
<1>2. ASSUME Leaves(w, 1, Len(w), k) PROVE K!IsKPalindrome(w, k)
  <2>m. PICK m \in Nat : m >= Len(w) - 1 + 1 - k /\ \E e : Picks(e, m, w, 1, Len(w))
    BY <1>2 DEF Leaves
  <2>1. PICK e : m >= Len(w) - 1 + 1 - k /\ Picks(e, m, w, 1, Len(w))
    BY <2>m
  <2>e. /\ e \in [1 .. m -> 1 .. Len(w)]
        /\ \A x, y \in 1 .. m : x < y => e[x] < e[y]
        /\ \A x \in 1 .. m : w[e[x]] = w[e[m + 1 - x]]
    BY <2>1 DEF Picks
  <2> DEFINE kept == {e[x] : x \in 1 .. m}
  <2> DEFINE out == (1 .. Len(w)) \ kept
  <2>2. kept \in SUBSET (1 .. Len(w)) /\ (1 .. Len(w)) \ out = kept
    BY <2>e
  <2>3. Cardinality(kept) = m
    <3>1. m \in 0 .. m
      OBVIOUS
    <3> QED
      BY <1>0, <2>1, <3>1, PicksCount
  <2>4. Cardinality(out) <= k
    <3>1. out \in SUBSET (1 .. Len(w))
      OBVIOUS
    <3> HIDE DEF out, kept
    <3>2. Cardinality(kept) = Len(w) - Cardinality(out) /\ Cardinality(out) \in Nat
      BY <1>b, <2>2, <3>1
    <3> QED
      BY <1>0, <2>1, <2>3, <3>2
  <2>5. ASSUME NEW n \in 1 .. m PROVE Nth(kept, n) = e[n]
    <3>1. ASSUME NEW x \in 1 .. m PROVE Cardinality(UpToPlace(kept, e[x])) = x
      <4>1. UpToPlace(kept, e[x]) = {e[y] : y \in 1 .. x}
        <5>1. ASSUME NEW y \in 1 .. m PROVE e[y] <= e[x] <=> y <= x
          <6>1. e[x] \in Nat /\ e[y] \in Nat
            BY <2>e
          <6>2. x < y \/ y < x \/ x = y
            OBVIOUS
          <6>3. x < y => e[x] < e[y]
            BY <2>e
          <6>4. y < x => e[y] < e[x]
            BY <2>e
          <6>5. x = y => e[y] = e[x]
            OBVIOUS
          <6> HIDE DEF kept, out
          <6>6. CASE x < y
            BY <6>1, <6>3, <6>6
          <6>7. CASE y < x
            BY <6>1, <6>4, <6>7
          <6>8. CASE x = y
            BY <6>1, <6>8
          <6> QED
            BY <6>2, <6>6, <6>7, <6>8
        <5>2. \A y \in 1 .. m : y <= x <=> y \in 1 .. x
          OBVIOUS
        <5>3. \A y \in 1 .. x : y \in 1 .. m
          OBVIOUS
        <5> QED
          BY <5>1, <5>2, <5>3 DEF UpToPlace
      <4>2. x \in 0 .. m
        OBVIOUS
      <4> HIDE DEF kept, out
      <4>3. Cardinality({e[y] : y \in 1 .. x}) = x
        BY <1>0, <2>1, <4>2, PicksCount
      <4> QED
        BY <4>1, <4>3
    <3>2. n \in 1 .. Cardinality(kept)
      BY <2>3
    <3>3. Nth(kept, n) \in kept /\ Cardinality(UpToPlace(kept, Nth(kept, n))) = n
      <4> HIDE DEF kept
      <4> QED
        BY <1>0, <2>2, <3>2, NthIs
    <3>4. PICK x \in 1 .. m : Nth(kept, n) = e[x]
      BY <3>3
    <3>5. x = n
      BY <3>1, <3>3, <3>4
    <3> QED
      BY <3>4, <3>5
  <2> DEFINE v == LeftOf(w, kept)
  <2>6. v = [n \in 1 .. m |-> w[e[n]]]
    <3> HIDE DEF kept
    <3> QED
      BY <2>3, <2>5, SameCardinality DEF LeftOf
  <2> HIDE DEF v, kept, out
  <2>7. DOMAIN v = 1 .. m /\ Len(v) = m
    <3> DEFINE letters == {w[e[n]] : n \in 1 .. m}
    <3>1. v \in [1 .. m -> letters]
      BY <2>6
    <3> HIDE DEF letters
    <3> QED
      BY <3>1
  <2>8. K!Palindrome(v)
    <3>1. \A n \in 1 .. m : m + 1 - n \in 1 .. m
      OBVIOUS
    <3>2. \A n \in 1 .. m : v[n] = v[m + 1 - n]
      BY <2>e, <2>6, <3>1
    <3> QED
      BY <2>7, <3>2 DEF K!Palindrome
  <2>9. K!Left(w, out) = v
    BY <1>0, <2>2, LeftIs DEF v
  <2>10. out \in SUBSET (1 .. Len(w))
    BY DEF out
  <2> QED
    BY <1>0, <2>4, <2>8, <2>9, <2>10, SameCardinality DEF K!IsKPalindrome
<1> QED
  BY <1>1, <1>2

(***************************************************************************)
(* The call.                                                               *)
(***************************************************************************)
WordInv ==
  /\ word \in Seq(Letters) /\ limit \in Nat
  /\ answer # "none" => answer = K!isKPalindrome(word, limit)

WordSteps == [K!Next]_kVars

\* At first nothing has been answered.
LEMMA WordInit ==
  ASSUME K!KPalindromeAssumption, K!Init
  PROVE  WordInv
<1>1. PICK n \in 0 .. MaxLength : word \in [1 .. n -> Letters]
  BY DEF K!Init
<1>2. n \in Nat
  BY <1>1 DEF K!KPalindromeAssumption
<1>3. word \in Seq(Letters)
  BY <1>1, <1>2
<1>4. limit \in Nat /\ answer = "none"
  BY DEF K!Init, K!KPalindromeAssumption
<1> QED
  BY <1>3, <1>4 DEF WordInv

\* The answer is that of the recursion.
LEMMA WordNext ==
  ASSUME WordInv, WordSteps
  PROVE  WordInv'
<1>1. CASE UNCHANGED kVars
  BY <1>1 DEF WordInv, kVars
<1>2. CASE K!Next
  BY <1>2 DEF WordInv, K!Next, K!Call
<1> QED
  BY <1>1, <1>2 DEF WordSteps

\* The recursion is right, and so is the answer.
LEMMA WordRight ==
  ASSUME WordInv
  PROVE  K!NoExactly
BY AnswerRight, KPalindromeIs DEF WordInv, K!NoExactly

(***************************************************************************)
(* The whiteboard: folds.  The fold of a sequence is a function on the sets*)
(* of its indices; on those from 1 to k it is the fold of the first k.     *)
(***************************************************************************)
\* The greatest index is taken last.
LEMMA MaxIs ==
  ASSUME NEW n \in Nat, NEW S \in SUBSET (1 .. n), n \in S
  PROVE  W!Max(S) = n
<1>1. \A m \in S : n >= m
  OBVIOUS
<1>2. \A m \in S : (\A k \in S : m >= k) => m = n
  OBVIOUS
<1> QED
  BY <1>1, <1>2 DEF W!Max

AreAdded(f, ps, n) ==
  f = [S \in SUBSET (1 .. n) |->
         IF S = {} THEN <<>> ELSE W!AddPoint(f[S \ {W!Max(S)}], ps[W!Max(S)])]

AreDrawn(f, base, ps, n) ==
  f = [S \in SUBSET (1 .. n) |->
         IF S = {} THEN base ELSE W!LineTo(f[S \ {W!Max(S)}], ps[W!Max(S)])]

\* The points of a message, read one after the other.
LEMMA AddedExist ==
  ASSUME NEW ps, NEW n \in Nat
  PROVE  \E f : AreAdded(f, ps, n)
<1> DEFINE M == {k \in Nat : \E f : AreAdded(f, ps, k)}
<1>1. 0 \in M
  <2>1. SUBSET (1 .. 0) = {{}}
    OBVIOUS
  <2>2. AreAdded([S \in SUBSET (1 .. 0) |-> <<>>], ps, 0)
    BY <2>1 DEF AreAdded
  <2> QED
    BY <2>2
<1>2. ASSUME NEW k \in Nat, k \in M
      PROVE  k + 1 \in M
  <2>1. PICK f : AreAdded(f, ps, k)
    BY <1>2
  <2> DEFINE g == [S \in SUBSET (1 .. k + 1) |->
                     IF k + 1 \in S THEN W!AddPoint(f[S \ {k + 1}], ps[k + 1]) ELSE f[S]]
  <2>2. ASSUME NEW S \in SUBSET (1 .. k + 1)
        PROVE  g[S] = IF S = {} THEN <<>>
                      ELSE W!AddPoint(g[S \ {W!Max(S)}], ps[W!Max(S)])
    <3>1. CASE k + 1 \in S
      <4>1. W!Max(S) = k + 1
        BY <3>1, MaxIs
      <4>2. S \ {k + 1} \in SUBSET (1 .. k + 1) /\ k + 1 \notin S \ {k + 1}
        OBVIOUS
      <4>3. g[S \ {k + 1}] = f[S \ {k + 1}]
        BY <4>2
      <4> QED
        BY <3>1, <4>1, <4>3
    <3>2. CASE k + 1 \notin S
      <4>1. S \in SUBSET (1 .. k)
        BY <3>2
      <4>2. f[S] = IF S = {} THEN <<>>
                   ELSE W!AddPoint(f[S \ {W!Max(S)}], ps[W!Max(S)])
        BY <2>1, <4>1 DEF AreAdded
      <4>3. g[S] = f[S] /\ g[S \ {W!Max(S)}] = f[S \ {W!Max(S)}]
        BY <3>2
      <4> QED
        BY <4>2, <4>3
    <3> QED
      BY <3>1, <3>2
  <2>3. AreAdded(g, ps, k + 1)
    BY <2>2 DEF AreAdded
  <2> QED
    BY <2>3
<1> HIDE DEF M
<1>3. n \in M
  BY <1>1, <1>2, Inductive
<1> QED
  BY <1>3 DEF M

\* The lines of a path, drawn one after the other.
LEMMA DrawnExist ==
  ASSUME NEW base, NEW ps, NEW n \in Nat
  PROVE  \E f : AreDrawn(f, base, ps, n)
<1> DEFINE M == {k \in Nat : \E f : AreDrawn(f, base, ps, k)}
<1>1. 0 \in M
  <2>1. SUBSET (1 .. 0) = {{}}
    OBVIOUS
  <2>2. AreDrawn([S \in SUBSET (1 .. 0) |-> base], base, ps, 0)
    BY <2>1 DEF AreDrawn
  <2> QED
    BY <2>2
<1>2. ASSUME NEW k \in Nat, k \in M
      PROVE  k + 1 \in M
  <2>1. PICK f : AreDrawn(f, base, ps, k)
    BY <1>2
  <2> DEFINE g == [S \in SUBSET (1 .. k + 1) |->
                     IF k + 1 \in S THEN W!LineTo(f[S \ {k + 1}], ps[k + 1]) ELSE f[S]]
  <2>2. ASSUME NEW S \in SUBSET (1 .. k + 1)
        PROVE  g[S] = IF S = {} THEN base
                      ELSE W!LineTo(g[S \ {W!Max(S)}], ps[W!Max(S)])
    <3>1. CASE k + 1 \in S
      <4>1. W!Max(S) = k + 1
        BY <3>1, MaxIs
      <4>2. S \ {k + 1} \in SUBSET (1 .. k + 1) /\ k + 1 \notin S \ {k + 1}
        OBVIOUS
      <4>3. g[S \ {k + 1}] = f[S \ {k + 1}]
        BY <4>2
      <4> QED
        BY <3>1, <4>1, <4>3
    <3>2. CASE k + 1 \notin S
      <4>1. S \in SUBSET (1 .. k)
        BY <3>2
      <4>2. f[S] = IF S = {} THEN base
                   ELSE W!LineTo(f[S \ {W!Max(S)}], ps[W!Max(S)])
        BY <2>1, <4>1 DEF AreDrawn
      <4>3. g[S] = f[S] /\ g[S \ {W!Max(S)}] = f[S \ {W!Max(S)}]
        BY <3>2
      <4> QED
        BY <4>2, <4>3
    <3> QED
      BY <3>1, <3>2
  <2>3. AreDrawn(g, base, ps, k + 1)
    BY <2>2 DEF AreDrawn
  <2> QED
    BY <2>3
<1> HIDE DEF M
<1>3. n \in M
  BY <1>1, <1>2, Inductive
<1> QED
  BY <1>3 DEF M

PointFold(ps)      == W!FoldLeft(W!AddPoint, <<>>, ps)
LineFold(base, ps) == W!FoldLeft(W!LineTo, base, ps)

\* What the two folds are.
LEMMA AddedFold ==
  ASSUME NEW ps \in Seq(Points)
  PROVE  \E f : /\ PointFold(ps) = f[1 .. Len(ps)]
                /\ f[1 .. 0] = <<>>
                /\ \A k \in 1 .. Len(ps) : f[1 .. k] = W!AddPoint(f[1 .. k - 1], ps[k])
<1> DEFINE f == CHOOSE g : AreAdded(g, ps, Len(ps))
<1>1. AreAdded(f, ps, Len(ps))
  BY AddedExist
<1>2. DOMAIN ps = 1 .. Len(ps)
  OBVIOUS
<1>3. PointFold(ps) = f[1 .. Len(ps)]
  BY <1>2 DEF PointFold, W!FoldLeft, W!MapThenFoldSet, AreAdded
<1> HIDE DEF f
<1>4. f[1 .. 0] = <<>>
  BY <1>1 DEF AreAdded
<1>5. ASSUME NEW k \in 1 .. Len(ps)
      PROVE  f[1 .. k] = W!AddPoint(f[1 .. k - 1], ps[k])
  <2>1. Len(ps) \in Nat /\ k \in Nat /\ 1 <= k /\ k <= Len(ps)
    OBVIOUS
  <2>2. k \in 1 .. k
    BY <2>1
  <2>3. 1 .. k \in SUBSET (1 .. Len(ps))
    BY <2>1
  <2>4. (1 .. k) \ {k} = 1 .. k - 1
    BY <2>1
  <2>5. W!Max(1 .. k) = k
    BY <2>1, <2>2, <2>3, MaxIs
  <2>6. 1 .. k # {}
    BY <2>2
  <2> QED
    BY <1>1, <2>6, <2>3, <2>4, <2>5 DEF AreAdded
<1> QED
  BY <1>3, <1>4, <1>5

\* The fold that draws.
LEMMA DrawnFold ==
  ASSUME NEW base, NEW ps \in Seq(Points)
  PROVE  \E f : /\ LineFold(base, ps) = f[1 .. Len(ps)]
                /\ f[1 .. 0] = base
                /\ \A k \in 1 .. Len(ps) : f[1 .. k] = W!LineTo(f[1 .. k - 1], ps[k])
<1> DEFINE f == CHOOSE g : AreDrawn(g, base, ps, Len(ps))
<1>1. AreDrawn(f, base, ps, Len(ps))
  BY DrawnExist
<1>2. DOMAIN ps = 1 .. Len(ps)
  OBVIOUS
<1>3. LineFold(base, ps) = f[1 .. Len(ps)]
  BY <1>2 DEF LineFold, W!FoldLeft, W!MapThenFoldSet, AreDrawn
<1> HIDE DEF f
<1>4. f[1 .. 0] = base
  BY <1>1 DEF AreDrawn
<1>5. ASSUME NEW k \in 1 .. Len(ps)
      PROVE  f[1 .. k] = W!LineTo(f[1 .. k - 1], ps[k])
  <2>1. Len(ps) \in Nat /\ k \in Nat /\ 1 <= k /\ k <= Len(ps)
    OBVIOUS
  <2>2. k \in 1 .. k
    BY <2>1
  <2>3. 1 .. k \in SUBSET (1 .. Len(ps))
    BY <2>1
  <2>4. (1 .. k) \ {k} = 1 .. k - 1
    BY <2>1
  <2>5. W!Max(1 .. k) = k
    BY <2>1, <2>2, <2>3, MaxIs
  <2>6. 1 .. k # {}
    BY <2>2
  <2> QED
    BY <1>1, <2>6, <2>3, <2>4, <2>5 DEF AreDrawn
<1> QED
  BY <1>3, <1>4, <1>5

(***************************************************************************)
(* The whiteboard: lines and messages.                                     *)
(***************************************************************************)
\* The context when the first k points of a sequence have been gone through.
Drawn(ps, k, colour) ==
  [path |-> UNION {W!Line(ps[i], ps[i + 1]) : i \in 1 .. k - 1},
   at |-> IF k = 0 THEN <<>> ELSE <<ps[k]>>,
   start |-> IF k = 0 THEN <<>> ELSE <<ps[1]>>,
   colour |-> colour]

\* The first point of a path draws no line.
LEMMA LineToStarts ==
  ASSUME NEW path, NEW start, NEW colour, NEW q
  PROVE  W!LineTo([path |-> path, at |-> <<>>, start |-> start, colour |-> colour], q)
           = [path |-> path, at |-> <<q>>, start |-> <<q>>, colour |-> colour]
BY DEF W!LineTo

\* A later one draws a line from where the path is.
LEMMA LineToGoesOn ==
  ASSUME NEW path, NEW p, NEW start, NEW colour, NEW q
  PROVE  W!LineTo([path |-> path, at |-> <<p>>, start |-> start, colour |-> colour], q)
           = [path |-> path \cup W!Line(p, q), at |-> <<q>>, start |-> start,
              colour |-> colour]
<1>1. <<p>> # <<>>
  OBVIOUS
<1> QED
  BY <1>1 DEF W!LineTo

\* Going through one point more.
LEMMA LineToDrawn ==
  ASSUME NEW ps, NEW k \in Nat, NEW colour
  PROVE  W!LineTo(Drawn(ps, k, colour), ps[k + 1]) = Drawn(ps, k + 1, colour)
<1> DEFINE Path(n) == UNION {W!Line(ps[i], ps[i + 1]) : i \in 1 .. n - 1}
<1>1. CASE k = 0
  <2>1. Path(0) = {} /\ Path(1) = {}
    OBVIOUS
  <2>2. Drawn(ps, 0, colour) = [path |-> {}, at |-> <<>>, start |-> <<>>, colour |-> colour]
    BY <2>1 DEF Drawn
  <2>3. Drawn(ps, 1, colour)
          = [path |-> {}, at |-> <<ps[1]>>, start |-> <<ps[1]>>, colour |-> colour]
    BY <2>1 DEF Drawn
  <2> QED
    BY <1>1, <2>2, <2>3, LineToStarts
<1>2. CASE k # 0
  <2>1. 1 .. k + 1 - 1 = (1 .. k - 1) \cup {k}
    BY <1>2
  <2>2. Path(k + 1) = Path(k) \cup W!Line(ps[k], ps[k + 1])
    <3> DEFINE At(i) == W!Line(ps[i], ps[i + 1])
    <3>1. (UNION {At(i) : i \in (1 .. k - 1) \cup {k}})
            = (UNION {At(i) : i \in 1 .. k - 1}) \cup At(k)
      <4> HIDE DEF At
      <4> QED
        OBVIOUS
    <3> QED
      BY <2>1, <3>1
  <2>3. Drawn(ps, k, colour)
          = [path |-> Path(k), at |-> <<ps[k]>>, start |-> <<ps[1]>>, colour |-> colour]
    BY <1>2 DEF Drawn
  <2>4. Drawn(ps, k + 1, colour)
          = [path |-> Path(k + 1), at |-> <<ps[k + 1]>>, start |-> <<ps[1]>>,
             colour |-> colour]
    <3>1. k + 1 # 0
      OBVIOUS
    <3> QED
      BY <3>1 DEF Drawn
  <2> HIDE DEF Path
  <2>5. W!LineTo([path |-> Path(k), at |-> <<ps[k]>>, start |-> <<ps[1]>>,
                  colour |-> colour], ps[k + 1])
          = [path |-> Path(k) \cup W!Line(ps[k], ps[k + 1]), at |-> <<ps[k + 1]>>,
             start |-> <<ps[1]>>, colour |-> colour]
    BY LineToGoesOn
  <2> QED
    BY <2>2, <2>3, <2>4, <2>5
<1> QED
  BY <1>1, <1>2

\* A drawing received is drawn from its first point to its last.
LEMMA FoldDrawn ==
  ASSUME NEW ps \in Seq(Points), NEW ctx, NEW colour
  PROVE  LineFold(W!Begun(ctx, colour), ps) = Drawn(ps, Len(ps), colour)
<1> DEFINE base == W!Begun(ctx, colour)
<1>1. PICK f : /\ LineFold(base, ps) = f[1 .. Len(ps)]
               /\ f[1 .. 0] = base
               /\ \A k \in 1 .. Len(ps) : f[1 .. k] = W!LineTo(f[1 .. k - 1], ps[k])
  <2> HIDE DEF base
  <2> QED
    BY DrawnFold
<1> DEFINE M == {k \in Nat : k <= Len(ps) => f[1 .. k] = Drawn(ps, k, colour)}
<1>2. 0 \in M
  <2>1. UNION {W!Line(ps[i], ps[i + 1]) : i \in 1 .. 0 - 1} = {}
    OBVIOUS
  <2> QED
    BY <1>1, <2>1 DEF Drawn, W!Begun
<1>3. ASSUME NEW k \in Nat, k \in M
      PROVE  k + 1 \in M
  <2> SUFFICES ASSUME k + 1 <= Len(ps) PROVE f[1 .. k + 1] = Drawn(ps, k + 1, colour)
    OBVIOUS
  <2>1. f[1 .. k] = Drawn(ps, k, colour) /\ k + 1 \in 1 .. Len(ps) /\ k + 1 - 1 = k
    BY <1>3
  <2>2. f[1 .. k + 1] = W!LineTo(f[1 .. k], ps[k + 1])
    BY <1>1, <2>1
  <2> QED
    BY <2>1, <2>2, LineToDrawn
<1> HIDE DEF M
<1>4. Len(ps) \in M
  BY <1>2, <1>3, Inductive
<1> QED
  BY <1>1, <1>4 DEF M

\* Stroking a path that went through a sequence paints its lines.
LEMMA StrokedDrawn ==
  ASSUME NEW ps, NEW colour
  PROVE  W!Stroked(Drawn(ps, Len(ps), colour)) = W!Lines(ps, colour)
BY DEF Drawn, W!Stroked, W!Lines

\* One point more.
LEMMA DrawnAppend ==
  ASSUME NEW ps \in Seq(Points), NEW p \in Points, NEW colour
  PROVE  W!LineTo(Drawn(ps, Len(ps), colour), p)
           = Drawn(Append(ps, p), Len(Append(ps, p)), colour)
<1> DEFINE ext == Append(ps, p)
<1>1. Len(ext) = Len(ps) + 1 /\ ext[Len(ps) + 1] = p /\ \A i \in 1 .. Len(ps) : ext[i] = ps[i]
  OBVIOUS
<1> HIDE DEF ext
<1>2. Drawn(ext, Len(ps), colour) = Drawn(ps, Len(ps), colour)
  <2>1. \A i \in 1 .. Len(ps) - 1 : i \in 1 .. Len(ps) /\ i + 1 \in 1 .. Len(ps)
    OBVIOUS
  <2>2. {W!Line(ext[i], ext[i + 1]) : i \in 1 .. Len(ps) - 1}
          = {W!Line(ps[i], ps[i + 1]) : i \in 1 .. Len(ps) - 1}
    BY <1>1, <2>1
  <2>3. CASE Len(ps) = 0
    BY <2>2, <2>3 DEF Drawn
  <2>4. CASE Len(ps) # 0
    <3>1. 1 \in 1 .. Len(ps) /\ Len(ps) \in 1 .. Len(ps)
      BY <2>4
    <3> QED
      BY <1>1, <2>2, <2>4, <3>1 DEF Drawn
  <2> QED
    BY <2>3, <2>4
<1>3. Len(ps) \in Nat
  OBVIOUS
<1>4. W!LineTo(Drawn(ext, Len(ps), colour), ext[Len(ps) + 1]) = Drawn(ext, Len(ps) + 1, colour)
  BY <1>3, LineToDrawn
<1> QED
  BY <1>1, <1>2, <1>4 DEF ext

\* The lines of a sequence with one point more.
LEMMA LinesAppend ==
  ASSUME NEW ps \in Seq(Points), ps # <<>>, NEW p \in Points, NEW colour
  PROVE  W!Lines(Append(ps, p), colour)
           = W!Lines(ps, colour) \cup {<<line, colour>> : line \in W!Line(ps[Len(ps)], p)}
<1>1. W!Stroked(W!LineTo(Drawn(ps, Len(ps), colour), p)) = W!Lines(Append(ps, p), colour)
  BY DrawnAppend, StrokedDrawn
<1>2. Len(ps) # 0
  OBVIOUS
<1>3. W!LineTo(Drawn(ps, Len(ps), colour), p).path
        = Drawn(ps, Len(ps), colour).path \cup W!Line(ps[Len(ps)], p)
  BY <1>2 DEF Drawn, W!LineTo
<1>4. W!LineTo(Drawn(ps, Len(ps), colour), p).colour = colour
  BY <1>2 DEF Drawn, W!LineTo
<1>5. W!Stroked(Drawn(ps, Len(ps), colour)) = W!Lines(ps, colour)
  BY StrokedDrawn
<1>6. Drawn(ps, Len(ps), colour).colour = colour
  BY DEF Drawn
<1> QED
  BY <1>1, <1>3, <1>4, <1>5, <1>6 DEF W!Stroked

\* The points of a message that holds none twice are read as they were sent.
LEMMA ReadAsSent ==
  ASSUME NEW ps \in Seq(Points), \A i, j \in DOMAIN ps : ps[i] = ps[j] => i = j
  PROVE  PointFold(ps) = ps
<1>1. PICK f : /\ PointFold(ps) = f[1 .. Len(ps)]
               /\ f[1 .. 0] = <<>>
               /\ \A k \in 1 .. Len(ps) : f[1 .. k] = W!AddPoint(f[1 .. k - 1], ps[k])
  BY AddedFold
<1> DEFINE M == {k \in Nat : k <= Len(ps) => f[1 .. k] = SubSeq(ps, 1, k)}
<1>2. 0 \in M
  <2>1. SubSeq(ps, 1, 0) = <<>>
    OBVIOUS
  <2> QED
    BY <1>1, <2>1
<1>3. ASSUME NEW k \in Nat, k \in M
      PROVE  k + 1 \in M
  <2> SUFFICES ASSUME k + 1 <= Len(ps) PROVE f[1 .. k + 1] = SubSeq(ps, 1, k + 1)
    OBVIOUS
  <2> DEFINE first == SubSeq(ps, 1, k)
  <2>1. f[1 .. k] = first /\ k + 1 \in 1 .. Len(ps) /\ k + 1 - 1 = k
    BY <1>3
  <2> HIDE DEF first, M
  <2>2. f[1 .. k + 1] = W!AddPoint(first, ps[k + 1])
    BY <1>1, <2>1
  <2> USE DEF first
  <2>3. Len(first) = k /\ \A i \in 1 .. k : first[i] = ps[i]
    BY <2>1
  <2>4. DOMAIN first = 1 .. k
    BY <2>1
  <2>5. \A i \in 1 .. k : i \in DOMAIN ps /\ k + 1 \in DOMAIN ps /\ i # k + 1
    BY <2>1
  <2>6. ps[k + 1] \notin {first[i] : i \in DOMAIN first}
    BY <2>3, <2>4, <2>5
  <2>7. W!AddPoint(first, ps[k + 1]) = Append(first, ps[k + 1])
    BY <2>6 DEF W!AddPoint
  <2>8. Append(SubSeq(ps, 1, k), ps[k + 1]) = SubSeq(ps, 1, k + 1)
    BY <2>1
  <2> QED
    BY <2>2, <2>7, <2>8
<1> HIDE DEF M
<1>4. Len(ps) \in M
  BY <1>2, <1>3, Inductive
<1>5. SubSeq(ps, 1, Len(ps)) = ps
  OBVIOUS
<1> QED
  BY <1>1, <1>4, <1>5 DEF M

\* What is read of a message is a sequence of points.
LEMMA ReadSeq ==
  ASSUME NEW ps \in Seq(Points)
  PROVE  PointFold(ps) \in Seq(Points)
<1>1. PICK f : /\ PointFold(ps) = f[1 .. Len(ps)]
               /\ f[1 .. 0] = <<>>
               /\ \A k \in 1 .. Len(ps) : f[1 .. k] = W!AddPoint(f[1 .. k - 1], ps[k])
  BY AddedFold
<1> DEFINE M == {k \in Nat : k <= Len(ps) => f[1 .. k] \in Seq(Points)}
<1>2. 0 \in M
  <2>1. <<>> \in Seq(Points)
    OBVIOUS
  <2> QED
    BY <1>1, <2>1
<1>3. ASSUME NEW k \in Nat, k \in M
      PROVE  k + 1 \in M
  <2> SUFFICES ASSUME k + 1 <= Len(ps) PROVE f[1 .. k + 1] \in Seq(Points)
    OBVIOUS
  <2>1. f[1 .. k] \in Seq(Points) /\ k + 1 \in 1 .. Len(ps) /\ k + 1 - 1 = k
    BY <1>3
  <2>2. f[1 .. k + 1] = W!AddPoint(f[1 .. k], ps[k + 1])
    BY <1>1, <2>1
  <2>3. ps[k + 1] \in Points
    BY <2>1
  <2> QED
    BY <2>1, <2>2, <2>3 DEF W!AddPoint
<1> HIDE DEF M
<1>4. Len(ps) \in M
  BY <1>2, <1>3, Inductive
<1> QED
  BY <1>1, <1>4 DEF M

(***************************************************************************)
(* The whiteboard: invariant.                                              *)
(***************************************************************************)
Apart(ps) == \A i, j \in DOMAIN ps : ps[i] = ps[j] => i = j

\* The points of the message are those of the stroke; as long as the stroke does not
\* cross itself, they draw its lines and end where it ends.
Follows(ps, st) ==
  /\ {ps[i] : i \in DOMAIN ps} = {st[i] : i \in DOMAIN st}
  /\ ps = <<>> <=> st = <<>>
  /\ ~W!Crosses(st) =>
       /\ W!Lines(ps, W!Black) = W!Lines(st, W!Black)
       /\ st # <<>> => ps[Len(ps)] = st[Len(st)]

Undisturbed ==
  held > 0 /\ ~disturbed => context = Drawn(stroke, Len(stroke), W!Black)

BoardInv ==
  /\ W!TypeOK
  /\ Follows(points, stroke)
  /\ held > 0 => stroke # <<>>
  /\ held > 0 /\ disturbed => mixed
  /\ Undisturbed
  /\ W!NothingMixed

BoardSteps == [W!Next]_wVars

\* A stroke that comes back to a point of its own without crossing itself has not
\* left it.
LEMMA BackToLast ==
  ASSUME NEW st \in Seq(Points), NEW p \in Points, ~W!Crosses(Append(st, p)),
         p \in {st[i] : i \in DOMAIN st}
  PROVE  st # <<>> /\ st[Len(st)] = p
<1> DEFINE After == {m \in Nat : m < Len(st) /\ st[Len(st) - m] = p}
<1> DEFINE ext == Append(st, p)
<1>1. PICK i \in 1 .. Len(st) : st[i] = p
  OBVIOUS
<1>2. Len(st) - i \in After
  BY <1>1
<1>3. PICK m \in After : \A n \in After : m <= n
  <2>1. After \subseteq Nat /\ After # {}
    BY <1>2
  <2> HIDE DEF After
  <2> QED
    BY <2>1, LeastNat
<1> DEFINE last == Len(st) - m
<1>4. last \in 1 .. Len(st) /\ st[last] = p
  BY <1>3
<1>5. ASSUME last # Len(st) PROVE FALSE
  <2>1. m - 1 \in Nat /\ m - 1 < Len(st) /\ Len(st) - (m - 1) = last + 1
    BY <1>4, <1>5, <1>3
  <2>2. st[last + 1] # p
    <3>1. m - 1 \notin After
      BY <1>3, <2>1
    <3> QED
      BY <2>1, <3>1
  <2>3. last \in DOMAIN ext /\ Len(st) + 1 \in DOMAIN ext /\ last < (Len(st) + 1) - 1
    BY <1>4, <1>5
  <2>4. ext[last] = p /\ ext[Len(st) + 1] = p /\ ext[last + 1] = st[last + 1]
    BY <1>4, <1>5
  <2> HIDE DEF last, ext
  <2>5. W!Crosses(ext)
    BY <2>2, <2>3, <2>4 DEF W!Crosses
  <2> QED
    BY <2>5 DEF ext
<1> QED
  BY <1>4, <1>5

\* A stroke that crosses itself goes on to do so.
LEMMA CrossesOn ==
  ASSUME NEW st \in Seq(Points), NEW p \in Points, W!Crosses(st)
  PROVE  W!Crosses(Append(st, p))
<1> DEFINE ext == Append(st, p)
<1>1. PICK i, j \in 1 .. Len(st) : i < j - 1 /\ st[i] = st[j] /\ st[i + 1] # st[i]
  BY DEF W!Crosses
<1>2. i \in DOMAIN ext /\ j \in DOMAIN ext
  BY <1>1
<1>3. ext[i] = st[i] /\ ext[j] = st[j] /\ ext[i + 1] = st[i + 1]
  BY <1>1
<1> HIDE DEF ext
<1>4. W!Crosses(ext)
  BY <1>1, <1>2, <1>3 DEF W!Crosses
<1> QED
  BY <1>4 DEF ext

\* A message holds no point twice.
LEMMA AddApart ==
  ASSUME NEW ps \in Seq(Points), NEW p \in Points, Apart(ps)
  PROVE  W!AddPoint(ps, p) \in Seq(Points) /\ Apart(W!AddPoint(ps, p))
<1>1. CASE p \in {ps[i] : i \in DOMAIN ps}
  BY <1>1 DEF W!AddPoint
<1>2. CASE p \notin {ps[i] : i \in DOMAIN ps}
  <2> DEFINE ext == Append(ps, p)
  <2>1. W!AddPoint(ps, p) = ext /\ ext \in Seq(Points)
    BY <1>2 DEF W!AddPoint
  <2>2. DOMAIN ext = 1 .. Len(ps) + 1 /\ DOMAIN ps = 1 .. Len(ps)
    OBVIOUS
  <2>3. ext[Len(ps) + 1] = p /\ \A i \in 1 .. Len(ps) : ext[i] = ps[i] /\ ext[i] # p
    BY <1>2
  <2> HIDE DEF ext
  <2>4. ASSUME NEW i \in 1 .. Len(ps) + 1, NEW j \in 1 .. Len(ps) + 1, ext[i] = ext[j]
        PROVE  i = j
    <3>1. Len(ps) \in Nat
      OBVIOUS
    <3>2. CASE i = Len(ps) + 1
      BY <2>3, <2>4, <3>1, <3>2
    <3>3. CASE j = Len(ps) + 1
      BY <2>3, <2>4, <3>1, <3>3
    <3>4. CASE i # Len(ps) + 1 /\ j # Len(ps) + 1
      <4>1. i \in 1 .. Len(ps) /\ j \in 1 .. Len(ps)
        BY <3>1, <3>4
      <4> QED
        BY <2>2, <2>3, <2>4, <4>1 DEF Apart
    <3> QED
      BY <3>2, <3>3, <3>4
  <2> QED
    BY <2>1, <2>2, <2>4 DEF Apart
<1> QED
  BY <1>1, <1>2

\* A point more in the stroke and, unless it was there, in the message.
LEMMA FollowsOn ==
  ASSUME NEW ps \in Seq(Points), NEW st \in Seq(Points), NEW p \in Points,
         st # <<>>, Follows(ps, st)
  PROVE  Follows(W!AddPoint(ps, p), Append(st, p))
<1> DEFINE ext == Append(st, p)
<1>1. ext # <<>> /\ ext[Len(ext)] = p
  OBVIOUS
<1>2. {ext[i] : i \in DOMAIN ext} = {st[i] : i \in DOMAIN st} \cup {p}
  <2>1. DOMAIN ext = DOMAIN st \cup {Len(st) + 1}
    OBVIOUS
  <2>2. ext[Len(st) + 1] = p /\ \A i \in DOMAIN st : ext[i] = st[i]
    OBVIOUS
  <2> HIDE DEF ext
  <2> QED
    BY <2>1, <2>2
<1>3. W!Lines(ext, W!Black)
        = W!Lines(st, W!Black) \cup {<<line, W!Black>> : line \in W!Line(st[Len(st)], p)}
  BY LinesAppend
<1>4. ~W!Crosses(ext) => ~W!Crosses(st)
  BY CrossesOn
<1>5. CASE p \in {ps[i] : i \in DOMAIN ps}
  <2>1. W!AddPoint(ps, p) = ps
    BY <1>5 DEF W!AddPoint
  <2>2. p \in {st[i] : i \in DOMAIN st}
    BY <1>5 DEF Follows
  <2>3. ps # <<>>
    BY <1>5
  <2>4. ~W!Crosses(ext) => st[Len(st)] = p
    BY <2>2, BackToLast
  <2>5. W!Line(p, p) = {}
    BY DEF W!Line
  <2>6. ~W!Crosses(ext) => W!Lines(ext, W!Black) = W!Lines(st, W!Black)
    BY <1>3, <2>4, <2>5
  <2> HIDE DEF ext
  <2> QED
    BY <1>1, <1>2, <1>4, <2>1, <2>2, <2>3, <2>4, <2>6 DEF Follows, ext
<1>6. CASE p \notin {ps[i] : i \in DOMAIN ps}
  <2> DEFINE grown == Append(ps, p)
  <2>1. W!AddPoint(ps, p) = grown
    BY <1>6 DEF W!AddPoint
  <2>2. grown # <<>> /\ grown[Len(grown)] = p
    OBVIOUS
  <2>3. {grown[i] : i \in DOMAIN grown} = {ps[i] : i \in DOMAIN ps} \cup {p}
    OBVIOUS
  <2>4. ps # <<>>
    BY DEF Follows
  <2>5. W!Lines(grown, W!Black)
          = W!Lines(ps, W!Black) \cup {<<line, W!Black>> : line \in W!Line(ps[Len(ps)], p)}
    BY <2>4, LinesAppend
  <2> HIDE DEF ext, grown
  <2>6. {grown[i] : i \in DOMAIN grown} = {ext[i] : i \in DOMAIN ext}
    BY <1>2, <2>3 DEF Follows
  <2>7. ~W!Crosses(ext) =>
          /\ W!Lines(grown, W!Black) = W!Lines(ext, W!Black)
          /\ grown[Len(grown)] = ext[Len(ext)]
    BY <1>1, <1>3, <1>4, <2>2, <2>5 DEF Follows
  <2>8. Follows(grown, ext)
    BY <1>1, <2>2, <2>6, <2>7 DEF Follows
  <2> QED
    BY <2>1, <2>8 DEF ext
<1> QED
  BY <1>5, <1>6

\* At first nothing is painted.
LEMMA BoardInit ==
  ASSUME W!Init, W!WhiteBoardAssumption
  PROVE  BoardInv
<1> USE DEF W!Init, W!NoMessage
<1>1. W!TypeOK
  <2>1. <<>> \in Seq(Points) /\ DOMAIN <<>> = {}
    OBVIOUS
  <2>2. points = <<>> /\ stroke = <<>> /\ sent.points = <<>>
    OBVIOUS
  <2>3. strokes \in 0 .. MaxStrokes /\ received \in 0 .. MaxReceived
    BY DEF W!WhiteBoardAssumption
  <2>4. held \in 0 .. Buttons /\ disturbed \in BOOLEAN /\ mixed \in BOOLEAN
    <3>1. held = 0 /\ Buttons \in Nat
      BY DEF W!WhiteBoardAssumption
    <3>2. held \in 0 .. Buttons
      BY <3>1
    <3> QED
      BY <3>2
  <2> QED
    BY <2>1, <2>2, <2>3, <2>4 DEF W!TypeOK
<1>2. Follows(points, stroke)
  BY DEF Follows
<1>3. Undisturbed /\ W!NothingMixed /\ ~(held > 0)
  BY DEF Undisturbed, W!NothingMixed
<1> QED
  BY <1>1, <1>2, <1>3 DEF BoardInv

\* The type invariant speaks of these.
LEMMA BoardTyped ==
  W!TypeOK <=> /\ points \in Seq(Points) /\ sent.points \in Seq(Points)
               /\ stroke \in Seq(Points) /\ Apart(points)
               /\ held \in 0 .. Buttons /\ disturbed \in BOOLEAN /\ mixed \in BOOLEAN
               /\ strokes \in 0 .. MaxStrokes /\ received \in 0 .. MaxReceived
BY DEF W!TypeOK, Apart

\* The same of the next state.
LEMMA BoardTypedNext ==
  W!TypeOK' <=> /\ points' \in Seq(Points) /\ sent'.points \in Seq(Points)
                /\ stroke' \in Seq(Points) /\ Apart(points')
                /\ held' \in 0 .. Buttons /\ disturbed' \in BOOLEAN /\ mixed' \in BOOLEAN
                /\ strokes' \in 0 .. MaxStrokes /\ received' \in 0 .. MaxReceived
BY DEF W!TypeOK, Apart

\* What is painted at a point of an undisturbed stroke.
LEMMA PaintKeeps ==
  ASSUME W!WhiteBoardAssumption, BoardInv, NEW p \in Points, W!Paint(p)
  PROVE  /\ stroke' \in Seq(Points) /\ stroke' # <<>>
         /\ points' \in Seq(Points) /\ Apart(points')
         /\ Follows(points', stroke')
         /\ ~disturbed => /\ W!LineTo(context, p) = Drawn(stroke', Len(stroke'), W!Black)
                          /\ canvas' = canvas \cup W!Lines(stroke', W!Black)
         /\ ~mixed => canvas' = shown'
<1> USE DEF W!Paint
<1>1. points \in Seq(Points) /\ stroke \in Seq(Points) /\ Apart(points) /\ stroke # <<>>
      /\ held > 0
  BY BoardTyped DEF BoardInv
<1>2. Follows(points, stroke) /\ points' = W!AddPoint(points, p) /\ stroke' = Append(stroke, p)
  BY DEF BoardInv
<1>3. points' \in Seq(Points) /\ Apart(points')
  BY <1>1, <1>2, AddApart
<1>4. Follows(points', stroke')
  BY <1>1, <1>2, FollowsOn
<1>5. stroke' \in Seq(Points) /\ stroke' # <<>>
  BY <1>1, <1>2
<1>6. ASSUME ~disturbed
      PROVE  /\ W!LineTo(context, p) = Drawn(stroke', Len(stroke'), W!Black)
             /\ canvas' = canvas \cup W!Lines(stroke', W!Black)
  <2>1. context = Drawn(stroke, Len(stroke), W!Black)
    BY <1>1, <1>6 DEF BoardInv, Undisturbed
  <2>2. W!LineTo(context, p) = Drawn(stroke', Len(stroke'), W!Black)
    BY <1>1, <1>2, <2>1, DrawnAppend
  <2>3. W!Stroked(W!LineTo(context, p)) = W!Lines(stroke', W!Black)
    BY <2>2, StrokedDrawn
  <2> QED
    BY <2>2, <2>3
<1>7. ~mixed => canvas' = shown'
  BY <1>1, <1>6 DEF BoardInv, W!NothingMixed
<1> QED
  BY <1>3, <1>4, <1>5, <1>6, <1>7

\* A stroke begins with a message of its own.
LEMMA PressKeeps ==
  ASSUME W!WhiteBoardAssumption, BoardInv, NEW p \in Points, W!Press(p)
  PROVE  BoardInv'
<1> USE DEF W!Press
<1>1. points' = <<p>> /\ stroke' = <<p>> /\ held' = held + 1 /\ ~disturbed' /\ UNCHANGED sent
      /\ UNCHANGED <<canvas, shown, mixed, received>>
  OBVIOUS
<1>2. <<p>> \in Seq(Points) /\ Apart(<<p>>) /\ <<p>> # <<>>
  BY DEF Apart
<1>3. strokes' \in 0 .. MaxStrokes /\ held' \in 0 .. Buttons /\ held' > 0
  BY BoardTyped DEF BoardInv, W!WhiteBoardAssumption
<1>4. W!TypeOK'
  BY <1>1, <1>2, <1>3, BoardTyped, BoardTypedNext DEF BoardInv
<1>5. Follows(<<p>>, <<p>>)
  BY DEF Follows
<1>6. context' = Drawn(<<p>>, Len(<<p>>), W!Black)
  <2>1. UNION {W!Line(<<p>>[i], <<p>>[i + 1]) : i \in 1 .. 1 - 1} = {}
    OBVIOUS
  <2>2. Drawn(<<p>>, 1, W!Black)
          = [path |-> {}, at |-> <<p>>, start |-> <<p>>, colour |-> W!Black]
    BY <2>1 DEF Drawn
  <2>3. Len(<<p>>) = 1
    OBVIOUS
  <2>4. context' = W!LineTo([path |-> {}, at |-> <<>>, start |-> <<>>, colour |-> W!Black], p)
    BY DEF W!Begun
  <2>5. context' = [path |-> {}, at |-> <<p>>, start |-> <<p>>, colour |-> W!Black]
    <3> DEFINE none == [path |-> {}, at |-> <<>>, start |-> <<>>, colour |-> W!Black]
    <3>1. W!LineTo(none, p) = [path |-> {}, at |-> <<p>>, start |-> <<p>>, colour |-> W!Black]
      <4> DEFINE path == {}
      <4> DEFINE colour == W!Black
      <4>1. W!LineTo([path |-> path, at |-> <<>>, start |-> <<>>, colour |-> colour], p)
              = [path |-> path, at |-> <<p>>, start |-> <<p>>, colour |-> colour]
        <5> HIDE DEF path, colour
        <5> QED
          BY LineToStarts
      <4> QED
        BY <4>1
    <3> HIDE DEF none
    <3> QED
      BY <2>4, <3>1 DEF none
  <2> QED
    BY <2>2, <2>3, <2>5
<1> QED
  BY <1>1, <1>2, <1>4, <1>5, <1>6 DEF BoardInv, Undisturbed, W!NothingMixed

\* A stroke goes on.
LEMMA DragKeeps ==
  ASSUME W!WhiteBoardAssumption, BoardInv, NEW p \in Points, W!Drag(p)
  PROVE  BoardInv'
<1>1. W!Paint(p) /\ context' = W!LineTo(context, p)
      /\ UNCHANGED <<sent, held, disturbed, mixed, strokes, received>>
  BY DEF W!Drag
<1>2. W!TypeOK'
  BY <1>1, PaintKeeps, BoardTyped, BoardTypedNext DEF BoardInv
<1> QED
  BY <1>1, <1>2, PaintKeeps DEF BoardInv, Undisturbed, W!NothingMixed

\* The end of a stroke is a point of it, and its message is sent.
LEMMA ReleaseKeeps ==
  ASSUME W!WhiteBoardAssumption, BoardInv, NEW p \in Points, W!Release(p)
  PROVE  BoardInv'
<1>1. W!Paint(p) /\ sent' = [colour |-> W!Black, points |-> points']
      /\ held > 0 /\ held' = held - 1
      /\ disturbed' = (disturbed \/ held' > 0) /\ mixed' = (mixed \/ held' > 0)
      /\ UNCHANGED <<strokes, received>>
  BY DEF W!Release, W!Paint
<1>2. sent'.points = points' /\ held' \in 0 .. Buttons
      /\ disturbed' \in BOOLEAN /\ mixed' \in BOOLEAN
  BY <1>1, BoardTyped DEF BoardInv, W!Release, W!WhiteBoardAssumption
<1>3. W!TypeOK'
  BY <1>1, <1>2, PaintKeeps, BoardTyped, BoardTypedNext DEF BoardInv
<1> QED
  BY <1>1, <1>3, PaintKeeps DEF BoardInv, Undisturbed, W!NothingMixed

\* A drawing received is painted as it was sent, and disturbs a stroke under way.
LEMMA ReceiveKeeps ==
  ASSUME W!WhiteBoardAssumption, BoardInv, NEW message \in Drawings, W!ReceiveDraw(message)
  PROVE  BoardInv'
<1>1. received' \in 0 .. MaxReceived /\ UNCHANGED <<points, sent, held, stroke, strokes>>
  BY BoardTyped DEF BoardInv, W!ReceiveDraw, W!WhiteBoardAssumption
<1>2. CASE ~W!Readable(message)
  <2>1. UNCHANGED <<context, canvas, disturbed, mixed, shown>>
    BY <1>2 DEF W!ReceiveDraw
  <2>2. W!TypeOK'
    BY <1>1, <2>1, BoardTyped, BoardTypedNext DEF BoardInv
  <2> QED
    BY <1>1, <2>1, <2>2 DEF BoardInv, Undisturbed, W!NothingMixed
<1>3. CASE W!Readable(message)
  <2> DEFINE colour == W!ColourRead(message)
  <2> DEFINE read == W!PointsRead(message)
  <2>1. /\ canvas' = canvas \cup W!Stroked(LineFold(W!Begun(context, colour), read))
        /\ shown' = shown \cup W!Lines(read, colour)
        /\ disturbed' = (held > 0)
        /\ mixed' = (mixed \/ held > 0)
    BY <1>3 DEF W!ReceiveDraw, LineFold
  <2>2. read \in Seq(Points)
    <3>1. message.points \in Seq(Points)
      BY DEF W!WhiteBoardAssumption
    <3> QED
      BY <3>1, ReadSeq DEF W!PointsRead, PointFold
  <2> HIDE DEF colour, read
  <2>3. canvas' = canvas \cup W!Lines(read, colour)
    BY <2>1, <2>2, FoldDrawn, StrokedDrawn
  <2>4. W!TypeOK'
    <3>1. disturbed' \in BOOLEAN /\ mixed' \in BOOLEAN
      BY <2>1, BoardTyped DEF BoardInv
    <3> QED
      BY <1>1, <3>1, BoardTyped, BoardTypedNext DEF BoardInv
  <2> QED
    BY <1>1, <2>1, <2>3, <2>4 DEF BoardInv, Undisturbed, W!NothingMixed
<1> QED
  BY <1>2, <1>3

\* Every step of the whiteboard keeps the invariant.
LEMMA BoardNext ==
  ASSUME W!WhiteBoardAssumption, BoardInv, BoardSteps
  PROVE  BoardInv'
<1>1. CASE UNCHANGED wVars
  <2>1. UNCHANGED <<context, canvas, points, sent, held, stroke, disturbed, mixed, shown,
                    strokes, received>>
    BY <1>1 DEF wVars
  <2>2. W!TypeOK'
    BY <2>1, BoardTyped, BoardTypedNext DEF BoardInv
  <2> QED
    BY <2>1, <2>2 DEF BoardInv, Undisturbed, W!NothingMixed
<1>2. CASE W!Next
  BY <1>2, PressKeeps, DragKeeps, ReleaseKeeps, ReceiveKeeps DEF W!Next
<1> QED
  BY <1>1, <1>2 DEF BoardSteps

\* A window that receives the stroke paints its lines.
LEMMA BoardSame ==
  ASSUME W!WhiteBoardAssumption, BoardInv, BoardSteps
  PROVE  W!SameStroke
<1> SUFFICES ASSUME held' < held, ~disturbed, ~W!Crosses(stroke')
             PROVE  /\ W!Readable(sent')
                    /\ W!Lines(W!PointsRead(sent'), W!ColourRead(sent')) = W!Lines(stroke', W!Black)
                    /\ W!Lines(stroke', W!Black) \subseteq canvas'
  BY DEF W!SameStroke
<1>0. held' # held /\ held' # held + 1
  BY BoardTyped DEF BoardInv
<1>1. PICK p \in Points : W!Release(p)
  BY <1>0 DEF BoardSteps, W!Next, W!Press, W!Drag, W!ReceiveDraw, wVars
<1>2. W!Paint(p) /\ sent' = [colour |-> W!Black, points |-> points']
  BY <1>1 DEF W!Release
<1>3. points' \in Seq(Points) /\ Apart(points') /\ Follows(points', stroke')
      /\ W!Lines(stroke', W!Black) \subseteq canvas'
  BY <1>2, PaintKeeps
<1>4. W!PointsRead(sent') = points'
  <2>1. PointFold(points') = points'
    BY <1>3, ReadAsSent DEF Apart
  <2>2. sent'.points = points'
    BY <1>2
  <2> QED
    BY <2>1, <2>2 DEF W!PointsRead, PointFold
<1>5. W!Readable(sent') /\ W!ColourRead(sent') = W!Black
  <2>1. sent'.colour = <<0, 0, 0, 255>>
    BY <1>2 DEF W!Black
  <2>2. 255 * (255 \div 255) = 255
    OBVIOUS
  <2>3. W!ColourRead(sent') = <<0, 0, 0, 255>>
    BY <2>1, <2>2 DEF W!ColourRead
  <2> QED
    BY <2>1, <2>3 DEF W!Readable, W!Black
<1> QED
  BY <1>3, <1>4, <1>5 DEF Follows

(***************************************************************************)
(* The zoo.  The proofs of Zoo, CyclicQueue and Belt are about copies of   *)
(* their definitions, which have to be shown the same.                     *)
(***************************************************************************)
Z7P == INSTANCE ZooProofs WITH OneByOne <- TRUE, Locked <- FALSE, pc <- gate
Z8P == INSTANCE ZooProofs WITH OneByOne <- FALSE, Locked <- TRUE, pc <- gate
QP  == INSTANCE CyclicQueueProofs WITH
         Capacity <- QueueCapacity, head <- queueHead, tail <- queueTail, isFull <- queueFull

Zoo7Steps  == [Z7!Next]_zVars
Zoo8Steps  == [Z8!Next]_zVars
QueueSteps == [Q!Next]_qVars

\* The copies of Zoo in its proofs are those of Labs.
LEMMA SameZoo ==
  /\ Z7!ZooAssumption => Z7P!ZooAssumption
  /\ Z8!ZooAssumption => Z8P!ZooAssumption
  /\ Z7!Init => Z7P!Init
  /\ Z8!Init => Z8P!Init
  /\ Z7!Next => Z7P!Next
  /\ Z8!Next => Z8P!Next
  /\ Z7P!TypeOK => Z7!TypeOK
  /\ Z8P!TypeOK => Z8!TypeOK
<1>1. Z7!ZooAssumption => Z7P!ZooAssumption
  BY DEF Z7!ZooAssumption, Z7P!ZooAssumption
<1>2. Z8!ZooAssumption => Z8P!ZooAssumption
  BY DEF Z8!ZooAssumption, Z8P!ZooAssumption
<1>3. Z7!Init => Z7P!Init
  BY DEF Z7!Init, Z7P!Init
<1>4. Z8!Init => Z8P!Init
  BY DEF Z8!Init, Z8P!Init
<1>5. Z7!Next => Z7P!Next
  BY DEF Z7!Next, Z7P!Next, Z7!Start, Z7P!Start, Z7!Gate, Z7P!Gate, Z7!Enter, Z7P!Enter,
     Z7!ReadCount, Z7P!ReadCount, Z7!WriteCount, Z7P!WriteCount, Z7!Exit, Z7P!Exit
<1>6. Z8!Next => Z8P!Next
  BY DEF Z8!Next, Z8P!Next, Z8!Start, Z8P!Start, Z8!Gate, Z8P!Gate, Z8!Enter, Z8P!Enter,
     Z8!ReadCount, Z8P!ReadCount, Z8!WriteCount, Z8P!WriteCount, Z8!Exit, Z8P!Exit
<1>7. Z7P!TypeOK => Z7!TypeOK
  BY DEF Z7!TypeOK, Z7P!TypeOK
<1>8. Z8P!TypeOK => Z8!TypeOK
  BY DEF Z8!TypeOK, Z8P!TypeOK
<1> QED
  BY <1>1, <1>2, <1>3, <1>4, <1>5, <1>6, <1>7, <1>8

ZooInv == (Zoo7 => Z7P!Inv) /\ (Zoo8 => Z8P!Inv)

ZooSteps ==
  /\ UNCHANGED exercise
  /\ Zoo7 => Zoo7Steps
  /\ Zoo8 => Zoo8Steps

\* The invariant of the zoo holds at first.
LEMMA ZooInit ==
  ASSUME Z7!ZooAssumption, Z8!ZooAssumption, Z7!Init
  PROVE  ZooInv
<1>1. Z8!Init
  BY DEF Z7!Init, Z8!Init
<1>2. Z7P!Inv
  BY SameZoo, Z7P!InitInv
<1>3. Z8P!Inv
  BY <1>1, SameZoo, Z8P!InitInv
<1> QED
  BY <1>2, <1>3 DEF ZooInv

\* It is kept, and guests are counted.
LEMMA ZooNext ==
  ASSUME Z7!ZooAssumption, Z8!ZooAssumption, ZooInv, ZooSteps
  PROVE  /\ ZooInv'
         /\ Zoo7 => Z7!CountedOnce \/ UNCHANGED zVars
         /\ Zoo8 => Z8!CountedOnce \/ UNCHANGED zVars
<1>a. UNCHANGED zVars => UNCHANGED Z7P!vars /\ UNCHANGED Z8P!vars
  BY DEF zVars, Z7P!vars, Z8P!vars
<1>1. ASSUME Zoo7 PROVE Z7P!Inv' /\ (Z7!CountedOnce \/ UNCHANGED zVars)
  <2>1. Z7P!Inv /\ [Z7P!Next]_(Z7P!vars)
    BY <1>a, <1>1, SameZoo DEF ZooInv, ZooSteps, Zoo7Steps
  <2>2. Z7P!Inv'
    BY <2>1, SameZoo, Z7P!NextInv
  <2>3. [Z7P!CountedOnce]_(Z7P!vars)
    BY <2>1, Z7P!StepCountsOnce
  <2> QED
    BY <2>2, <2>3 DEF Z7P!CountedOnce, Z7!CountedOnce, zVars, Z7P!vars
<1>2. ASSUME Zoo8 PROVE Z8P!Inv' /\ (Z8!CountedOnce \/ UNCHANGED zVars)
  <2>1. Z8P!Inv /\ [Z8P!Next]_(Z8P!vars)
    BY <1>a, <1>2, SameZoo DEF ZooInv, ZooSteps, Zoo8Steps
  <2>2. Z8P!Inv'
    BY <2>1, SameZoo, Z8P!NextInv
  <2>3. [Z8P!CountedOnce]_(Z8P!vars)
    BY <2>1, Z8P!StepCountsOnce
  <2> QED
    BY <2>2, <2>3 DEF Z8P!CountedOnce, Z8!CountedOnce, zVars, Z8P!vars
<1>3. Zoo7' <=> Zoo7
  BY DEF ZooSteps, Zoo7
<1>4. Zoo8' <=> Zoo8
  BY DEF ZooSteps, Zoo8
<1> QED
  BY <1>1, <1>2, <1>3, <1>4 DEF ZooInv

\* It has the types.
LEMMA ZooTyped ==
  ASSUME ZooInv
  PROVE  (Zoo7 => Z7!TypeOK) /\ (Zoo8 => Z8!TypeOK)
BY SameZoo DEF ZooInv, Z7P!Inv, Z8P!Inv

(***************************************************************************)
(* The cyclic queue.                                                       *)
(***************************************************************************)
LEMMA SameQueue ==
  /\ Q!CyclicQueueAssumption => QP!CyclicQueueAssumption
  /\ Q!Init => QP!Init
  /\ Q!Next => QP!Next
  /\ QP!TypeOK <=> Q!TypeOK
  /\ UNCHANGED qVars => UNCHANGED QP!vars
<1>s. Q!Slots = QP!Slots
  BY DEF Q!Slots, QP!Slots
<1>e. Q!isEmpty <=> QP!isEmpty
  BY DEF Q!isEmpty, QP!isEmpty
<1>o. /\ Q!Fifo!Fresh = QP!Fifo!Fresh /\ Q!Fifo!Fine = QP!Fifo!Fine
      /\ \A n : Q!Fifo!Returned(n) = QP!Fifo!Returned(n)
      /\ \A c : Q!Fifo!Refused(c) = QP!Fifo!Refused(c)
  BY DEF Q!Fifo!Fresh, QP!Fifo!Fresh, Q!Fifo!Fine, QP!Fifo!Fine, Q!Fifo!Returned,
     QP!Fifo!Returned, Q!Fifo!Refused, QP!Fifo!Refused
<1>1. Q!CyclicQueueAssumption => QP!CyclicQueueAssumption
  BY DEF Q!CyclicQueueAssumption, QP!CyclicQueueAssumption
<1>2. Q!Init => QP!Init
  BY <1>s, <1>o DEF Q!Init, QP!Init
<1>3. Q!Next => QP!Next
  <2>1. ASSUME NEW n \in Numbers, Q!Enqueue(n) PROVE QP!Enqueue(n)
    BY <2>1, <1>o DEF Q!Enqueue, QP!Enqueue
  <2>2. Q!Dequeue => QP!Dequeue
    BY <1>e, <1>o DEF Q!Dequeue, QP!Dequeue
  <2>3. Q!Refuse => QP!Refuse
    BY <1>e, <1>o DEF Q!Refuse, QP!Refuse
  <2> QED
    BY <2>1, <2>2, <2>3 DEF Q!Next, QP!Next
<1>4. QP!TypeOK <=> Q!TypeOK
  BY <1>s DEF Q!TypeOK, QP!TypeOK
<1>5. UNCHANGED qVars => UNCHANGED QP!vars
  BY DEF qVars, QP!vars
<1> QED
  BY <1>1, <1>2, <1>3, <1>4, <1>5

\* The types of the queue hold at first.
LEMMA QueueInit ==
  ASSUME Q!CyclicQueueAssumption, Q!Init
  PROVE  Q!TypeOK
BY SameQueue, QP!InitType

\* They are kept.
LEMMA QueueNext ==
  ASSUME Q!CyclicQueueAssumption, Q!TypeOK, QueueSteps
  PROVE  Q!TypeOK'
<1>1. QP!TypeOK'
  BY SameQueue, QP!NextType DEF QueueSteps
<1> QED
  BY <1>1 DEF Q!TypeOK, QP!TypeOK, Q!Slots, QP!Slots

\* The sequence held is the same in both copies.
LEMMA SameHeld == Q!Held = QP!Held
<1>1. Q!Count = QP!Count /\ \A n : Q!Slot(n) = QP!Slot(n)
  BY DEF Q!Count, QP!Count, Q!Slot, QP!Slot
<1> QED
  BY <1>1 DEF Q!Held, QP!Held

\* So are the steps of the queue of numbers.
LEMMA SameFifo ==
  /\ QP!Fifo!QueueInit => Q!Fifo!QueueInit
  /\ [QP!Fifo!QueueNext]_(QP!Fifo!queueVars) => [Q!Fifo!QueueNext]_(Q!Fifo!queueVars)
<1>h. Q!Held = QP!Held
  BY SameHeld
<1>d. (Q!Held = QP!Held)'
  BY SameHeld, PTL
<1>o. /\ Q!Fifo!Fresh = QP!Fifo!Fresh /\ Q!Fifo!Fine = QP!Fifo!Fine
      /\ \A n : Q!Fifo!Returned(n) = QP!Fifo!Returned(n)
      /\ \A c : Q!Fifo!Refused(c) = QP!Fifo!Refused(c)
  BY DEF Q!Fifo!Fresh, QP!Fifo!Fresh, Q!Fifo!Fine, QP!Fifo!Fine, Q!Fifo!Returned,
     QP!Fifo!Returned, Q!Fifo!Refused, QP!Fifo!Refused
<1>1. QP!Fifo!QueueInit => Q!Fifo!QueueInit
  BY <1>h, <1>o DEF Q!Fifo!QueueInit, QP!Fifo!QueueInit
<1>2. QP!Fifo!QueueNext => Q!Fifo!QueueNext
  <2>1. ASSUME NEW n \in Numbers, QP!Fifo!Put(n) PROVE Q!Fifo!Put(n)
    BY <1>h, <1>d, <1>o, <2>1 DEF Q!Fifo!Put, QP!Fifo!Put
  <2>2. QP!Fifo!Take => Q!Fifo!Take
    BY <1>h, <1>d, <1>o DEF Q!Fifo!Take, QP!Fifo!Take
  <2>3. QP!Fifo!RefusePut => Q!Fifo!RefusePut
    BY <1>h, <1>d, <1>o DEF Q!Fifo!RefusePut, QP!Fifo!RefusePut
  <2>4. QP!Fifo!RefuseTake => Q!Fifo!RefuseTake
    BY <1>h, <1>d, <1>o DEF Q!Fifo!RefuseTake, QP!Fifo!RefuseTake
  <2> QED
    BY <2>1, <2>2, <2>3, <2>4 DEF Q!Fifo!QueueNext, QP!Fifo!QueueNext
<1>3. UNCHANGED QP!Fifo!queueVars => UNCHANGED Q!Fifo!queueVars
  BY <1>h, <1>d DEF Q!Fifo!queueVars, QP!Fifo!queueVars
<1> QED
  BY <1>1, <1>2, <1>3

\* The steps of the array are steps of the queue of numbers.
LEMMA QueueFifo ==
  /\ Q!CyclicQueueAssumption /\ Q!Init => Q!Fifo!QueueInit
  /\ Q!CyclicQueueAssumption /\ Q!TypeOK /\ QueueSteps =>
       [Q!Fifo!QueueNext]_(Q!Fifo!queueVars)
<1>1. ASSUME Q!CyclicQueueAssumption, Q!Init PROVE Q!Fifo!QueueInit
  BY <1>1, SameQueue, SameFifo, QP!InitImplements
<1>2. ASSUME Q!CyclicQueueAssumption, Q!TypeOK, QueueSteps
      PROVE  [Q!Fifo!QueueNext]_(Q!Fifo!queueVars)
  <2>1. QP!CyclicQueueAssumption /\ QP!TypeOK /\ [QP!Next]_(QP!vars)
    BY <1>2, SameQueue DEF QueueSteps
  <2>2. [QP!Fifo!QueueNext]_(QP!Fifo!queueVars)
    BY <2>1, QP!StepImplements
  <2> QED
    BY <2>2, SameFifo
<1> QED
  BY <1>1, <1>2

(***************************************************************************)
(* The belt.                                                               *)
(***************************************************************************)
BP1 == INSTANCE BeltProofs WITH
  Producers <- {p1}, Consumers <- {c1, c2}, Capacity <- 5, Initially <- 3,
  Interruptible <- {}, MaxCalls <- 1

BP2 == INSTANCE BeltProofs WITH
  Producers <- {p1, p2}, Consumers <- {c1}, Capacity <- 2, Initially <- 0,
  Interruptible <- {c1}, MaxCalls <- 2

\* The copies of the first belt are the same.
LEMMA SameStopped ==
  /\ B1!Init => BP1!Init
  /\ B1!Next => BP1!Next
  /\ BP1!TypeOK => B1!TypeOK
  /\ UNCHANGED bVars => UNCHANGED BP1!vars
<1>t. B1!Threads = BP1!Threads
  BY DEF B1!Threads, BP1!Threads
<1>u. /\ \A t, label : B1!Goto(t, label) <=> BP1!Goto(t, label)
      /\ \A t, label : B1!At(t, label) <=> BP1!At(t, label)
      /\ \A t, from, to : B1!Step(t, from, to) <=> BP1!Step(t, from, to)
      /\ \A t : B1!Resume(t) = BP1!Resume(t)
  BY DEF B1!Goto, BP1!Goto, B1!At, BP1!At, B1!Step, BP1!Step, B1!Resume, BP1!Resume
<1>v. /\ UNCHANGED B1!fields <=> UNCHANGED BP1!fields
      /\ UNCHANGED B1!locks <=> UNCHANGED BP1!locks
      /\ UNCHANGED B1!flags <=> UNCHANGED BP1!flags
  BY DEF B1!fields, BP1!fields, B1!locks, BP1!locks, B1!flags, BP1!flags
<1>1. B1!Init => BP1!Init
  BY <1>t DEF B1!Init, BP1!Init
<1>2. B1!Next => BP1!Next
  <2>1. ASSUME NEW t, B1!Enqueue(t) PROVE BP1!Enqueue(t)
    BY <1>u, <1>v, <2>1 DEF B1!Enqueue, BP1!Enqueue, B1!LockEnqueue, BP1!LockEnqueue,
       B1!CheckFull, BP1!CheckFull, B1!Write, BP1!Write, B1!IncTail, BP1!IncTail,
       B1!ModTail, BP1!ModTail, B1!TestFull, BP1!TestFull, B1!SetFull, BP1!SetFull,
       B1!UnlockEnqueue, BP1!UnlockEnqueue
  <2>2. ASSUME NEW t, B1!Dequeue(t) PROVE BP1!Dequeue(t)
    BY <1>u, <1>v, <2>2 DEF B1!Dequeue, BP1!Dequeue, B1!LockDequeue, BP1!LockDequeue,
       B1!CheckMet, BP1!CheckMet, B1!CheckEmpty, BP1!CheckEmpty, B1!Read, BP1!Read,
       B1!IncHead, BP1!IncHead, B1!ModHead, BP1!ModHead, B1!ClearFull, BP1!ClearFull,
       B1!UnlockDequeue, BP1!UnlockDequeue
  <2>3. ASSUME NEW t, B1!Wait(t) PROVE BP1!Wait(t)
    BY <1>u, <1>v, <2>3 DEF B1!Wait, BP1!Wait
  <2>4. ASSUME NEW t, B1!Notify(t) PROVE BP1!Notify(t)
    BY <1>t, <1>u, <1>v, <2>4 DEF B1!Notify, BP1!Notify
  <2>5. ASSUME NEW t, B1!Leave(t) PROVE BP1!Leave(t)
    BY <1>u, <1>v, <2>5 DEF B1!Leave, BP1!Leave
  <2>6. ASSUME NEW t, B1!Interrupt(t) PROVE BP1!Interrupt(t)
    BY <1>u, <1>v, <2>6 DEF B1!Interrupt, BP1!Interrupt
  <2> QED
    BY <1>t, <2>1, <2>2, <2>3, <2>4, <2>5, <2>6 DEF B1!Next, BP1!Next, B1!Run, BP1!Run
<1>3. BP1!TypeOK => B1!TypeOK
  BY <1>t DEF B1!TypeOK, BP1!TypeOK, B1!Slots, BP1!Slots, B1!ProducerLabels,
     BP1!ProducerLabels, B1!ConsumerLabels, BP1!ConsumerLabels
<1>4. UNCHANGED bVars => UNCHANGED BP1!vars
  BY DEF bVars, BP1!vars, BP1!fields, BP1!locks, BP1!flags
<1> QED
  BY <1>1, <1>2, <1>3, <1>4

\* Its invariant holds at first.
LEMMA StoppedInit ==
  ASSUME B1!BeltAssumption, B1!Init
  PROVE  BP1!Inv
<1>1. BP1!BeltAssumption /\ BP1!FiniteProducers
  BY FS_Singleton DEF B1!BeltAssumption, BP1!BeltAssumption, BP1!FiniteProducers,
     BP1!IsFiniteSet, IsFiniteSet
<1> QED
  BY <1>1, SameStopped, BP1!InitInv

\* It is kept.
LEMMA StoppedNext ==
  ASSUME B1!BeltAssumption, BP1!Inv, [B1!Next]_bVars
  PROVE  BP1!Inv'
<1>1. BP1!BeltAssumption /\ BP1!FiniteProducers
  BY FS_Singleton DEF B1!BeltAssumption, BP1!BeltAssumption, BP1!FiniteProducers,
     BP1!IsFiniteSet, IsFiniteSet
<1>2. [BP1!Next]_(BP1!vars)
  BY SameStopped
<1> QED
  BY <1>1, <1>2, BP1!NextInv

\* The copies of the second belt are the same.
LEMMA SameWoken ==
  /\ B2!Init => BP2!Init
  /\ B2!Next => BP2!Next
  /\ BP2!TypeOK => B2!TypeOK
  /\ UNCHANGED bVars => UNCHANGED BP2!vars
<1>t. B2!Threads = BP2!Threads
  BY DEF B2!Threads, BP2!Threads
<1>u. /\ \A t, label : B2!Goto(t, label) <=> BP2!Goto(t, label)
      /\ \A t, label : B2!At(t, label) <=> BP2!At(t, label)
      /\ \A t, from, to : B2!Step(t, from, to) <=> BP2!Step(t, from, to)
      /\ \A t : B2!Resume(t) = BP2!Resume(t)
  BY DEF B2!Goto, BP2!Goto, B2!At, BP2!At, B2!Step, BP2!Step, B2!Resume, BP2!Resume
<1>v. /\ UNCHANGED B2!fields <=> UNCHANGED BP2!fields
      /\ UNCHANGED B2!locks <=> UNCHANGED BP2!locks
      /\ UNCHANGED B2!flags <=> UNCHANGED BP2!flags
  BY DEF B2!fields, BP2!fields, B2!locks, BP2!locks, B2!flags, BP2!flags
<1>1. B2!Init => BP2!Init
  BY <1>t DEF B2!Init, BP2!Init
<1>2. B2!Next => BP2!Next
  <2>1. ASSUME NEW t, B2!Enqueue(t) PROVE BP2!Enqueue(t)
    BY <1>u, <1>v, <2>1 DEF B2!Enqueue, BP2!Enqueue, B2!LockEnqueue, BP2!LockEnqueue,
       B2!CheckFull, BP2!CheckFull, B2!Write, BP2!Write, B2!IncTail, BP2!IncTail,
       B2!ModTail, BP2!ModTail, B2!TestFull, BP2!TestFull, B2!SetFull, BP2!SetFull,
       B2!UnlockEnqueue, BP2!UnlockEnqueue
  <2>2. ASSUME NEW t, B2!Dequeue(t) PROVE BP2!Dequeue(t)
    BY <1>u, <1>v, <2>2 DEF B2!Dequeue, BP2!Dequeue, B2!LockDequeue, BP2!LockDequeue,
       B2!CheckMet, BP2!CheckMet, B2!CheckEmpty, BP2!CheckEmpty, B2!Read, BP2!Read,
       B2!IncHead, BP2!IncHead, B2!ModHead, BP2!ModHead, B2!ClearFull, BP2!ClearFull,
       B2!UnlockDequeue, BP2!UnlockDequeue
  <2>3. ASSUME NEW t, B2!Wait(t) PROVE BP2!Wait(t)
    BY <1>u, <1>v, <2>3 DEF B2!Wait, BP2!Wait
  <2>4. ASSUME NEW t, B2!Notify(t) PROVE BP2!Notify(t)
    BY <1>t, <1>u, <1>v, <2>4 DEF B2!Notify, BP2!Notify
  <2>5. ASSUME NEW t, B2!Leave(t) PROVE BP2!Leave(t)
    BY <1>u, <1>v, <2>5 DEF B2!Leave, BP2!Leave
  <2>6. ASSUME NEW t, B2!Interrupt(t) PROVE BP2!Interrupt(t)
    BY <1>u, <1>v, <2>6 DEF B2!Interrupt, BP2!Interrupt
  <2> QED
    BY <1>t, <2>1, <2>2, <2>3, <2>4, <2>5, <2>6 DEF B2!Next, BP2!Next, B2!Run, BP2!Run
<1>3. BP2!TypeOK => B2!TypeOK
  BY <1>t DEF B2!TypeOK, BP2!TypeOK, B2!Slots, BP2!Slots, B2!ProducerLabels,
     BP2!ProducerLabels, B2!ConsumerLabels, BP2!ConsumerLabels
<1>4. UNCHANGED bVars => UNCHANGED BP2!vars
  BY DEF bVars, BP2!vars, BP2!fields, BP2!locks, BP2!flags
<1> QED
  BY <1>1, <1>2, <1>3, <1>4

\* Its invariant holds at first.
LEMMA WokenInit ==
  ASSUME B2!BeltAssumption, B2!Init
  PROVE  BP2!Inv
<1>1. BP2!BeltAssumption /\ BP2!FiniteProducers
  <2>1. IsFiniteSet({p1})
    BY FS_Singleton
  <2>2. IsFiniteSet({p1} \cup {p2})
    BY <2>1, FS_AddElement
  <2>3. IsFiniteSet({p1, p2})
    <3>1. {p1} \cup {p2} = {p1, p2}
      OBVIOUS
    <3> QED
      BY <2>2, <3>1
  <2> QED
    BY <2>3 DEF B2!BeltAssumption, BP2!BeltAssumption, BP2!FiniteProducers,
       BP2!IsFiniteSet, IsFiniteSet
<1> QED
  BY <1>1, SameWoken, BP2!InitInv

\* It is kept.
LEMMA WokenNext ==
  ASSUME B2!BeltAssumption, BP2!Inv, [B2!Next]_bVars
  PROVE  BP2!Inv'
<1>1. BP2!BeltAssumption /\ BP2!FiniteProducers
  <2>1. IsFiniteSet({p1})
    BY FS_Singleton
  <2>2. IsFiniteSet({p1} \cup {p2})
    BY <2>1, FS_AddElement
  <2>3. IsFiniteSet({p1, p2})
    <3>1. {p1} \cup {p2} = {p1, p2}
      OBVIOUS
    <3> QED
      BY <2>2, <3>1
  <2> QED
    BY <2>3 DEF B2!BeltAssumption, BP2!BeltAssumption, BP2!FiniteProducers,
       BP2!IsFiniteSet, IsFiniteSet
<1>2. [BP2!Next]_(BP2!vars)
  BY SameWoken
<1> QED
  BY <1>1, <1>2, BP2!NextInv

(***************************************************************************)
(* All of them.                                                            *)
(***************************************************************************)
LabsInv ==
  /\ ZooInv /\ Q!TypeOK /\ SeatInv /\ ColourInv /\ ArrayInv /\ FileInv /\ WordInv
  /\ BoardInv
  /\ Stopped => BP1!Inv
  /\ Woken => BP2!Inv

LabsSteps ==
  /\ ZooSteps /\ QueueSteps /\ SeatSteps /\ ColourSteps /\ ArraySteps /\ FileSteps
  /\ WordSteps /\ BoardSteps
  /\ Stopped => [B1!Next]_bVars
  /\ Woken => [B2!Next]_bVars

\* The invariants hold at first, of the parts not chosen as well.
LEMMA LabsInit ==
  ASSUME Init
  PROVE  LabsInv
<1> USE LabsAssumption DEF LabsAssumption
<1>1. /\ Z7!Init /\ Q!Init /\ P!Init /\ C!Init /\ T!Init /\ J!Init /\ K!Init /\ W!Init
      /\ IF Woken THEN B2!Init ELSE B1!Init
  BY DEF Init
<1>2. ZooInv
  BY <1>1, ZooInit
<1>3. Q!TypeOK /\ SeatInv /\ ColourInv
  BY <1>1, QueueInit, SeatInit, ColourInit
<1>4. ArrayInv /\ FileInv /\ WordInv /\ BoardInv
  BY <1>1, ArrayInit, FileInit, WordInit, BoardInit
<1>5. Stopped => BP1!Inv
  <2>1. Stopped => ~Woken
    BY DEF Stopped, Woken
  <2> QED
    BY <1>1, <2>1, StoppedInit
<1>6. Woken => BP2!Inv
  BY <1>1, WokenInit
<1> QED
  BY <1>2, <1>3, <1>4, <1>5, <1>6 DEF LabsInv

\* A step of the labs is one of each part, or leaves the part alone.
LEMMA StepOfEach ==
  ASSUME [Next]_vars
  PROVE  LabsSteps
<1> USE DEF LabsSteps, ZooSteps, Zoo7Steps, Zoo8Steps, QueueSteps, SeatSteps, ColourSteps,
            ArraySteps, FileSteps, WordSteps, BoardSteps
<1>1. CASE Zoo7 /\ InZoo(Z7!Next)
  BY <1>1 DEF InZoo, Zoo7, Zoo8, Stopped, Woken
<1>2. CASE Zoo8 /\ InZoo(Z8!Next)
  BY <1>2 DEF InZoo, Zoo7, Zoo8, Stopped, Woken
<1>3. CASE Queue /\ InQueue(Q!Next)
  BY <1>3 DEF InQueue
<1>4. CASE Table /\ InSeats(P!Next)
  BY <1>4 DEF InSeats
<1>5. CASE Colour /\ InColour(C!Next)
  BY <1>5 DEF InColour
<1>6. CASE Array /\ InArray(T!Next)
  BY <1>6 DEF InArray
<1>7. CASE Files /\ InFiles(J!Next)
  BY <1>7 DEF InFiles
<1>8. CASE Words /\ InWords(K!Next)
  BY <1>8 DEF InWords
<1>9. CASE Board /\ InBoard(W!Next)
  BY <1>9 DEF InBoard
<1>10. CASE Stopped /\ InBelt(B1!Next)
  BY <1>10 DEF InBelt, Stopped, Woken
<1>11. CASE Woken /\ InBelt(B2!Next)
  BY <1>11 DEF InBelt, Stopped, Woken
<1>12. CASE UNCHANGED vars
  BY <1>12 DEF vars
<1> QED
  BY <1>1, <1>2, <1>3, <1>4, <1>5, <1>6, <1>7, <1>8, <1>9, <1>10, <1>11, <1>12 DEF Next

\* Each is kept, by the steps of its part and by those of the others.
LEMMA LabsNext ==
  ASSUME LabsInv, [Next]_vars
  PROVE  LabsInv'
<1> USE LabsAssumption DEF LabsAssumption
<1>1. LabsSteps
  BY StepOfEach
<1>2. ZooInv'
  BY <1>1, ZooNext DEF LabsInv, LabsSteps
<1>3. Q!TypeOK'
  BY <1>1, QueueNext DEF LabsInv, LabsSteps
<1>4. SeatInv'
  BY <1>1, SeatNext DEF LabsInv, LabsSteps
<1>5. ColourInv'
  BY <1>1, ColourNext DEF LabsInv, LabsSteps
<1>6. ArrayInv'
  BY <1>1, ArrayNext DEF LabsInv, LabsSteps
<1>7. FileInv'
  BY <1>1, FileNext DEF LabsInv, LabsSteps
<1>8. WordInv'
  BY <1>1, WordNext DEF LabsInv, LabsSteps
<1>9. BoardInv'
  BY <1>1, BoardNext DEF LabsInv, LabsSteps
<1>10. exercise' = exercise
  BY <1>1 DEF LabsSteps, ZooSteps
<1>11. (Stopped => BP1!Inv)'
  BY <1>1, <1>10, StoppedNext DEF LabsInv, LabsSteps, Stopped
<1>12. (Woken => BP2!Inv)'
  BY <1>1, <1>10, WokenNext DEF LabsInv, LabsSteps, Woken
<1> QED
  BY <1>2, <1>3, <1>4, <1>5, <1>6, <1>7, <1>8, <1>9, <1>11, <1>12 DEF LabsInv

\* The inductive invariant of every part.
THEOREM Invariance == Spec => []LabsInv
<1>1. Init => LabsInv
  BY LabsInit
<1>2. LabsInv /\ [Next]_vars => LabsInv'
  BY LabsNext
<1> QED
  BY <1>1, <1>2, PTL DEF Spec

-----------------------------------------------------------------------------
\* The types of every part, and what its type invariant relates: no gate is past its
\* entrance before it started, a full queue has head and tail together, a fork is held
\* by one of its neighbours, the score is below zero only inside a click that lost, the
\* file being read is read no further than it is long, and no point is twice in a message.
THEOREM TypeCorrect == Spec => []TypeOK
<1>1. LabsInv => TypeOK
  <2>1. ZooInv => (Zoo7 => Z7!TypeOK) /\ (Zoo8 => Z8!TypeOK)
    BY ZooTyped
  <2>2. FileInv => J!TypeOK
    BY FilesTyped
  <2>3. BP1!Inv => B1!TypeOK
    BY SameStopped DEF BP1!Inv
  <2>4. BP2!Inv => B2!TypeOK
    BY SameWoken DEF BP2!Inv
  <2>5. SeatInv => P!TypeOK
    BY DEF SeatInv
  <2>6. ColourInv => C!TypeOK
    BY DEF ColourInv
  <2>7. ArrayInv => T!TypeOK
    BY DEF ArrayInv
  <2>8. BoardInv => W!TypeOK
    BY DEF BoardInv
  <2> QED
    BY <2>1, <2>2, <2>3, <2>4, <2>5, <2>6, <2>7, <2>8 DEF LabsInv, TypeOK
<1> QED
  BY <1>1, Invariance, PTL

\* A gate that lets a guest pass counts one more than was counted, in the zoo of lab7
\* where one gate runs after the other and in that of lab8 where they lock the counter
\* (Gate.run, Counter.addCount).
THEOREM GuestsAreCounted == Spec => EveryGuestCounted
<1>1. LabsInv /\ [Next]_vars =>
        [(Zoo7 => Z7!CountedOnce) /\ (Zoo8 => Z8!CountedOnce)]_vars
  <2> SUFFICES ASSUME LabsInv, [Next]_vars
               PROVE  [(Zoo7 => Z7!CountedOnce) /\ (Zoo8 => Z8!CountedOnce)]_vars
    OBVIOUS
  <2>1. /\ Zoo7 => Z7!CountedOnce \/ UNCHANGED zVars
        /\ Zoo8 => Z8!CountedOnce \/ UNCHANGED zVars
    BY LabsAssumption, StepOfEach, ZooNext DEF LabsAssumption, LabsInv, LabsSteps
  <2>2. UNCHANGED zVars => Z7!CountedOnce /\ Z8!CountedOnce
    BY DEF zVars, Z7!CountedOnce, Z8!CountedOnce
  <2> QED
    BY <2>1, <2>2
<1> QED
  BY <1>1, Invariance, PTL DEF Spec, EveryGuestCounted

\* The array, head, tail and flag implement a queue of numbers: what was put in comes
\* out once and in order, and a call is refused only when it is full or empty
\* (CyclicQueue.enqueue, dequeue).
THEOREM QueueImplementsFifo == Spec => ImplementsFifo
<1>1. Init => Q!Fifo!QueueInit
  <2>1. Init => Q!Init
    BY DEF Init
  <2> QED
    BY <2>1, LabsAssumption, QueueFifo DEF LabsAssumption
<1>2. LabsInv /\ [Next]_vars => [Q!Fifo!QueueNext]_(Q!Fifo!queueVars)
  <2> SUFFICES ASSUME LabsInv, [Next]_vars
               PROVE  [Q!Fifo!QueueNext]_(Q!Fifo!queueVars)
    OBVIOUS
  <2>1. Q!TypeOK /\ QueueSteps
    BY StepOfEach DEF LabsInv, LabsSteps
  <2> QED
    BY <2>1, LabsAssumption, QueueFifo DEF LabsAssumption
<1> QED
  BY <1>1, <1>2, Invariance, PTL DEF Spec, ImplementsFifo, Q!ImplementsFifo, Q!Fifo!QueueSpec

\* Some philosopher can always go on: however many sit at the table, no circle of them
\* waits for each other's forks (seatType1, seatType2).
THEOREM PhilosophersGoOn == Spec => []SomebodyFree
<1>1. LabsInv => SomebodyFree
  BY LabsAssumption, SeatFree DEF LabsAssumption, LabsInv
<1> QED
  BY <1>1, Invariance, PTL

\* Unless a click was under way or came later, the score that is sent is the one the
\* player ends with, and no less than zero (gameLoop, blockClicked).
THEOREM ScoreStands == Spec => []SentScoreStands
<1>1. LabsInv => SentScoreStands
  BY DEF LabsInv, ColourInv, SentScoreStands
<1> QED
  BY <1>1, Invariance, PTL

\* A block that was hit gets another colour, unless the current colour changed within
\* the click (blockClicked).
THEOREM HitsRepaint == Spec => HitRepaints
<1>1. LabsInv /\ [Next]_vars => [C!Repainted]_vars
  BY StepOfEach, ColourRepaints DEF LabsInv, LabsSteps
<1> QED
  BY <1>1, Invariance, PTL DEF Spec, HitRepaints

\* The cells of a triangular array of any size keep what was stored in them, and none
\* of them is outside its block if the size began at zero or above (newarray, store).
THEOREM TableInBlock == Spec => []BlockHoldsTable
<1>1. LabsInv => BlockHoldsTable
  BY LabsAssumption, ArrayHoldsTable DEF LabsAssumption, LabsInv, BlockHoldsTable
<1> QED
  BY <1>1, Invariance, PTL

\* When concatenateJavaFiles returns, the file it wrote holds the others one after the
\* other, nothing of what it held before and nothing twice.
THEOREM FilesConcatenated == Spec => []Concatenated
<1>1. LabsInv => Concatenated
  BY FilesTyped DEF LabsInv, Concatenated
<1> QED
  BY <1>1, Invariance, PTL

\* isKPalindrome answers no exactly if no choice of letters to take out leaves a
\* palindrome, for words of any length and any number of letters to take out.
THEOREM NoIsRight == Spec => []NoExactly
<1>1. LabsInv => NoExactly
  BY WordRight DEF LabsInv, NoExactly
<1> QED
  BY <1>1, Invariance, PTL

\* Until a drawing came in the middle of a stroke, the whiteboard shows the lines of its
\* strokes and of the drawings it received (DrawWindow, paint).
THEOREM BoardUnmixed == Spec => []NothingMixed
<1>1. LabsInv => NothingMixed
  BY DEF LabsInv, BoardInv, NothingMixed
<1> QED
  BY <1>1, Invariance, PTL

\* Who receives a stroke that was not disturbed and does not cross itself paints the
\* lines its sender drew (PaintMessage, encode and decode).
THEOREM StrokeSeenByOthers == Spec => OthersSeeStroke
<1>1. LabsInv /\ [Next]_vars => [W!SameStroke]_vars
  BY LabsAssumption, StepOfEach, BoardSame DEF LabsAssumption, LabsInv, LabsSteps
<1> QED
  BY <1>1, Invariance, PTL DEF Spec, OthersSeeStroke
===============================================================================
