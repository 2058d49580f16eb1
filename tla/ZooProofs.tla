------------------------------- MODULE ZooProofs -------------------------------
(***************************************************************************)
(* The zoo for any number of gates and guests, kept apart by main (lab7) or *)
(* by the counter's monitor (lab8).  Either way at most one gate is inside, *)
(* and what a gate has read of the counter is still there when it writes.   *)
(***************************************************************************)
EXTENDS Zoo, TLAPS

\* lab8: the gate inside is the one that holds the monitor.
MonitorHeld == Locked => \A g \in 1 .. Gates : Inside(g) => monitor = {g}

\* lab7: all gates main has started but the last have closed.
EarlierGatesLeft == OneByOne => \A g \in 1 .. started - 1 : pc[g] = "left"

ReadingStands == \A g \in 1 .. Gates : pc[g] = "write" => register[g] = count

Inv == TypeOK /\ GatesApart /\ MonitorHeld /\ EarlierGatesLeft /\ ReadingStands

-----------------------------------------------------------------------------
LEMMA InitInv ==
  ASSUME ZooAssumption, Init
  PROVE  Inv
BY DEF ZooAssumption, Init, Inv, TypeOK, GatesApart, MonitorHeld, EarlierGatesLeft,
       ReadingStands, Inside

(***************************************************************************)
(* Where Inside comes from keeps two gates apart.                           *)
(***************************************************************************)
LEMMA ApartWhileInside ==
  ASSUME ZooAssumption, Inv, NEW g \in 1 .. Gates, NEW h \in 1 .. Gates,
         Enter(g), Inside(h)
  PROVE  FALSE
<1>1. CASE Locked
  <2>1. monitor = {h} /\ monitor = {}
    BY <1>1 DEF Inv, MonitorHeld, Enter
  <2> QED
    BY <2>1
<1>2. CASE OneByOne
  <2>1. g <= started /\ h <= started /\ pc[g] = "enter" /\ pc[h] \in {"loop", "write"}
    BY DEF Enter, Inside, Inv, TypeOK
  <2>2. g = started /\ h = started
    BY <1>2, <2>1 DEF Inv, TypeOK, EarlierGatesLeft, ZooAssumption
  <2> QED
    BY <2>1, <2>2
<1> QED
  BY <1>1, <1>2 DEF ZooAssumption

(***************************************************************************)
(* Each action keeps the invariant.                                         *)
(***************************************************************************)
LEMMA StartInv ==
  ASSUME ZooAssumption, Inv, Start
  PROVE  Inv'
<1>1. TypeOK'
  BY DEF Inv, TypeOK, Start, ZooAssumption
<1>2. GatesApart' /\ MonitorHeld' /\ ReadingStands'
  BY DEF Inv, Start, GatesApart, MonitorHeld, ReadingStands, Inside
<1>3. EarlierGatesLeft'
  BY DEF Inv, TypeOK, Start, EarlierGatesLeft
<1> QED
  BY <1>1, <1>2, <1>3 DEF Inv

LEMMA EnterInv ==
  ASSUME ZooAssumption, Inv, NEW g \in 1 .. Gates, Enter(g)
  PROVE  Inv'
<1> USE DEF Inv, TypeOK, Enter
<1>1. TypeOK'
  OBVIOUS
<1>2. \A h \in 1 .. Gates : Inside(h)' => h = g
  BY ApartWhileInside DEF Inside
<1>3. GatesApart' /\ MonitorHeld'
  BY <1>2 DEF GatesApart, MonitorHeld, Inside
<1>4. EarlierGatesLeft'
  BY DEF EarlierGatesLeft, ZooAssumption
<1>5. ReadingStands'
  BY DEF ReadingStands
<1> QED
  BY <1>1, <1>3, <1>4, <1>5

LEMMA ReadCountInv ==
  ASSUME ZooAssumption, Inv, NEW g \in 1 .. Gates, ReadCount(g)
  PROVE  Inv'
<1> USE DEF Inv, TypeOK, ReadCount
<1>1. TypeOK'
  OBVIOUS
<1>2. GatesApart' /\ MonitorHeld'
  BY DEF GatesApart, MonitorHeld, Inside
<1>3. EarlierGatesLeft'
  BY DEF EarlierGatesLeft, ZooAssumption
<1>4. ReadingStands'
  BY DEF ReadingStands
<1> QED
  BY <1>1, <1>2, <1>3, <1>4

LEMMA WriteCountInv ==
  ASSUME ZooAssumption, Inv, NEW g \in 1 .. Gates, WriteCount(g)
  PROVE  Inv'
<1> USE DEF Inv, TypeOK, WriteCount
<1>1. TypeOK'
  OBVIOUS
<1>2. GatesApart' /\ MonitorHeld'
  BY DEF GatesApart, MonitorHeld, Inside
<1>3. EarlierGatesLeft'
  BY DEF EarlierGatesLeft, ZooAssumption
<1>4. ReadingStands'
  BY DEF ReadingStands, GatesApart, Inside
<1> QED
  BY <1>1, <1>2, <1>3, <1>4

LEMMA ExitInv ==
  ASSUME ZooAssumption, Inv, NEW g \in 1 .. Gates, Exit(g)
  PROVE  Inv'
<1> USE DEF Inv, TypeOK, Exit
<1>1. TypeOK'
  OBVIOUS
<1>2. GatesApart' /\ MonitorHeld'
  BY DEF GatesApart, MonitorHeld, Inside
<1>3. EarlierGatesLeft'
  BY DEF EarlierGatesLeft, ZooAssumption
<1>4. ReadingStands'
  BY DEF ReadingStands
<1> QED
  BY <1>1, <1>2, <1>3, <1>4

LEMMA NextInv ==
  ASSUME ZooAssumption, Inv, [Next]_vars
  PROVE  Inv'
<1>1. CASE Start
  BY <1>1, StartInv
<1>2. ASSUME NEW g \in 1 .. Gates, Gate(g)
      PROVE  Inv'
  BY <1>2, EnterInv, ReadCountInv, WriteCountInv, ExitInv DEF Gate
<1>3. CASE UNCHANGED vars
  BY <1>3 DEF vars, Inv, TypeOK, GatesApart, MonitorHeld, EarlierGatesLeft,
              ReadingStands, Inside
<1> QED
  BY <1>1, <1>2, <1>3 DEF Next

(***************************************************************************)
(* What a step does to the counter.                                         *)
(***************************************************************************)
LEMMA StepCountsOnce ==
  ASSUME Inv, [Next]_vars
  PROVE  [CountedOnce]_vars
<1>1. CASE Start
  BY <1>1 DEF Start, CountedOnce
<1>2. ASSUME NEW g \in 1 .. Gates, WriteCount(g)
      PROVE  CountedOnce
  <2>1. register[g] = count
    BY <1>2 DEF Inv, ReadingStands, WriteCount
  <2>2. passed \in [1 .. Gates -> Nat]
    BY DEF Inv, TypeOK
  <2> QED
    BY <1>2, <2>1, <2>2 DEF WriteCount, CountedOnce
<1>3. ASSUME NEW g \in 1 .. Gates, Enter(g) \/ ReadCount(g) \/ Exit(g)
      PROVE  CountedOnce
  BY <1>3 DEF Enter, ReadCount, Exit, CountedOnce
<1> QED
  BY <1>1, <1>2, <1>3 DEF Next, Gate

-----------------------------------------------------------------------------
\* The inductive invariant holds in every state of the zoo (Gate.run under main's
\* join or the counter's monitor).
THEOREM Invariance ==
  ASSUME ZooAssumption
  PROVE  Spec => []Inv
<1>1. Init => Inv
  BY InitInv
<1>2. Inv /\ [Next]_vars => Inv'
  BY NextInv
<1> QED
  BY <1>1, <1>2, PTL DEF Spec

\* Two gates are never between reading and writing the counter together.
THEOREM GatesStayApart ==
  ASSUME ZooAssumption
  PROVE  Spec => []GatesApart
<1>1. Inv => GatesApart
  BY DEF Inv
<1> QED
  BY <1>1, Invariance, PTL

\* Every guest who passes a gate is one more on the counter, for any number of
\* gates and guests and both ways of keeping the gates apart (count++ in Gate.run).
THEOREM GuestsAreCounted ==
  ASSUME ZooAssumption
  PROVE  Spec => EveryGuestCounted
<1>1. Inv /\ [Next]_vars => [CountedOnce]_vars
  BY StepCountsOnce
<1> QED
  BY <1>1, Invariance, PTL DEF Spec, EveryGuestCounted
===============================================================================
