--------------------------------- MODULE Seats ---------------------------------
(***************************************************************************)
(* The philosophers' seats of lab8 (seatType1.java, seatType2.java,         *)
(* Factory.java).  All seats but the last are of the first type and ask for *)
(* the left fork first, the last is of the second type and asks for the     *)
(* right one first.  A fork is a ReentrantLock.                             *)
(*                                                                         *)
(* The table, which assigns to seat s the forks s and s + 1, and the         *)
(* philosophers, who ask for both forks, eat and put them down, are of the  *)
(* lab's library and external.                                              *)
(***************************************************************************)
EXTENDS Integers

CONSTANTS SeatCount   \* seats at the table (5)

\* What is assumed of the constants.
SeatsAssumption == SeatCount \in Nat \ {0, 1}

Seats == 1 .. SeatCount

VARIABLES
  holder,  \* who holds each fork, 0 for nobody
  asked    \* forks each seat has been given

vars == <<holder, asked>>

leftFork(s) == s
rightFork(s) == (s % SeatCount) + 1

\* Wrong on purpose: every seat is of the first type.
FirstForkLeft(s) == leftFork(s)

\* askFork1 of the two types, and askFork2.
FirstFork(s) == IF s < SeatCount THEN leftFork(s) ELSE rightFork(s)

SecondFork(s) == IF s < SeatCount THEN rightFork(s) ELSE leftFork(s)

Init ==
  /\ holder = [f \in Seats |-> 0]
  /\ asked = [s \in Seats |-> 0]

AskFork1(s) ==
  /\ asked[s] = 0
  /\ holder[FirstFork(s)] = 0
  /\ holder' = [holder EXCEPT ![FirstFork(s)] = s]
  /\ asked' = [asked EXCEPT ![s] = 1]

AskFork2(s) ==
  /\ asked[s] = 1
  /\ holder[SecondFork(s)] = 0
  /\ holder' = [holder EXCEPT ![SecondFork(s)] = s]
  /\ asked' = [asked EXCEPT ![s] = 2]

PutDown(s) ==
  /\ asked[s] = 2
  /\ holder' = [f \in Seats |-> IF holder[f] = s THEN 0 ELSE holder[f]]
  /\ asked' = [asked EXCEPT ![s] = 0]

Philosopher(s) == AskFork1(s) \/ AskFork2(s) \/ PutDown(s)

Next == \E s \in Seats : Philosopher(s)

Spec == Init /\ [][Next]_vars

\* A thread that can go on does; nothing is said of who gets a fork two ask for.
FairSpec == Spec /\ \A s \in Seats : WF_vars(Philosopher(s))

\* Types; the holder of a fork is one of its two neighbours.
TypeOK ==
  /\ holder \in [Seats -> {0} \cup Seats]
  /\ asked \in [Seats -> 0 .. 2]
  /\ \A f \in Seats : holder[f] # 0 => f \in {leftFork(holder[f]), rightFork(holder[f])}

\* Somebody always gets to eat: it never comes to where every seat holds one fork
\* (SynchronisationQ3Test: "All philosopher have taken a fork. You have produced a
\* deadlock").
Eating == \E s \in Seats : asked[s] = 2

SomebodyEats == []<>Eating
===============================================================================
