---------------------------------- MODULE Zoo ----------------------------------
(***************************************************************************)
(* The zoo of lab7 and lab8 (Zoo.java, Gate.java, Counter.java): every gate *)
(* is a thread that counts its guests on one counter they all share.        *)
(*                                                                         *)
(* count++ is a read and a write.  The two labs keep the gates apart in     *)
(* different ways: lab7's main joins a gate before it starts the next, and  *)
(* lab8 starts them all and has each hold the counter's monitor while its   *)
(* guests pass.                                                             *)
(***************************************************************************)
EXTENDS Integers

CONSTANTS
  Gates,     \* number of gates
  Guests,    \* Guests[g]: guests of gate g (guestsNo)
  OneByOne,  \* main joins each gate before it starts the next (lab7)
  Locked     \* run is synchronized on the counter (lab8)

\* What is assumed of the constants.
ZooAssumption ==
  /\ Gates \in Nat
  /\ Guests \in [1 .. Gates -> Nat]
  /\ OneByOne \in BOOLEAN /\ Locked \in BOOLEAN
  /\ OneByOne \/ Locked

VARIABLES
  started,   \* gates main has started
  pc,        \* enter, loop, write or left
  passed,    \* guests each gate has counted
  register,  \* what count++ has read
  count,
  monitor    \* the gates inside synchronized (counter)

vars == <<started, pc, passed, register, count, monitor>>

Init ==
  /\ started = 0
  /\ pc = [g \in 1 .. Gates |-> "enter"]
  /\ passed = [g \in 1 .. Gates |-> 0]
  /\ register = [g \in 1 .. Gates |-> 0]
  /\ count = 0
  /\ monitor = {}

\* Wrong on purpose: lab7 without join.
StartUnjoined ==
  /\ started < Gates
  /\ started' = started + 1
  /\ UNCHANGED <<pc, passed, register, count, monitor>>

\* main
Start ==
  /\ started < Gates
  /\ OneByOne => \A g \in 1 .. started : pc[g] = "left"
  /\ started' = started + 1
  /\ UNCHANGED <<pc, passed, register, count, monitor>>

Enter(g) ==
  /\ g <= started
  /\ pc[g] = "enter"
  /\ Locked => monitor = {}
  /\ monitor' = IF Locked THEN {g} ELSE monitor
  /\ pc' = [pc EXCEPT ![g] = "loop"]
  /\ UNCHANGED <<started, passed, register, count>>

ReadCount(g) ==
  /\ pc[g] = "loop" /\ passed[g] < Guests[g]
  /\ register' = [register EXCEPT ![g] = count]
  /\ pc' = [pc EXCEPT ![g] = "write"]
  /\ UNCHANGED <<started, passed, count, monitor>>

WriteCount(g) ==
  /\ pc[g] = "write"
  /\ count' = register[g] + 1
  /\ passed' = [passed EXCEPT ![g] = @ + 1]
  /\ pc' = [pc EXCEPT ![g] = "loop"]
  /\ UNCHANGED <<started, register, monitor>>

Exit(g) ==
  /\ pc[g] = "loop" /\ passed[g] = Guests[g]
  /\ monitor' = monitor \ {g}
  /\ pc' = [pc EXCEPT ![g] = "left"]
  /\ UNCHANGED <<started, passed, register, count>>

Gate(g) == Enter(g) \/ ReadCount(g) \/ WriteCount(g) \/ Exit(g)

Next == Start \/ \E g \in 1 .. Gates : Gate(g)

Spec == Init /\ [][Next]_vars

Inside(g) == pc[g] \in {"loop", "write"}

\* Types; a gate is inside only after it was started.
TypeOK ==
  /\ started \in 0 .. Gates
  /\ pc \in [1 .. Gates -> {"enter", "loop", "write", "left"}]
  /\ passed \in [1 .. Gates -> Nat]
  /\ register \in [1 .. Gates -> Nat]
  /\ count \in Nat
  /\ monitor \subseteq 1 .. Gates
  /\ \A g \in 1 .. Gates : pc[g] # "enter" => g <= started

\* No guest is lost or counted twice: a guest more that has passed a gate is one
\* more on the counter, whatever the other gates do meanwhile.
CountedOnce ==
  \A g \in 1 .. Gates :
    passed'[g] # passed[g] => passed'[g] = passed[g] + 1 /\ count' = count + 1

EveryGuestCounted == [][CountedOnce]_vars

\* Two gates are never at the counter together.
GatesApart ==
  \A g, h \in 1 .. Gates : Inside(g) /\ Inside(h) => g = h
===============================================================================
