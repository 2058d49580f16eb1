------------------------------ MODULE CyclicQueue ------------------------------
(***************************************************************************)
(* The cyclic queue of lab7, lab8 and lab8-2 (CyclicQueue.java), used by    *)
(* one thread: an array, where the next number goes and where the oldest    *)
(* one is, and a flag that tells a full queue from an empty one.            *)
(***************************************************************************)
EXTENDS Integers, Sequences

CONSTANTS
  Numbers,   \* what may be put in; 0, what a new array holds, among them
  Capacity   \* slots of the array

\* What is assumed of the constants.
CyclicQueueAssumption ==
  /\ Capacity \in Nat \ {0}
  /\ 0 \in Numbers

VARIABLES queue, head, tail, isFull, outcome

vars == <<queue, head, tail, isFull, outcome>>

Slots == 0 .. Capacity - 1

isEmpty == head = tail /\ ~isFull

(***************************************************************************)
(* The queue as a sequence.                                                 *)
(***************************************************************************)
Count == IF isFull THEN Capacity
         ELSE IF head <= tail THEN tail - head ELSE tail - head + Capacity

Slot(i) == IF head + i - 1 < Capacity THEN head + i - 1 ELSE head + i - 1 - Capacity

Held == [i \in 1 .. Count |-> queue[Slot(i)]]

Fifo == INSTANCE NumberQueue WITH held <- Held

Init ==
  /\ queue = [s \in Slots |-> 0]
  /\ head = 0 /\ tail = 0 /\ isFull = FALSE
  /\ outcome = Fifo!Fresh

\* Wrong on purpose: the flag is not set.
EnqueueFlagless(i) ==
  /\ ~isFull
  /\ queue' = [queue EXCEPT ![tail] = i]
  /\ tail' = (tail + 1) % Capacity
  /\ outcome' = Fifo!Fine
  /\ UNCHANGED <<head, isFull>>

Enqueue(i) ==
  /\ ~isFull
  /\ queue' = [queue EXCEPT ![tail] = i]
  /\ tail' = (tail + 1) % Capacity
  /\ isFull' = (head = tail')
  /\ outcome' = Fifo!Fine
  /\ UNCHANGED head

Dequeue ==
  /\ ~isEmpty
  /\ outcome' = Fifo!Returned(queue[head])
  /\ head' = (head + 1) % Capacity
  /\ isFull' = FALSE
  /\ UNCHANGED <<queue, tail>>

Refuse ==
  \/ /\ isFull /\ outcome' = Fifo!Refused("enqueue")
     /\ UNCHANGED <<queue, head, tail, isFull>>
  \/ /\ isEmpty /\ outcome' = Fifo!Refused("dequeue")
     /\ UNCHANGED <<queue, head, tail, isFull>>

Next == (\E i \in Numbers : Enqueue(i)) \/ Dequeue \/ Refuse

Spec == Init /\ [][Next]_vars

\* Types; a full queue has its ends at the same slot.
TypeOK ==
  /\ queue \in [Slots -> Numbers]
  /\ head \in Slots /\ tail \in Slots
  /\ isFull \in BOOLEAN
  /\ isFull => head = tail

\* The queue gives back what was put in, oldest first, all the way round the
\* array, and refuses what QueueTest expects it to.
ImplementsFifo == Fifo!QueueSpec
===============================================================================
