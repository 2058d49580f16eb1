--------------------------- MODULE CyclicQueueProofs ---------------------------
(***************************************************************************)
(* The cyclic queue implements NumberQueue for any capacity and numbers.    *)
(* With head, tail and the flag of a state in which a full queue has its    *)
(* ends at one slot, the slots from head on, Count of them and round the    *)
(* array, are different, and tail is the next one.                          *)
(***************************************************************************)
EXTENDS CyclicQueue, SequenceTheorems, TLAPS

Successor(s) == IF s + 1 = Capacity THEN 0 ELSE s + 1

LEMMA ModIsSuccessor ==
  ASSUME CyclicQueueAssumption, NEW s \in Slots
  PROVE  (s + 1) % Capacity = Successor(s) /\ Successor(s) \in Slots
BY DEF CyclicQueueAssumption, Slots, Successor

LEMMA CountBounds ==
  ASSUME CyclicQueueAssumption, TypeOK
  PROVE  /\ Count \in 0 .. Capacity
         /\ Count = 0 <=> isEmpty
         /\ Count = Capacity <=> isFull
BY DEF CyclicQueueAssumption, TypeOK, Count, Slots, isEmpty

LEMMA SlotIsSlot ==
  ASSUME CyclicQueueAssumption, TypeOK, NEW i \in 1 .. Capacity
  PROVE  /\ Slot(i) \in Slots
         /\ i <= Count => (Slot(i) = tail => i = 1 /\ isFull)
         /\ i = Count + 1 => Slot(i) = tail
         /\ i = 1 => Slot(i) = head
BY DEF CyclicQueueAssumption, TypeOK, Slots, Slot, Count

LEMMA HeldIsSeq ==
  ASSUME CyclicQueueAssumption, TypeOK
  PROVE  /\ Held \in Seq(Numbers)
         /\ Len(Held) = Count
         /\ \A i \in 1 .. Count : Held[i] = queue[Slot(i)]
<1>1. Count \in Nat /\ Count <= Capacity
  BY CountBounds DEF CyclicQueueAssumption
<1>2. \A i \in 1 .. Count : Slot(i) \in Slots
  BY <1>1, SlotIsSlot DEF CyclicQueueAssumption
<1>3. Held \in [1 .. Count -> Numbers]
  BY <1>2 DEF Held, TypeOK
<1> QED
  BY <1>1, <1>3 DEF Held

-----------------------------------------------------------------------------
LEMMA InitType ==
  ASSUME CyclicQueueAssumption, Init
  PROVE  TypeOK
<1>1. 0 \in Slots
  BY DEF CyclicQueueAssumption, Slots
<1>2. queue \in [Slots -> Numbers]
  BY DEF CyclicQueueAssumption, Init
<1>3. ~isFull /\ isFull \in BOOLEAN
  BY DEF Init
<1> QED
  BY <1>1, <1>2, <1>3 DEF Init, TypeOK

LEMMA NextType ==
  ASSUME CyclicQueueAssumption, TypeOK, [Next]_vars
  PROVE  TypeOK'
<1> USE DEF TypeOK
<1>1. ASSUME NEW i \in Numbers, Enqueue(i)
      PROVE  TypeOK'
  BY <1>1, ModIsSuccessor DEF Enqueue
<1>2. CASE Dequeue
  BY <1>2, ModIsSuccessor DEF Dequeue
<1>3. CASE Refuse
  BY <1>3 DEF Refuse
<1>4. CASE UNCHANGED vars
  BY <1>4 DEF vars
<1> QED
  BY <1>1, <1>2, <1>3, <1>4 DEF Next

-----------------------------------------------------------------------------
(***************************************************************************)
(* The steps.                                                               *)
(***************************************************************************)
LEMMA EnqueuePuts ==
  ASSUME CyclicQueueAssumption, TypeOK, NEW i \in Numbers, Enqueue(i)
  PROVE  Fifo!Put(i)
<1>1. TypeOK'
  BY NextType DEF Next
<1>2. PICK n \in 0 .. Capacity : n = Count
  BY CountBounds
<1>3. Capacity \in Nat /\ n < Capacity
  BY <1>2, CountBounds DEF Enqueue, CyclicQueueAssumption
<1>4. tail' = Successor(tail) /\ head' = head /\ ~isFull
  BY ModIsSuccessor DEF Enqueue, TypeOK
<1>5. isFull' <=> head = tail'
  BY DEF Enqueue
<1>6. Count' = n + 1
  BY <1>1, <1>2, <1>4, <1>5
  DEF CyclicQueueAssumption, TypeOK, Count, Slots, Successor
<1>7. \A k \in 1 .. Capacity : Slot(k)' = Slot(k)
  BY <1>4 DEF Slot
<1>8. \A k \in 1 .. n : Slot(k) \in Slots \ {tail}
  BY <1>2, <1>3, <1>4, SlotIsSlot
<1>9. Slot(n + 1) = tail
  BY <1>2, <1>3, SlotIsSlot
<1>10. \A s \in Slots : queue'[s] = IF s = tail THEN i ELSE queue[s]
  BY DEF Enqueue, TypeOK
<1>11. /\ Held' \in Seq(Numbers) /\ Len(Held') = n + 1
       /\ \A k \in 1 .. n + 1 : Held'[k] = queue'[Slot(k)]
  <2>1. Held' = [k \in 1 .. n + 1 |-> queue'[Slot(k)]]
    BY <1>3, <1>6, <1>7 DEF Held
  <2>2. \A k \in 1 .. n + 1 : Slot(k) \in Slots
    BY <1>3, SlotIsSlot
  <2>3. queue' \in [Slots -> Numbers]
    BY <1>1 DEF TypeOK
  <2> QED
    BY <2>1, <2>2, <2>3
<1>12. /\ Held \in Seq(Numbers) /\ Len(Held) = n
       /\ \A k \in 1 .. n : Held[k] = queue[Slot(k)]
  BY <1>2, HeldIsSeq
<1>13. /\ Append(Held, i) \in Seq(Numbers) /\ Len(Append(Held, i)) = n + 1
       /\ \A k \in 1 .. n : Append(Held, i)[k] = Held[k]
       /\ Append(Held, i)[n + 1] = i
  BY <1>3, <1>12
<1>14. \A k \in 1 .. n + 1 : Held'[k] = Append(Held, i)[k]
  <2>1. Held'[n + 1] = i
    BY <1>3, <1>9, <1>10, <1>11 DEF TypeOK
  <2>2. \A k \in 1 .. n : Held'[k] = Held[k]
    BY <1>3, <1>8, <1>10, <1>11, <1>12
  <2> QED
    BY <1>3, <1>13, <2>1, <2>2
<1>15. Held' = Append(Held, i)
  BY <1>11, <1>13, <1>14, SeqEqual
<1> QED
  BY <1>3, <1>12, <1>15 DEF Fifo!Put, Enqueue

LEMMA DequeueTakes ==
  ASSUME CyclicQueueAssumption, TypeOK, Dequeue
  PROVE  Fifo!Take
<1>1. TypeOK'
  BY NextType DEF Next
<1>2. PICK n \in 0 .. Capacity : n = Count
  BY CountBounds
<1>3. Capacity \in Nat /\ n # 0
  BY <1>2, CountBounds DEF Dequeue, CyclicQueueAssumption
<1>4. head' = Successor(head) /\ tail' = tail /\ ~isFull' /\ queue' = queue
  BY ModIsSuccessor DEF Dequeue, TypeOK
<1>5. Count' = n - 1
  BY <1>1, <1>2, <1>3, <1>4
  DEF CyclicQueueAssumption, TypeOK, Count, Slots, Successor
<1>6. \A k \in 1 .. Capacity - 1 : Slot(k)' = Slot(k + 1)
  BY <1>3, <1>4 DEF Slot, Successor, TypeOK, Slots
<1>7. /\ Held' \in Seq(Numbers) /\ Len(Held') = n - 1
      /\ \A k \in 1 .. n - 1 : Held'[k] = queue[Slot(k + 1)]
  <2>1. Held' = [k \in 1 .. n - 1 |-> queue[Slot(k + 1)]]
    BY <1>3, <1>4, <1>5, <1>6 DEF Held
  <2>2. \A k \in 1 .. n - 1 : Slot(k + 1) \in Slots
    BY <1>3, SlotIsSlot
  <2>3. n - 1 \in Nat /\ queue \in [Slots -> Numbers]
    BY <1>3 DEF TypeOK
  <2> QED
    BY <2>1, <2>2, <2>3
<1>8. /\ Held \in Seq(Numbers) /\ Len(Held) = n
      /\ \A k \in 1 .. n : Held[k] = queue[Slot(k)]
  BY <1>2, HeldIsSeq
<1>9. Held # <<>> /\ Head(Held) = queue[head]
  BY <1>3, <1>8, SlotIsSlot
<1>10. /\ Tail(Held) \in Seq(Numbers) /\ Len(Tail(Held)) = n - 1
       /\ \A k \in 1 .. n - 1 : Tail(Held)[k] = Held[k + 1]
  BY <1>3, <1>8, <1>9, HeadTailProperties
<1>11. Held' = Tail(Held)
  <2>1. \A k \in 1 .. n - 1 : Held'[k] = Tail(Held)[k]
    BY <1>3, <1>7, <1>8, <1>10
  <2> QED
    BY <1>7, <1>10, <2>1, SeqEqual
<1> QED
  BY <1>9, <1>11 DEF Fifo!Take, Dequeue

LEMMA RefuseRefuses ==
  ASSUME CyclicQueueAssumption, TypeOK, Refuse
  PROVE  Fifo!RefusePut \/ Fifo!RefuseTake
<1>1. Held' = Held
  BY DEF Refuse, Held, Count, Slot
<1>2. Len(Held) = Count /\ (Len(Held) = 0 => Held = <<>>)
  BY HeldIsSeq, EmptySeq
<1> QED
  BY <1>1, <1>2, CountBounds DEF Refuse, Fifo!RefusePut, Fifo!RefuseTake

LEMMA StepImplements ==
  ASSUME CyclicQueueAssumption, TypeOK, [Next]_vars
  PROVE  [Fifo!QueueNext]_(Fifo!queueVars)
<1>1. ASSUME NEW i \in Numbers, Enqueue(i)
      PROVE  Fifo!QueueNext
  BY <1>1, EnqueuePuts DEF Fifo!QueueNext
<1>2. CASE Dequeue
  BY <1>2, DequeueTakes DEF Fifo!QueueNext
<1>3. CASE Refuse
  BY <1>3, RefuseRefuses DEF Fifo!QueueNext
<1>4. CASE UNCHANGED vars
  BY <1>4 DEF vars, Fifo!queueVars, Held, Count, Slot
<1> QED
  BY <1>1, <1>2, <1>3, <1>4 DEF Next

LEMMA InitImplements ==
  ASSUME CyclicQueueAssumption, Init
  PROVE  Fifo!QueueInit
<1>1. TypeOK /\ isEmpty
  BY InitType DEF Init, isEmpty
<1>2. Held = <<>>
  BY <1>1, HeldIsSeq, CountBounds, EmptySeq
<1> QED
  BY <1>2 DEF Init, Fifo!QueueInit

-----------------------------------------------------------------------------
\* The indices stay inside the array and the flag is set only on a queue whose
\* ends have met (CyclicQueue.enqueue, dequeue).
THEOREM TypeCorrect ==
  ASSUME CyclicQueueAssumption
  PROVE  Spec => []TypeOK
<1>1. Init => TypeOK
  BY InitType
<1>2. TypeOK /\ [Next]_vars => TypeOK'
  BY NextType
<1> QED
  BY <1>1, <1>2, PTL DEF Spec

\* The cyclic queue implements NumberQueue, for any capacity and any numbers: what
\* went in comes out, oldest first, and only a full or an empty queue refuses
\* (CyclicQueue.enqueue, dequeue).
THEOREM QueueImplementsFifo ==
  ASSUME CyclicQueueAssumption
  PROVE  Spec => ImplementsFifo
<1>1. Init => Fifo!QueueInit
  BY InitImplements
<1>2. TypeOK /\ [Next]_vars => [Fifo!QueueNext]_(Fifo!queueVars)
  BY StepImplements
<1> QED
  BY <1>1, <1>2, TypeCorrect, PTL DEF Spec, ImplementsFifo, Fifo!QueueSpec
===============================================================================
