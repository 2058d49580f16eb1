------------------------------ MODULE BeltProofs ------------------------------
(***************************************************************************)
(* The belt's locks for any number of threads, any capacity and any number  *)
(* of interrupts.  The inductive invariant adds to the types who holds the  *)
(* locks and who sleeps: a thread is between two labels of its critical     *)
(* section exactly when it holds its lock, one thread holds a lock, and the *)
(* wait set is the sleepers.  Then an index is outside the array only while *)
(* the one holder of its lock is about to wrap it.                          *)
(*                                                                         *)
(* StoreInv goes on to what is stored before the first dequeue: the unread  *)
(* slots are the first ones, one for each number whose writer is past its   *)
(* write, and the index says where the next one goes.                       *)
(***************************************************************************)
EXTENDS Belt, FiniteSetTheorems, TLAPS

InEnqueue == ProducerLabels \ {"idle", "notify", "done"}
InDequeue == ConsumerLabels \ {"idle", "notify", "done"}

LocksHeld ==
  /\ \A p \in Producers : p \in enqueueLock <=> pc[p] \in InEnqueue
  /\ \A c \in Consumers : c \in dequeueLock <=> pc[c] \in InDequeue
  /\ \A p, q \in enqueueLock : p = q
  /\ \A c, d \in dequeueLock : c = d

Sleepers == waitSet = {t \in Threads : At(t, "asleep")}

IndicesWrapped ==
  /\ tail \in Slots \/ \E p \in Producers : At(p, "mod")
  /\ head \in Slots \/ \E c \in Consumers : At(c, "mod")
  /\ \A p \in Producers : At(p, "inc") => tail \in Slots
  /\ \A c \in Consumers : At(c, "inc") => head \in Slots

Inv == TypeOK /\ LocksHeld /\ Sleepers /\ IndicesWrapped

-----------------------------------------------------------------------------
(***************************************************************************)
(* Wrapping an index puts it back into the array.                           *)
(***************************************************************************)
LEMMA WrapIsSlot ==
  ASSUME NEW i \in 0 .. Capacity
  PROVE  i % Capacity \in Slots
BY BeltAssumption DEF BeltAssumption, Slots

(***************************************************************************)
(* The initial state satisfies the invariant.                               *)
(***************************************************************************)
LEMMA InitInv == Init => Inv
<1> SUFFICES ASSUME Init PROVE Inv
  OBVIOUS
<1> USE BeltAssumption DEF BeltAssumption
<1>1. Initially \in 0 .. Capacity /\ 0 \in Slots /\ 0 .. Initially - 1 \subseteq Slots
  BY DEF Slots
<1>2. tail \in Slots
  BY <1>1, WrapIsSlot DEF Init
<1>3. TypeOK
  BY <1>1, <1>2 DEF Init, TypeOK, Threads, Slots, ProducerLabels, ConsumerLabels
<1>4. LocksHeld
  BY DEF Init, LocksHeld, Threads, InEnqueue, InDequeue, ProducerLabels, ConsumerLabels
<1>5. Sleepers
  BY DEF Init, Sleepers, At, Threads
<1>6. IndicesWrapped
  BY <1>1, <1>2 DEF Init, IndicesWrapped, At, Threads
<1> QED
  BY <1>3, <1>4, <1>5, <1>6 DEF Inv

(***************************************************************************)
(* What the invariant says of a thread about to use its index: nobody else  *)
(* of its side is between the increment and the wrap.                       *)
(***************************************************************************)
LEMMA InvIsInBounds == Inv => IndicesInBounds
BY DEF Inv, LocksHeld, IndicesWrapped, IndicesInBounds, At, InEnqueue,
       InDequeue, ProducerLabels, ConsumerLabels

LEMMA InvIsAlone == Inv => AloneWhenWoken
BY DEF Inv, TypeOK, LocksHeld, AloneWhenWoken, InEnqueue, InDequeue,
       ProducerLabels, ConsumerLabels

-----------------------------------------------------------------------------
(***************************************************************************)
(* Every step of enqueue keeps the invariant.                               *)
(***************************************************************************)
LEMMA EnqueueInv ==
  ASSUME Inv, NEW p \in Producers, Enqueue(p)
  PROVE  Inv'
<1> USE BeltAssumption DEF BeltAssumption, Inv, Threads, Step, Goto, At
<1> USE DEF ProducerLabels, ConsumerLabels, fields, locks, flags
<1>0. IndicesInBounds
  BY InvIsInBounds
<1>1. CASE LockEnqueue(p)
  <2>1. TypeOK'
    BY <1>1 DEF LockEnqueue, TypeOK
  <2>2. LocksHeld'
    BY <1>1 DEF LockEnqueue, TypeOK, LocksHeld, InEnqueue, InDequeue
  <2>3. Sleepers'
    BY <1>1 DEF LockEnqueue, TypeOK, Sleepers
  <2>4. IndicesWrapped'
    BY <1>1 DEF LockEnqueue, TypeOK, IndicesWrapped, Slots
  <2> QED BY <2>1, <2>2, <2>3, <2>4
<1>2. CASE CheckFull(p)
  <2>1. TypeOK'
    BY <1>2 DEF CheckFull, TypeOK
  <2>2. LocksHeld'
    BY <1>2 DEF CheckFull, TypeOK, LocksHeld, InEnqueue, InDequeue
  <2>3. Sleepers'
    BY <1>2 DEF CheckFull, TypeOK, Sleepers
  <2>4. IndicesWrapped'
    BY <1>2 DEF CheckFull, TypeOK, IndicesWrapped, Slots
  <2> QED BY <2>1, <2>2, <2>3, <2>4
<1>3. CASE Write(p)
  <2>1. tail \in Slots
    BY <1>0, <1>3 DEF Write, IndicesInBounds
  <2>2. TypeOK'
    BY <1>3, <2>1 DEF Write, TypeOK
  <2>3. LocksHeld'
    BY <1>3 DEF Write, TypeOK, LocksHeld, InEnqueue, InDequeue
  <2>4. Sleepers'
    BY <1>3 DEF Write, TypeOK, Sleepers
  <2>5. IndicesWrapped'
    BY <1>3, <2>1 DEF Write, TypeOK, IndicesWrapped
  <2> QED BY <2>2, <2>3, <2>4, <2>5
<1>4. CASE IncTail(p)
  <2>1. tail \in Slots
    BY <1>4 DEF IncTail, IndicesWrapped
  <2>2. TypeOK'
    BY <1>4, <2>1 DEF IncTail, TypeOK, Slots
  <2>3. LocksHeld'
    BY <1>4 DEF IncTail, TypeOK, LocksHeld, InEnqueue, InDequeue
  <2>4. Sleepers'
    BY <1>4 DEF IncTail, TypeOK, Sleepers
  <2>5. IndicesWrapped'
    <3>1. \A q \in Producers : pc'[q] # "inc"
      BY <1>4 DEF IncTail, TypeOK, LocksHeld, InEnqueue
    <3>2. pc'[p] = "mod"
      BY <1>4 DEF IncTail, TypeOK
    <3> QED BY <1>4, <3>1, <3>2 DEF IncTail, TypeOK, IndicesWrapped
  <2> QED BY <2>2, <2>3, <2>4, <2>5
<1>5. CASE ModTail(p)
  <2>1. tail' \in Slots
    BY <1>5, WrapIsSlot DEF ModTail, TypeOK
  <2>2. TypeOK'
    BY <1>5, <2>1 DEF ModTail, TypeOK, Slots
  <2>3. LocksHeld'
    BY <1>5 DEF ModTail, TypeOK, LocksHeld, InEnqueue, InDequeue
  <2>4. Sleepers'
    BY <1>5 DEF ModTail, TypeOK, Sleepers
  <2>5. IndicesWrapped'
    BY <1>5, <2>1 DEF ModTail, TypeOK, IndicesWrapped
  <2> QED BY <2>2, <2>3, <2>4, <2>5
<1>6. CASE TestFull(p)
  <2>1. TypeOK'
    BY <1>6 DEF TestFull, TypeOK
  <2>2. LocksHeld'
    BY <1>6 DEF TestFull, TypeOK, LocksHeld, InEnqueue, InDequeue
  <2>3. Sleepers'
    BY <1>6 DEF TestFull, TypeOK, Sleepers
  <2>4. IndicesWrapped'
    BY <1>6 DEF TestFull, TypeOK, IndicesWrapped, Slots
  <2> QED BY <2>1, <2>2, <2>3, <2>4
<1>7. CASE SetFull(p)
  <2>1. TypeOK'
    BY <1>7 DEF SetFull, TypeOK
  <2>2. LocksHeld'
    BY <1>7 DEF SetFull, TypeOK, LocksHeld, InEnqueue, InDequeue
  <2>3. Sleepers'
    BY <1>7 DEF SetFull, TypeOK, Sleepers
  <2>4. IndicesWrapped'
    BY <1>7 DEF SetFull, TypeOK, IndicesWrapped, Slots
  <2> QED BY <2>1, <2>2, <2>3, <2>4
<1>8. CASE UnlockEnqueue(p)
  <2>1. TypeOK'
    BY <1>8 DEF UnlockEnqueue, TypeOK
  <2>2. LocksHeld'
    BY <1>8 DEF UnlockEnqueue, TypeOK, LocksHeld, InEnqueue, InDequeue
  <2>3. Sleepers'
    BY <1>8 DEF UnlockEnqueue, TypeOK, Sleepers
  <2>4. IndicesWrapped'
    BY <1>8 DEF UnlockEnqueue, TypeOK, IndicesWrapped, Slots
  <2> QED BY <2>1, <2>2, <2>3, <2>4
<1> QED
  BY <1>1, <1>2, <1>3, <1>4, <1>5, <1>6, <1>7, <1>8 DEF Enqueue

(***************************************************************************)
(* Every step of dequeue keeps the invariant.                               *)
(***************************************************************************)
LEMMA DequeueInv ==
  ASSUME Inv, NEW c \in Consumers, Dequeue(c)
  PROVE  Inv'
<1> USE BeltAssumption DEF BeltAssumption, Inv, Threads, Step, Goto, At
<1> USE DEF ProducerLabels, ConsumerLabels, fields, locks, flags
<1>1. CASE LockDequeue(c)
  <2>1. TypeOK'
    BY <1>1 DEF LockDequeue, TypeOK
  <2>2. LocksHeld'
    BY <1>1 DEF LockDequeue, TypeOK, LocksHeld, InEnqueue, InDequeue
  <2>3. Sleepers'
    BY <1>1 DEF LockDequeue, TypeOK, Sleepers
  <2>4. IndicesWrapped'
    BY <1>1 DEF LockDequeue, TypeOK, IndicesWrapped, Slots
  <2> QED BY <2>1, <2>2, <2>3, <2>4
<1>2. CASE CheckMet(c)
  <2>1. TypeOK'
    BY <1>2 DEF CheckMet, TypeOK
  <2>2. LocksHeld'
    BY <1>2 DEF CheckMet, TypeOK, LocksHeld, InEnqueue, InDequeue
  <2>3. Sleepers'
    BY <1>2 DEF CheckMet, TypeOK, Sleepers
  <2>4. IndicesWrapped'
    BY <1>2 DEF CheckMet, TypeOK, IndicesWrapped, Slots
  <2> QED BY <2>1, <2>2, <2>3, <2>4
<1>3. CASE CheckEmpty(c)
  <2>1. TypeOK'
    BY <1>3 DEF CheckEmpty, TypeOK
  <2>2. LocksHeld'
    BY <1>3 DEF CheckEmpty, TypeOK, LocksHeld, InEnqueue, InDequeue
  <2>3. Sleepers'
    BY <1>3 DEF CheckEmpty, TypeOK, Sleepers
  <2>4. IndicesWrapped'
    BY <1>3 DEF CheckEmpty, TypeOK, IndicesWrapped, Slots
  <2> QED BY <2>1, <2>2, <2>3, <2>4
<1>4. CASE Read(c)
  <2>1. head \in Slots
    BY <1>4, InvIsInBounds DEF Read, IndicesInBounds
  <2>2. TypeOK'
    BY <1>4 DEF Read, TypeOK
  <2>3. LocksHeld'
    BY <1>4 DEF Read, TypeOK, LocksHeld, InEnqueue, InDequeue
  <2>4. Sleepers'
    BY <1>4 DEF Read, TypeOK, Sleepers
  <2>5. IndicesWrapped'
    BY <1>4, <2>1 DEF Read, TypeOK, IndicesWrapped
  <2> QED BY <2>2, <2>3, <2>4, <2>5
<1>5. CASE IncHead(c)
  <2>1. head \in Slots
    BY <1>5 DEF IncHead, IndicesWrapped
  <2>2. TypeOK'
    BY <1>5, <2>1 DEF IncHead, TypeOK, Slots
  <2>3. LocksHeld'
    BY <1>5 DEF IncHead, TypeOK, LocksHeld, InEnqueue, InDequeue
  <2>4. Sleepers'
    BY <1>5 DEF IncHead, TypeOK, Sleepers
  <2>5. IndicesWrapped'
    <3>1. \A d \in Consumers : pc'[d] # "inc"
      BY <1>5 DEF IncHead, TypeOK, LocksHeld, InDequeue
    <3>2. pc'[c] = "mod"
      BY <1>5 DEF IncHead, TypeOK
    <3> QED BY <1>5, <3>1, <3>2 DEF IncHead, TypeOK, IndicesWrapped
  <2> QED BY <2>2, <2>3, <2>4, <2>5
<1>6. CASE ModHead(c)
  <2>1. head' \in Slots
    BY <1>6, WrapIsSlot DEF ModHead, TypeOK
  <2>2. TypeOK'
    BY <1>6, <2>1 DEF ModHead, TypeOK, Slots
  <2>3. LocksHeld'
    BY <1>6 DEF ModHead, TypeOK, LocksHeld, InEnqueue, InDequeue
  <2>4. Sleepers'
    BY <1>6 DEF ModHead, TypeOK, Sleepers
  <2>5. IndicesWrapped'
    BY <1>6, <2>1 DEF ModHead, TypeOK, IndicesWrapped
  <2> QED BY <2>2, <2>3, <2>4, <2>5
<1>7. CASE ClearFull(c)
  <2>1. TypeOK'
    BY <1>7 DEF ClearFull, TypeOK
  <2>2. LocksHeld'
    BY <1>7 DEF ClearFull, TypeOK, LocksHeld, InEnqueue, InDequeue
  <2>3. Sleepers'
    BY <1>7 DEF ClearFull, TypeOK, Sleepers
  <2>4. IndicesWrapped'
    BY <1>7 DEF ClearFull, TypeOK, IndicesWrapped, Slots
  <2> QED BY <2>1, <2>2, <2>3, <2>4
<1>8. CASE UnlockDequeue(c)
  <2>1. TypeOK'
    BY <1>8 DEF UnlockDequeue, TypeOK
  <2>2. LocksHeld'
    BY <1>8 DEF UnlockDequeue, TypeOK, LocksHeld, InEnqueue, InDequeue
  <2>3. Sleepers'
    BY <1>8 DEF UnlockDequeue, TypeOK, Sleepers
  <2>4. IndicesWrapped'
    BY <1>8 DEF UnlockDequeue, TypeOK, IndicesWrapped, Slots
  <2> QED BY <2>1, <2>2, <2>3, <2>4
<1> QED
  BY <1>1, <1>2, <1>3, <1>4, <1>5, <1>6, <1>7, <1>8 DEF Dequeue

(***************************************************************************)
(* Waiting, waking, leaving and being interrupted keep it: nobody gains or  *)
(* gives up a lock there.                                                   *)
(***************************************************************************)
LEMMA MonitorInv ==
  ASSUME Inv, NEW t \in Threads,
         Wait(t) \/ Notify(t) \/ Leave(t) \/ Interrupt(t)
  PROVE  Inv'
<1> USE BeltAssumption DEF BeltAssumption, Inv, Threads, Step, Goto, At
<1> USE DEF ProducerLabels, ConsumerLabels, fields, locks, flags, Resume
<1>1. CASE Wait(t)
  <2>1. TypeOK'
    BY <1>1 DEF Wait, TypeOK
  <2>2. LocksHeld'
    BY <1>1 DEF Wait, TypeOK, LocksHeld, InEnqueue, InDequeue
  <2>3. Sleepers'
    BY <1>1 DEF Wait, TypeOK, Sleepers
  <2>4. IndicesWrapped'
    BY <1>1 DEF Wait, TypeOK, IndicesWrapped, Slots
  <2> QED BY <2>1, <2>2, <2>3, <2>4
<1>2. CASE Notify(t)
  <2>1. TypeOK'
    BY <1>2 DEF Notify, TypeOK
  <2>2. LocksHeld'
    BY <1>2 DEF Notify, TypeOK, LocksHeld, Sleepers, InEnqueue, InDequeue
  <2>3. Sleepers'
    BY <1>2 DEF Notify, TypeOK, Sleepers
  <2>4. IndicesWrapped'
    BY <1>2 DEF Notify, TypeOK, IndicesWrapped, Sleepers, Slots
  <2> QED BY <2>1, <2>2, <2>3, <2>4
<1>3. CASE Leave(t)
  <2>1. TypeOK'
    BY <1>3 DEF Leave, TypeOK
  <2>2. LocksHeld'
    BY <1>3 DEF Leave, TypeOK, LocksHeld, InEnqueue, InDequeue
  <2>3. Sleepers'
    BY <1>3 DEF Leave, TypeOK, Sleepers
  <2>4. IndicesWrapped'
    BY <1>3 DEF Leave, TypeOK, IndicesWrapped, Slots
  <2> QED BY <2>1, <2>2, <2>3, <2>4
<1>4. CASE Interrupt(t)
  <2>1. TypeOK'
    BY <1>4 DEF Interrupt, TypeOK
  <2>2. LocksHeld'
    BY <1>4 DEF Interrupt, TypeOK, LocksHeld, Sleepers, InEnqueue, InDequeue
  <2>3. Sleepers'
    BY <1>4 DEF Interrupt, TypeOK, Sleepers
  <2>4. IndicesWrapped'
    BY <1>4 DEF Interrupt, TypeOK, IndicesWrapped, Sleepers, Slots
  <2> QED BY <2>1, <2>2, <2>3, <2>4
<1> QED BY <1>1, <1>2, <1>3, <1>4

-----------------------------------------------------------------------------
LEMMA NextInv == Inv /\ [Next]_vars => Inv'
<1> SUFFICES ASSUME Inv, [Next]_vars PROVE Inv'
  OBVIOUS
<1>1. CASE Next
  <2>1. PICK t \in Threads : Run(t) \/ Interrupt(t)
    BY <1>1 DEF Next
  <2>2. CASE t \in Producers /\ Enqueue(t)
    BY <2>2, EnqueueInv
  <2>3. CASE t \in Consumers /\ Dequeue(t)
    BY <2>3, DequeueInv
  <2>4. CASE Wait(t) \/ Notify(t) \/ Leave(t) \/ Interrupt(t)
    BY <2>4, MonitorInv
  <2> QED BY <2>1, <2>2, <2>3, <2>4 DEF Run
<1>2. CASE UNCHANGED vars
  BY <1>2 DEF vars, fields, locks, flags, Inv, TypeOK, LocksHeld, Sleepers,
              IndicesWrapped, At
<1> QED BY <1>1, <1>2

(***************************************************************************)
(* Every reachable state of the belt satisfies the inductive invariant.     *)
(***************************************************************************)
THEOREM BeltInvariance == Spec => []Inv
BY InitInv, NextInv, PTL DEF Spec

(***************************************************************************)
(* The variables of the belt keep their types.                              *)
(***************************************************************************)
THEOREM BeltTypeCorrect == Spec => []TypeOK
<1>1. Inv => TypeOK
  BY DEF Inv
<1> QED BY <1>1, BeltInvariance, PTL

(***************************************************************************)
(* No producer writes and no consumer reads outside the array, however many *)
(* threads run and whichever of them are interrupted (Belt.java: queue[tail]*)
(* and queue[head] under their locks).                                      *)
(***************************************************************************)
THEOREM NoIndexOutOfBounds == Spec => []IndicesInBounds
BY InvIsInBounds, BeltInvariance, PTL

(***************************************************************************)
(* A waiting thread keeps the rest of its side out of the belt              *)
(* (Belt.java: threadWait is called with the lock held).                    *)
(***************************************************************************)
THEOREM WaitersKeepTheirLock == Spec => []AloneWhenWoken
BY InvIsAlone, BeltInvariance, PTL

-----------------------------------------------------------------------------
(***************************************************************************)
(* The numbers on the belt before the first dequeue.  What is unread is the  *)
(* beginning of the array, one slot for each number whose writer is past    *)
(* its write; the index follows, but lags by one from the write to the      *)
(* increment, and stands outside the array until it is wrapped.             *)
(***************************************************************************)
NoneTaken == \A c \in Consumers : calls[c] = MaxCalls

\* A thread that has not made its first call is in its loop, or has left it.
NotYetCalled ==
  \A t \in Threads : calls[t] = MaxCalls => pc[t] \in {"idle", "done"}

Begun  == {k \in Producers \X (1 .. MaxCalls) : k[2] > calls[k[1]]}
Stored == Brought - Cardinality(Writing)

AtInc == \E p \in Producers : At(p, "inc")
AtMod == \E p \in Producers : At(p, "mod")

Filled ==
  Brought <= Capacity /\ NoneTaken =>
    /\ unread = 0 .. Stored - 1
    /\ tail = IF AtInc THEN Stored - 1
              ELSE IF AtMod THEN Stored ELSE Stored % Capacity

StoreInv == Inv /\ NotYetCalled /\ Filled

Counted ==
  /\ IsFiniteSet(Begun)
  /\ Brought = Initially + Cardinality(Begun)
  /\ Cardinality(Begun) \in Nat
  /\ Brought \in Nat

LEMMA BroughtCounts == Counted
<1> USE BeltAssumption DEF BeltAssumption
<1>1. IsFiniteSet(Producers \X (1 .. MaxCalls))
  <2>1. IsFiniteSet(Producers) /\ IsFiniteSet(1 .. MaxCalls)
    BY FiniteProducers, FS_Interval
  <2> QED
    BY <2>1, FS_Product
<1>2. IsFiniteSet(Begun)
  BY <1>1, FS_Subset DEF Begun
<1>3. Cardinality(Begun) \in Nat
  BY <1>2, FS_CardinalityType
<1>4. Brought = Initially + Cardinality(Begun)
  BY DEF Brought, Begun
<1> QED
  BY <1>2, <1>3, <1>4 DEF Counted

\* One producer writes at a time.
OneWrites ==
  /\ \A p \in Writing : Writing = {p} /\ Cardinality(Writing) = 1
  /\ Writing = {} => Cardinality(Writing) = 0
  /\ Cardinality(Writing) \in 0 .. 1

LEMMA OneWriter == Inv => OneWrites
<1> SUFFICES ASSUME Inv PROVE OneWrites
  OBVIOUS
<1>1. \A p \in Writing : p \in enqueueLock
  BY DEF Inv, LocksHeld, Writing, InEnqueue, ProducerLabels
<1>2. \A p, q \in Writing : p = q
  BY <1>1 DEF Inv, LocksHeld
<1>3. \A p \in Writing : Writing = {p}
  BY <1>2
<1>4. \A p \in Writing : Cardinality(Writing) = 1
  BY <1>3, FS_Singleton
<1>5. Writing = {} => Cardinality(Writing) = 0
  BY FS_EmptySet
<1> QED
  BY <1>3, <1>4, <1>5 DEF OneWrites

\* A step that moves no writer past its write, and no index, keeps what is stored.
LEMMA SameFilled ==
  ASSUME Filled, UNCHANGED <<unread, tail, calls>>, Writing' = Writing,
         AtInc' = AtInc, AtMod' = AtMod
  PROVE  Filled'
<1>1. Stored' = Stored /\ Brought' = Brought /\ NoneTaken' = NoneTaken
  BY DEF Stored, Brought, NoneTaken
<1> QED
  BY <1>1 DEF Filled

LEMMA InitStored == Init => NotYetCalled /\ Filled
<1> SUFFICES ASSUME Init PROVE NotYetCalled /\ Filled
  OBVIOUS
<1> USE BeltAssumption DEF BeltAssumption
<1>2. Begun = {}
  BY DEF Init, Begun, Threads
<1>3. Brought = Initially
  BY <1>2, BroughtCounts, FS_EmptySet DEF Counted
<1>4. Writing = {} /\ ~AtInc /\ ~AtMod
  BY DEF Init, Writing, AtInc, AtMod, At, Threads
<1>5. Stored = Initially
  BY <1>3, <1>4, FS_EmptySet DEF Stored
<1> QED
  BY <1>4, <1>5 DEF Init, Filled, NotYetCalled, Threads

LEMMA NotYetCalledInv ==
  ASSUME Inv, NotYetCalled, NEW t \in Threads, Run(t) \/ Interrupt(t)
  PROVE  NotYetCalled'
<1> USE BeltAssumption DEF BeltAssumption, Inv, TypeOK, Threads, Step, Goto, At, NotYetCalled
<1>1. CASE t \in Producers /\ LockEnqueue(t)
  BY <1>1 DEF LockEnqueue
<1>8. CASE t \in Producers /\ Enqueue(t) /\ ~LockEnqueue(t)
  BY <1>8 DEF Enqueue, CheckFull, Write, IncTail, ModTail, TestFull, SetFull,
     UnlockEnqueue
<1>2. CASE t \in Consumers /\ LockDequeue(t)
  BY <1>2 DEF LockDequeue
<1>3. CASE t \in Consumers /\ Dequeue(t) /\ ~LockDequeue(t)
  BY <1>3 DEF Dequeue, CheckMet, CheckEmpty, Read, IncHead, ModHead, ClearFull,
     UnlockDequeue
<1>4. CASE Wait(t)
  BY <1>4 DEF Wait
<1>5. CASE Notify(t)
  BY <1>5 DEF Notify, Sleepers
<1>6. CASE Leave(t)
  BY <1>6 DEF Leave
<1>7. CASE Interrupt(t)
  BY <1>7 DEF Interrupt, Sleepers
<1> QED
  BY <1>1, <1>2, <1>3, <1>4, <1>5, <1>6, <1>7, <1>8 DEF Run

LEMMA EnqueueFilled ==
  ASSUME Inv, Inv', NotYetCalled, Filled, NEW p \in Producers, Enqueue(p)
  PROVE  Filled'
<1> USE BeltAssumption DEF BeltAssumption, Threads, Step, Goto, At
<1> USE DEF fields, locks, flags
<1>b. Counted /\ Counted'
  BY BroughtCounts, PTL
<1>c. OneWrites /\ OneWrites'
  BY OneWriter, PTL
<1>0. /\ DOMAIN pc = Threads
      /\ Brought \in Nat /\ Brought' \in Nat
      /\ Cardinality(Writing) \in 0 .. 1 /\ Cardinality(Writing') \in 0 .. 1
  BY <1>b, <1>c DEF Inv, TypeOK, Counted, OneWrites
<1>a. ASSUME pc[p] \in InEnqueue
      PROVE  \A q \in Producers : q # p => pc[q] \notin InEnqueue
  BY <1>a DEF Inv, LocksHeld
<1>1. CASE LockEnqueue(p)
  <2>1. \A q \in Producers : pc[q] \notin InEnqueue
    BY <1>1 DEF LockEnqueue, Inv, LocksHeld
  <2>2. Writing = {} /\ ~AtInc /\ ~AtMod
    BY <2>1 DEF Writing, AtInc, AtMod, InEnqueue, ProducerLabels
  <2>3. Writing' = {p} /\ ~AtInc' /\ ~AtMod'
    BY <1>0, <1>1, <2>1 DEF LockEnqueue, Writing, AtInc, AtMod, InEnqueue, ProducerLabels
  <2>4. Cardinality(Writing) = 0 /\ Cardinality(Writing') = 1
    BY <2>2, <2>3, FS_EmptySet, FS_Singleton
  <2>5. Brought' = Brought + 1
    <3>1. /\ calls \in [Threads -> 0 .. MaxCalls] /\ calls[p] \in 1 .. MaxCalls
          /\ calls' = [calls EXCEPT ![p] = calls[p] - 1]
      BY <1>1 DEF LockEnqueue, Inv, TypeOK
    <3>2. Begun' = Begun \cup {<<p, calls[p]>>}
      BY <3>1 DEF Begun
    <3>3. <<p, calls[p]>> \notin Begun
      BY DEF Begun
    <3>4. Cardinality(Begun') = Cardinality(Begun) + 1
      BY <1>b, <3>2, <3>3, FS_AddElement DEF Counted
    <3> QED
      BY <1>b, <3>4 DEF Counted
  <2>6. Stored' = Stored
    BY <1>0, <2>4, <2>5 DEF Stored
  <2>7. NoneTaken' => NoneTaken
    BY <1>1 DEF LockEnqueue, NoneTaken, Inv, TypeOK
  <2>8. UNCHANGED <<unread, tail>>
    BY <1>1 DEF LockEnqueue
  <2> QED
    BY <1>0, <2>2, <2>3, <2>5, <2>6, <2>7, <2>8 DEF Filled
<1>2. CASE CheckFull(p) \/ TestFull(p) \/ SetFull(p) \/ UnlockEnqueue(p)
  <2>1. UNCHANGED <<unread, tail, calls>>
    BY <1>2 DEF CheckFull, TestFull, SetFull, UnlockEnqueue
  <2>2. Writing' = Writing /\ AtInc' = AtInc /\ AtMod' = AtMod
    BY <1>0, <1>2 DEF CheckFull, TestFull, SetFull, UnlockEnqueue, Writing, AtInc, AtMod
  <2> QED
    BY <2>1, <2>2, SameFilled
<1>3. CASE Write(p)
  <2>1. p \in Writing /\ pc[p] \in InEnqueue
    BY <1>3 DEF Write, Writing, InEnqueue, ProducerLabels
  <2>2. ~AtInc /\ ~AtMod
    BY <1>3, <1>a, <2>1 DEF Write, AtInc, AtMod, InEnqueue, ProducerLabels
  <2>3. Writing' = {} /\ AtInc'
    BY <1>0, <1>3, <1>a, <2>1 DEF Write, Writing, AtInc, InEnqueue, ProducerLabels
  <2>4. Cardinality(Writing) = 1 /\ Cardinality(Writing') = 0
    BY <1>c, <2>1, <2>3, FS_EmptySet DEF OneWrites
  <2>5. Brought' = Brought /\ NoneTaken' = NoneTaken
    BY <1>3 DEF Write, Brought, NoneTaken
  <2>6. Stored' = Stored + 1 /\ Stored = Brought - 1
    BY <1>0, <2>4, <2>5 DEF Stored
  <2>7. unread' = unread \cup {tail} /\ tail' = tail
    BY <1>3 DEF Write
  <2> SUFFICES ASSUME Brought <= Capacity, NoneTaken
               PROVE  unread' = 0 .. Stored' - 1 /\ tail' = Stored' - 1
    BY <2>3, <2>5 DEF Filled
  <2>8. unread = 0 .. Stored - 1 /\ tail = Stored % Capacity
    BY <2>2 DEF Filled
  <2>9. Stored \in 0 .. Capacity - 1 \/ Stored = -1
    BY <1>0, <2>6
  <2>10. Stored \in 0 .. Capacity - 1
    <3>1. calls[p] < MaxCalls /\ calls[p] \in Nat
      BY <1>3 DEF Write, NotYetCalled, Inv, TypeOK
    <3>2. <<p, MaxCalls>> \in Begun
      BY <3>1 DEF Begun
    <3>3. Cardinality(Begun) # 0
      BY <1>b, <3>2, FS_EmptySet DEF Counted
    <3>4. Brought > 0
      BY <1>b, <3>3 DEF Counted
    <3> QED BY <2>6, <2>9, <3>4
  <2>11. tail = Stored
    BY <2>8, <2>10
  <2>12. tail' = Stored' - 1
    BY <2>6, <2>7, <2>10, <2>11
  <2>13. unread' = (0 .. Stored - 1) \cup {Stored}
    BY <2>7, <2>8, <2>11
  <2>14. (0 .. Stored - 1) \cup {Stored} = 0 .. Stored
    BY <2>10
  <2>15. Stored' - 1 = Stored
    BY <2>6, <2>10
  <2> QED
    BY <2>12, <2>13, <2>14, <2>15
<1>4. CASE IncTail(p)
  <2>1. pc[p] \in InEnqueue /\ AtInc
    BY <1>4 DEF IncTail, InEnqueue, ProducerLabels, AtInc
  <2>2. ~AtInc' /\ AtMod' /\ Writing' = Writing
    BY <1>0, <1>4, <1>a, <2>1 DEF IncTail, AtInc, AtMod, Writing, InEnqueue, ProducerLabels
  <2>3. Stored' = Stored /\ Brought' = Brought /\ NoneTaken' = NoneTaken
    BY <1>4, <2>2 DEF IncTail, Stored, Brought, NoneTaken
  <2>4. unread' = unread /\ tail' = tail + 1
    BY <1>4 DEF IncTail
  <2> QED
    BY <1>0, <2>1, <2>2, <2>3, <2>4 DEF Filled, Stored
<1>5. CASE ModTail(p)
  <2>1. pc[p] \in InEnqueue /\ AtMod
    BY <1>5 DEF ModTail, InEnqueue, ProducerLabels, AtMod
  <2>2. ~AtInc /\ ~AtInc' /\ ~AtMod' /\ Writing' = Writing
    BY <1>0, <1>5, <1>a, <2>1 DEF ModTail, AtInc, AtMod, Writing, InEnqueue, ProducerLabels
  <2>3. Stored' = Stored /\ Brought' = Brought /\ NoneTaken' = NoneTaken
    BY <1>5, <2>2 DEF ModTail, Stored, Brought, NoneTaken
  <2>4. unread' = unread /\ tail' = tail % Capacity
    BY <1>5 DEF ModTail
  <2> QED
    BY <1>0, <2>1, <2>2, <2>3, <2>4 DEF Filled
<1> QED
  BY <1>1, <1>2, <1>3, <1>4, <1>5 DEF Enqueue

\* Until the first call no consumer is anywhere in dequeue.
LEMMA DequeueFilled ==
  ASSUME Inv, NotYetCalled, NEW c \in Consumers, Dequeue(c)
  PROVE  Filled'
<1>1. ~NoneTaken'
  <2> USE BeltAssumption DEF BeltAssumption, Inv, TypeOK, Threads, Step, Goto, At
  <2>1. CASE LockDequeue(c)
    BY <2>1 DEF LockDequeue, NoneTaken
  <2>2. CASE ~LockDequeue(c)
    <3>1. pc[c] \notin {"idle", "done"} /\ UNCHANGED calls
      BY <2>2 DEF Dequeue, CheckMet, CheckEmpty, Read, IncHead, ModHead, ClearFull,
         UnlockDequeue
    <3> QED
      BY <3>1 DEF NoneTaken, NotYetCalled
  <2> QED
    BY <2>1, <2>2
<1> QED
  BY <1>1 DEF Filled

\* Who sleeps or is woken in the middle of enqueue has its write still before it.
LEMMA MonitorFilled ==
  ASSUME Inv, Filled, NEW t \in Threads,
         Wait(t) \/ Notify(t) \/ Leave(t) \/ Interrupt(t)
  PROVE  Filled'
<1> USE BeltAssumption DEF BeltAssumption, Inv, TypeOK, Threads, Step, Goto, At
<1>1. UNCHANGED <<unread, tail, calls>>
  BY DEF Wait, Notify, Leave, Interrupt, fields
<1>2. \A p \in Producers :
        \/ pc'[p] = pc[p]
        \/ /\ pc[p] \in {"toWait", "asleep"} /\ pc'[p] \in {"asleep", "write"}
        \/ /\ pc[p] \in {"notify", "idle"} /\ pc'[p] \in {"idle", "done"}
  BY DEF Wait, Notify, Leave, Interrupt, Resume, Sleepers
<1>3. Writing' = Writing /\ AtInc' = AtInc /\ AtMod' = AtMod
  BY <1>2 DEF Writing, AtInc, AtMod
<1> QED
  BY <1>1, <1>3, SameFilled

LEMMA StoreNext == StoreInv /\ [Next]_vars => StoreInv'
<1> SUFFICES ASSUME StoreInv, [Next]_vars PROVE StoreInv'
  OBVIOUS
<1>1. Inv /\ Inv' /\ NotYetCalled /\ Filled
  BY NextInv DEF StoreInv
<1>2. CASE Next
  <2>1. PICK t \in Threads : Run(t) \/ Interrupt(t)
    BY <1>2 DEF Next
  <2>2. NotYetCalled'
    BY <1>1, <2>1, NotYetCalledInv
  <2>3. Filled'
    BY <1>1, <2>1, EnqueueFilled, DequeueFilled, MonitorFilled DEF Run
  <2> QED
    BY <1>1, <2>2, <2>3 DEF StoreInv
<1>3. CASE UNCHANGED vars
  <2>1. UNCHANGED <<unread, tail, calls, pc>>
    BY <1>3 DEF vars, fields
  <2>2. Writing' = Writing /\ AtInc' = AtInc /\ AtMod' = AtMod
    BY <2>1 DEF Writing, AtInc, AtMod, At
  <2>3. Filled'
    BY <1>1, <2>1, <2>2, SameFilled
  <2> QED
    BY <1>1, <2>1, <2>3 DEF StoreInv, NotYetCalled
<1> QED
  BY <1>2, <1>3

(***************************************************************************)
(* Until something is taken, producers that together bring no more than the *)
(* belt holds lose nothing: each number written has a slot of its own, at   *)
(* every moment and whoever is interrupted (Belt.java: queue[tail], tail++  *)
(* and tail % capacity are three steps, all of them under enqueueLock).     *)
(***************************************************************************)
THEOREM NothingOverwritten == Spec => []AllStored
<1>1. StoreInv => AllStored
  <2> SUFFICES ASSUME StoreInv, Brought <= Capacity, NoneTaken
               PROVE  Cardinality(unread) = Stored
    BY DEF AllStored, NoneTaken, Stored
  <2>1. unread = 0 .. Stored - 1
    BY DEF StoreInv, Filled
  <2>2. Stored \in Int /\ Stored >= 0
    <3>1. Counted /\ OneWrites
      BY BroughtCounts, OneWriter DEF StoreInv
    <3>2. CASE Writing = {}
      BY <3>1, <3>2 DEF Stored, Counted, OneWrites
    <3>3. CASE Writing # {}
      <4>1. PICK p \in Writing : TRUE
        BY <3>3
      <4>2. p \in Producers /\ calls[p] < MaxCalls /\ calls[p] \in Nat
        BY <4>1, BeltAssumption DEF Writing, StoreInv, NotYetCalled, Inv, TypeOK, Threads,
           BeltAssumption
      <4>3. <<p, MaxCalls>> \in Begun
        BY <4>2, BeltAssumption DEF Begun, BeltAssumption
      <4>4. Cardinality(Begun) # 0
        BY <3>1, <4>3, FS_EmptySet DEF Counted
      <4> QED
        BY <3>1, <4>4, BeltAssumption DEF Stored, Counted, OneWrites, BeltAssumption
    <3> QED
      BY <3>2, <3>3
  <2>3. Cardinality(0 .. Stored - 1) = Stored
    BY <2>2, FS_Interval
  <2> QED
    BY <2>1, <2>3
<1>2. Init => StoreInv
  BY InitInv, InitStored DEF StoreInv
<1> QED
  BY <1>1, <1>2, StoreNext, PTL DEF Spec
=============================================================================
