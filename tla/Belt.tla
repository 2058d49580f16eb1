--------------------------------- MODULE Belt ---------------------------------
(***************************************************************************)
(* The belt of lab8 (Belt.java, run by Producer.java and Consumer.java): a  *)
(* cyclic queue that producer threads fill and consumer threads empty.      *)
(*                                                                         *)
(* enqueue works under enqueueLock and dequeue under dequeueLock, so two    *)
(* producers exclude each other, two consumers do, and a producer and a     *)
(* consumer do not: they share head, tail and isFull unprotected.  A thread *)
(* that finds the belt full, or empty, waits on the belt's own monitor      *)
(* without giving its lock up, and every call ends with notifyAll on that   *)
(* monitor, after its lock is released.  The test is an if, not a while: a  *)
(* thread that wakes goes on without looking again.                         *)
(*                                                                         *)
(* One action is one read or write of a shared field.  The steps of a       *)
(* thread are named by its program counter:                                 *)
(*   producer: idle check toWait asleep write inc mod test setFull unlock   *)
(*             notify done                                                  *)
(*   consumer: idle check checkFull toWait asleep read inc mod clear unlock *)
(*             notify done                                                  *)
(***************************************************************************)
EXTENDS Integers, FiniteSets

CONSTANTS
  Producers,      \* threads that call enqueue
  Consumers,      \* threads that call dequeue
  Capacity,       \* slots of the belt
  Initially,      \* numbers on the belt when the threads start
  Interruptible,  \* threads that may be interrupted, once each
  MaxCalls        \* bound: calls each thread makes

ASSUME BeltAssumption ==
  /\ Producers \cap Consumers = {}
  /\ Capacity \in Nat \ {0}
  /\ Initially \in 0 .. Capacity
  /\ Interruptible \subseteq Producers \cup Consumers
  /\ MaxCalls \in Nat

\* The factory starts its threads from an array.
ASSUME FiniteProducers == IsFiniteSet(Producers)

Threads == Producers \cup Consumers
Slots   == 0 .. Capacity - 1

VARIABLES
  head, tail, isFull,
  unread,        \* the slots holding a number written and not yet read
  enqueueLock,   \* who holds it: no thread or one
  dequeueLock,
  waitSet,       \* threads in wait() on the belt
  pc,
  calls,         \* calls a thread has yet to make
  onShift,       \* threads that may still be interrupted
  interrupted    \* threads with their interrupt flag set

fields == <<head, tail, isFull, unread>>
locks  == <<enqueueLock, dequeueLock>>
flags  == <<onShift, interrupted>>
vars   == <<fields, locks, waitSet, pc, calls, flags>>

Init ==
  /\ head = 0
  /\ tail = Initially % Capacity
  /\ isFull = (Initially = Capacity)
  /\ unread = 0 .. Initially - 1
  /\ enqueueLock = {}
  /\ dequeueLock = {}
  /\ waitSet = {}
  /\ pc = [t \in Threads |-> "idle"]
  /\ calls = [t \in Threads |-> MaxCalls]
  /\ onShift = Interruptible
  /\ interrupted = {}

Goto(t, label) == pc' = [pc EXCEPT ![t] = label]

At(t, label) == pc[t] = label

Step(t, from, to) == At(t, from) /\ Goto(t, to)

-----------------------------------------------------------------------------
(***************************************************************************)
(* run(): the loop of a worker ends when it sees its interrupt flag.        *)
(***************************************************************************)
Leave(t) ==
  /\ t \in interrupted \/ calls[t] = 0
  /\ Step(t, "idle", "done")
  /\ UNCHANGED <<fields, locks, waitSet, calls, flags>>

\* Wrong on purpose: the lock is not taken.
LockEnqueueUnguarded(p) ==
  /\ p \notin interrupted
  /\ calls[p] > 0
  /\ enqueueLock' = enqueueLock \cup {p}
  /\ calls' = [calls EXCEPT ![p] = @ - 1]
  /\ Step(p, "idle", "check")
  /\ UNCHANGED <<fields, dequeueLock, waitSet, flags>>

\* synchronized (enqueueLock) and synchronized (dequeueLock).
LockEnqueue(p) ==
  /\ p \notin interrupted
  /\ calls[p] > 0
  /\ enqueueLock = {}
  /\ enqueueLock' = {p}
  /\ calls' = [calls EXCEPT ![p] = @ - 1]
  /\ Step(p, "idle", "check")
  /\ UNCHANGED <<fields, dequeueLock, waitSet, flags>>

\* Wrong on purpose: the lock is not taken, or dequeue shares the lock of enqueue.
LockDequeueUnguarded(c) ==
  /\ c \notin interrupted
  /\ calls[c] > 0
  /\ dequeueLock' = dequeueLock \cup {c}
  /\ calls' = [calls EXCEPT ![c] = @ - 1]
  /\ Step(c, "idle", "check")
  /\ UNCHANGED <<fields, enqueueLock, waitSet, flags>>

LockDequeueShared(c) ==
  /\ c \notin interrupted
  /\ calls[c] > 0
  /\ dequeueLock = {} /\ enqueueLock = {}
  /\ dequeueLock' = {c}
  /\ calls' = [calls EXCEPT ![c] = @ - 1]
  /\ Step(c, "idle", "check")
  /\ UNCHANGED <<fields, enqueueLock, waitSet, flags>>

LockDequeue(c) ==
  /\ c \notin interrupted
  /\ calls[c] > 0
  /\ dequeueLock = {}
  /\ dequeueLock' = {c}
  /\ calls' = [calls EXCEPT ![c] = @ - 1]
  /\ Step(c, "idle", "check")
  /\ UNCHANGED <<fields, enqueueLock, waitSet, flags>>

-----------------------------------------------------------------------------
(***************************************************************************)
(* enqueue                                                                  *)
(***************************************************************************)
CheckFull(p) ==
  /\ At(p, "check")
  /\ Goto(p, IF isFull THEN "toWait" ELSE "write")
  /\ UNCHANGED <<fields, locks, waitSet, calls, flags>>

Write(p) ==
  /\ Step(p, "write", "inc")
  /\ unread' = unread \cup {tail}
  /\ UNCHANGED <<head, tail, isFull, locks, waitSet, calls, flags>>

IncTail(p) ==
  /\ Step(p, "inc", "mod")
  /\ tail' = tail + 1
  /\ UNCHANGED <<head, isFull, unread, locks, waitSet, calls, flags>>

\* Wrong on purpose: the index is not wrapped.
ModTailUnwrapped(p) ==
  /\ Step(p, "mod", "test")
  /\ UNCHANGED <<fields, locks, waitSet, calls, flags>>

ModTail(p) ==
  /\ Step(p, "mod", "test")
  /\ tail' = tail % Capacity
  /\ UNCHANGED <<head, isFull, unread, locks, waitSet, calls, flags>>

TestFull(p) ==
  /\ At(p, "test")
  /\ Goto(p, IF head = tail THEN "setFull" ELSE "unlock")
  /\ UNCHANGED <<fields, locks, waitSet, calls, flags>>

SetFull(p) ==
  /\ Step(p, "setFull", "unlock")
  /\ isFull' = TRUE
  /\ UNCHANGED <<head, tail, unread, locks, waitSet, calls, flags>>

\* Wrong on purpose: enqueue returns without threadNotify.
UnlockEnqueueSilently(p) ==
  /\ Step(p, "unlock", "idle")
  /\ enqueueLock' = enqueueLock \ {p}
  /\ UNCHANGED <<fields, dequeueLock, waitSet, calls, flags>>

UnlockEnqueue(p) ==
  /\ Step(p, "unlock", "notify")
  /\ enqueueLock' = enqueueLock \ {p}
  /\ UNCHANGED <<fields, dequeueLock, waitSet, calls, flags>>

-----------------------------------------------------------------------------
(***************************************************************************)
(* dequeue.  head == tail and isFull are two reads; a belt that is empty by *)
(* both makes the thread wait.                                              *)
(***************************************************************************)
CheckMet(c) ==
  /\ At(c, "check")
  /\ Goto(c, IF head = tail THEN "checkFull" ELSE "read")
  /\ UNCHANGED <<fields, locks, waitSet, calls, flags>>

CheckEmpty(c) ==
  /\ At(c, "checkFull")
  /\ Goto(c, IF isFull THEN "read" ELSE "toWait")
  /\ UNCHANGED <<fields, locks, waitSet, calls, flags>>

Read(c) ==
  /\ Step(c, "read", "inc")
  /\ unread' = unread \ {head}
  /\ UNCHANGED <<head, tail, isFull, locks, waitSet, calls, flags>>

IncHead(c) ==
  /\ Step(c, "inc", "mod")
  /\ head' = head + 1
  /\ UNCHANGED <<tail, isFull, unread, locks, waitSet, calls, flags>>

ModHead(c) ==
  /\ Step(c, "mod", "clear")
  /\ head' = head % Capacity
  /\ UNCHANGED <<tail, isFull, unread, locks, waitSet, calls, flags>>

ClearFull(c) ==
  /\ Step(c, "clear", "unlock")
  /\ isFull' = FALSE
  /\ UNCHANGED <<head, tail, unread, locks, waitSet, calls, flags>>

UnlockDequeue(c) ==
  /\ Step(c, "unlock", "notify")
  /\ dequeueLock' = dequeueLock \ {c}
  /\ UNCHANGED <<fields, enqueueLock, waitSet, calls, flags>>

-----------------------------------------------------------------------------
(***************************************************************************)
(* threadWait and threadNotify hold the belt's monitor only while they join *)
(* or empty its wait set, so each is one step.                              *)
(***************************************************************************)
Resume(t) == IF t \in Producers THEN "write" ELSE "read"

\* wait() on a thread already interrupted throws at once and clears the flag;
\* the exception is caught and ignored.
Wait(t) ==
  /\ At(t, "toWait")
  /\ \/ /\ t \notin interrupted
        /\ waitSet' = waitSet \cup {t}
        /\ Goto(t, "asleep")
        /\ UNCHANGED flags
     \/ /\ t \in interrupted
        /\ interrupted' = interrupted \ {t}
        /\ Goto(t, Resume(t))
        /\ UNCHANGED <<waitSet, onShift>>
  /\ UNCHANGED <<fields, locks, calls>>

Notify(t) ==
  /\ At(t, "notify")
  /\ waitSet' = {}
  /\ pc' = [u \in Threads |-> IF u = t THEN "idle"
                              ELSE IF u \in waitSet THEN Resume(u)
                              ELSE pc[u]]
  /\ UNCHANGED <<fields, locks, calls, flags>>

\* Thread.interrupt(), from the factory's end of shift.
Interrupt(t) ==
  /\ t \in onShift
  /\ onShift' = onShift \ {t}
  /\ \/ /\ t \in waitSet
        /\ waitSet' = waitSet \ {t}
        /\ Goto(t, Resume(t))
        /\ UNCHANGED interrupted
     \/ /\ t \notin waitSet
        /\ interrupted' = interrupted \cup {t}
        /\ UNCHANGED <<waitSet, pc>>
  /\ UNCHANGED <<fields, locks, calls>>

-----------------------------------------------------------------------------
Enqueue(p) ==
  \/ LockEnqueue(p) \/ CheckFull(p) \/ Write(p) \/ IncTail(p) \/ ModTail(p)
  \/ TestFull(p) \/ SetFull(p) \/ UnlockEnqueue(p)

Dequeue(c) ==
  \/ LockDequeue(c) \/ CheckMet(c) \/ CheckEmpty(c) \/ Read(c) \/ IncHead(c)
  \/ ModHead(c) \/ ClearFull(c) \/ UnlockDequeue(c)

Run(t) ==
  \/ t \in Producers /\ Enqueue(t)
  \/ t \in Consumers /\ Dequeue(t)
  \/ Wait(t) \/ Notify(t) \/ Leave(t)

Next == \E t \in Threads : Run(t) \/ Interrupt(t)

Spec == Init /\ [][Next]_vars

(***************************************************************************)
(* Fairness.  The scheduler runs every runnable thread, and a thread that   *)
(* finds its lock free again and again gets it in the end.                  *)
(***************************************************************************)
ConsumersRun ==
  /\ \A c \in Consumers : WF_vars(Run(c))
  /\ \A c \in Consumers : SF_vars(LockDequeue(c))

ProducersRun ==
  /\ \A p \in Producers : WF_vars(Run(p))
  /\ \A p \in Producers : SF_vars(LockEnqueue(p))

FairSpec == Spec /\ ProducersRun /\ ConsumersRun

\* Producers may stop anywhere, the way the enqueue of twoLockQueueTest sleeps
\* inside its lock.
ConsumersFairSpec == Spec /\ ConsumersRun

-----------------------------------------------------------------------------
(***************************************************************************)
(* Properties                                                               *)
(***************************************************************************)
ProducerLabels == {"idle", "check", "toWait", "asleep", "write", "inc", "mod",
                   "test", "setFull", "unlock", "notify", "done"}
ConsumerLabels == {"idle", "check", "checkFull", "toWait", "asleep", "read",
                   "inc", "mod", "clear", "unlock", "notify", "done"}

\* Every variable keeps its type: an index leaves the array by one at most, and
\* only until it is wrapped (tail++ and tail % capacity, head++ and
\* head % capacity).
TypeOK ==
  /\ head \in 0 .. Capacity /\ tail \in 0 .. Capacity
  /\ isFull \in BOOLEAN
  /\ unread \subseteq Slots
  /\ enqueueLock \subseteq Producers
  /\ dequeueLock \subseteq Consumers
  /\ waitSet \subseteq Threads
  /\ \A p \in Producers : pc[p] \in ProducerLabels
  /\ \A c \in Consumers : pc[c] \in ConsumerLabels
  /\ DOMAIN pc = Threads
  /\ calls \in [Threads -> 0 .. MaxCalls]
  /\ onShift \subseteq Threads /\ interrupted \subseteq Threads

\* No thread ever uses an index outside the array, whatever is interrupted
\* (queue[tail] = i and queue[head]; the Q2 tests count
\* IndexOutOfBoundsException and want none): the index a thread is about to use
\* must not be one another thread has incremented and not wrapped yet.
IndicesInBounds ==
  /\ \A p \in Producers : At(p, "write") => tail \in Slots
  /\ \A c \in Consumers : At(c, "read") => head \in Slots

\* A thread waits with its lock in hand (threadWait is called inside the
\* synchronized block), so a producer is never woken into a critical section
\* another producer is in, and the same for consumers.
AloneWhenWoken ==
  /\ \A p, q \in Producers :
       p # q /\ pc[p] \in {"toWait", "asleep"} => pc[q] \in {"idle", "notify", "done"}
  /\ \A c, d \in Consumers :
       c # d /\ pc[c] \in {"toWait", "asleep"} => pc[d] \in {"idle", "notify", "done"}

\* Numbers enqueued or about to be, and the producers still about to write.
Brought ==
  Initially + Cardinality({k \in Producers \X (1 .. MaxCalls) : k[2] > calls[k[1]]})
Writing == {p \in Producers : pc[p] \in {"check", "toWait", "asleep", "write"}}

\* Producers that together bring no more than the belt holds lose nothing, at
\* any moment before the first dequeue: each number written has a slot of its
\* own (concurrentAccessTest: two threads have not written to the same index).
AllStored ==
  Brought <= Capacity /\ (\A c \in Consumers : calls[c] = MaxCalls) =>
    Cardinality(unread) = Brought - Cardinality(Writing)

\* A consumer of a belt with numbers enough finishes even if a producer stops
\* halfway through enqueue, lock in hand (twoLockQueueTest: dequeue does not
\* wait for the enqueue thread).
DequeueNotHeldUp == \A c \in Consumers : <>At(c, "done")

\* A sleeper sleeps no longer than the next call of the other side takes: a
\* thread past its own wait always gets to threadNotify.
WakeupFollows ==
  /\ \A c \in Consumers, p \in Producers :
       (At(c, "asleep") /\ At(p, "write")) ~> ~At(c, "asleep")
  /\ \A p \in Producers, c \in Consumers :
       (At(p, "asleep") /\ At(c, "read")) ~> ~At(p, "asleep")

(***************************************************************************)
(* What the tests of the belt say and the belt does not do.                 *)
(***************************************************************************)
\* productionQueueTest: production threads cannot overfill the queue, that is,
\* no number is written over one that nobody has read.
NoOverfill == \A p \in Producers : At(p, "write") => tail \notin unread

\* dequeueThenEnqueueTest: a thread that dequeues an empty queue blocks until
\* there is a number available, and no longer.
BlocksUntilAvailable ==
  \A c \in Consumers : (At(c, "asleep") /\ unread # {}) ~> ~At(c, "asleep")
==============================================================================
