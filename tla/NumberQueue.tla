------------------------------ MODULE NumberQueue ------------------------------
(***************************************************************************)
(* What the queues of lab7 and lab8 promise (the interface NumberQueue, as  *)
(* QueueTest states it): numbers come out in the order they went in, no     *)
(* more than capacity are held, and a call that cannot be served is refused *)
(* with IndexOutOfBoundsException and changes nothing.                      *)
(***************************************************************************)
EXTENDS Naturals, Sequences

CONSTANTS
  Numbers,
  Capacity

VARIABLES
  held,      \* the numbers in the queue, oldest first
  outcome    \* of the last call

queueVars == <<held, outcome>>

Fine      == [call |-> "enqueue"]
Returned(n) == [call |-> "dequeue", number |-> n]
Refused(call) == [call |-> call, thrown |-> TRUE]
Fresh     == [call |-> "none"]

QueueInit == held = <<>> /\ outcome = Fresh

Put(n) ==
  /\ Len(held) < Capacity
  /\ held' = Append(held, n)
  /\ outcome' = Fine

Take ==
  /\ held # <<>>
  /\ held' = Tail(held)
  /\ outcome' = Returned(Head(held))

RefusePut  == Len(held) = Capacity /\ outcome' = Refused("enqueue") /\ UNCHANGED held
RefuseTake == held = <<>> /\ outcome' = Refused("dequeue") /\ UNCHANGED held

QueueNext == (\E n \in Numbers : Put(n)) \/ Take \/ RefusePut \/ RefuseTake

QueueSpec == QueueInit /\ [][QueueNext]_queueVars
===============================================================================
