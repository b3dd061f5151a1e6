-------------------------- MODULE WorkStealingDeque --------------------------
(***************************************************************************)
(* What runtime/sync/lockfree_deque.h promises: a bounded double-ended     *)
(* queue.  The owner pushes and pops at one end (LIFO), thieves take from  *)
(* the other end (FIFO), and every item that went in comes out once.       *)
(* LockFreeDeque implements this specification, one atomic memory access   *)
(* at a time.                                                              *)
(***************************************************************************)
EXTENDS Integers, Sequences

CONSTANTS Items,     \* the work items (task pointers)
          Capacity   \* slots of the circular array

VARIABLES queue,     \* the items between top and bottom, oldest first
          fresh,     \* items still owned by a caller of deque_push
          taken      \* how many times each item was handed out

vars == <<queue, fresh, taken>>

Init ==
  /\ queue = <<>>
  /\ fresh = Items
  /\ taken = [x \in Items |-> 0]

(* deque_push returns true: the item becomes the youngest one. *)
Push(x) ==
  /\ x \in fresh
  /\ Len(queue) < Capacity
  /\ queue' = Append(queue, x)
  /\ fresh' = fresh \ {x}
  /\ UNCHANGED taken

(* deque_pop returns an item: the youngest one. *)
Pop ==
  /\ queue # <<>>
  /\ queue' = SubSeq(queue, 1, Len(queue) - 1)
  /\ taken' = [taken EXCEPT ![queue[Len(queue)]] = @ + 1]
  /\ UNCHANGED fresh

(* deque_steal returns an item: the oldest one. *)
Steal ==
  /\ queue # <<>>
  /\ queue' = Tail(queue)
  /\ taken' = [taken EXCEPT ![Head(queue)] = @ + 1]
  /\ UNCHANGED fresh

Next == (\E x \in Items : Push(x)) \/ Pop \/ Steal

Spec == Init /\ [][Next]_vars
=============================================================================
