---------------------------- MODULE LockFreeDeque ----------------------------
(***************************************************************************)
(* runtime/sync/lockfree_deque.c: the Chase-Lev work-stealing deque with a *)
(* circular array of fixed size.  One action is one access to shared       *)
(* memory; every access the code makes to top and bottom is sequentially   *)
(* consistent (ATOMIC_LOAD, ATOMIC_STORE, ATOMIC_CAS), so interleaving     *)
(* these actions gives all its executions.                                 *)
(*                                                                         *)
(* Owners are the threads that push and pop.  lockfree_deque.h allows one; *)
(* the set lets a model also ask what happens with more.                   *)
(***************************************************************************)
EXTENDS Integers, Sequences

CONSTANTS Items,      \* work items: pointers, each pushed at most once
          Null,       \* the NULL item
          Owners,     \* threads calling deque_push and deque_pop
          Thieves,    \* threads calling deque_steal
          Capacity    \* arr->capacity

ASSUME DequeAssumption ==
  /\ Capacity \in Nat \ {0}
  /\ Null \notin Items

Threads == Owners \cup Thieves

VARIABLES top,        \* deque->top
          bottom,     \* deque->bottom
          items,      \* deque->array->items
          pc,         \* where each thread is
          b, t, item, \* each thread's local variables
          fresh,      \* items not handed to the deque yet
          taken       \* how many times each item has been returned

shared == <<top, bottom, items>>
vars == <<top, bottom, items, pc, b, t, item, fresh, taken>>

Slot(i) == i % Capacity

(* deque_create *)
Init ==
  /\ top = 0
  /\ bottom = 0
  /\ items = [i \in 0 .. Capacity - 1 |-> Null]
  /\ pc = [p \in Threads |-> "idle"]
  /\ b = [p \in Threads |-> 0]
  /\ t = [p \in Threads |-> 0]
  /\ item = [p \in Threads |-> Null]
  /\ fresh = Items
  /\ taken = [x \in Items |-> 0]

At(p, label) == pc[p] = label
Goto(p, label) == pc' = [pc EXCEPT ![p] = label]

(* The call returns item x to its caller, which owns it from now on. *)
Take(x) == taken' = [taken EXCEPT ![x] = @ + 1]

-----------------------------------------------------------------------------
(* deque_push(item) *)

PushLoadBottom(p, x) ==
  /\ At(p, "idle")
  /\ x \in fresh
  /\ fresh' = fresh \ {x}
  /\ item' = [item EXCEPT ![p] = x]
  /\ b' = [b EXCEPT ![p] = bottom]
  /\ Goto(p, "push_loadtop")
  /\ UNCHANGED <<shared, t, taken>>

(* Mutation: the full check is off by one. *)
PushLoadTopOffByOne(p) ==
  /\ At(p, "push_loadtop")
  /\ t' = [t EXCEPT ![p] = top]
  /\ IF b[p] - top > Capacity
       THEN /\ fresh' = fresh \cup {item[p]}
            /\ Goto(p, "idle")
       ELSE /\ Goto(p, "push_put")
            /\ UNCHANGED fresh
  /\ UNCHANGED <<shared, b, item, taken>>

(* The caller keeps the item of a push that found the array full. *)
PushLoadTop(p) ==
  /\ At(p, "push_loadtop")
  /\ t' = [t EXCEPT ![p] = top]
  /\ IF b[p] - top >= Capacity
       THEN /\ fresh' = fresh \cup {item[p]}
            /\ Goto(p, "idle")
       ELSE /\ Goto(p, "push_put")
            /\ UNCHANGED fresh
  /\ UNCHANGED <<shared, b, item, taken>>

PushPut(p) ==
  /\ At(p, "push_put")
  /\ items' = [items EXCEPT ![Slot(b[p])] = item[p]]
  /\ Goto(p, "push_publish")
  /\ UNCHANGED <<top, bottom, b, t, item, fresh, taken>>

PushPublish(p) ==
  /\ At(p, "push_publish")
  /\ bottom' = b[p] + 1
  /\ Goto(p, "idle")
  /\ UNCHANGED <<top, items, b, t, item, fresh, taken>>

-----------------------------------------------------------------------------
(* deque_pop() *)

PopLoadBottom(p) ==
  /\ At(p, "idle")
  /\ b' = [b EXCEPT ![p] = bottom - 1]
  /\ Goto(p, "pop_storebottom")
  /\ UNCHANGED <<shared, t, item, fresh, taken>>

PopStoreBottom(p) ==
  /\ At(p, "pop_storebottom")
  /\ bottom' = b[p]
  /\ Goto(p, "pop_loadtop")
  /\ UNCHANGED <<top, items, b, t, item, fresh, taken>>

(* Mutation: the last item is taken without the exchange. *)
PopLoadTopNoCas(p) ==
  /\ At(p, "pop_loadtop")
  /\ t' = [t EXCEPT ![p] = top]
  /\ item' = [item EXCEPT ![p] = items[Slot(b[p])]]
  /\ \/ /\ top <= b[p]
        /\ Take(items[Slot(b[p])])
        /\ Goto(p, "idle")
     \/ /\ top > b[p]
        /\ Goto(p, "pop_restore")
        /\ UNCHANGED taken
  /\ UNCHANGED <<shared, b, fresh>>

(* More than one item left: the youngest is the owner's without a race. *)
PopLoadTop(p) ==
  /\ At(p, "pop_loadtop")
  /\ t' = [t EXCEPT ![p] = top]
  /\ IF top <= b[p]
       THEN item' = [item EXCEPT ![p] = items[Slot(b[p])]]
       ELSE item' = [item EXCEPT ![p] = Null]
  /\ \/ /\ top < b[p]
        /\ Take(items[Slot(b[p])])
        /\ Goto(p, "idle")
     \/ /\ top = b[p]
        /\ Goto(p, "pop_cas")
        /\ UNCHANGED taken
     \/ /\ top > b[p]
        /\ Goto(p, "pop_restore")
        /\ UNCHANGED taken
  /\ UNCHANGED <<shared, b, fresh>>

(* The last item is contended: whoever moves top has it. *)
PopCas(p) ==
  /\ At(p, "pop_cas")
  /\ \/ /\ top = t[p]
        /\ top' = t[p] + 1
        /\ Take(item[p])
        /\ UNCHANGED item
     \/ /\ top # t[p]
        /\ item' = [item EXCEPT ![p] = Null]
        /\ UNCHANGED <<top, taken>>
  /\ Goto(p, "pop_restore")
  /\ UNCHANGED <<bottom, items, b, t, fresh>>

PopRestore(p) ==
  /\ At(p, "pop_restore")
  /\ bottom' = b[p] + 1
  /\ Goto(p, "idle")
  /\ UNCHANGED <<top, items, b, t, item, fresh, taken>>

-----------------------------------------------------------------------------
(* deque_steal() *)

StealLoadTop(p) ==
  /\ At(p, "idle")
  /\ t' = [t EXCEPT ![p] = top]
  /\ Goto(p, "steal_loadbottom")
  /\ UNCHANGED <<shared, b, item, fresh, taken>>

StealLoadBottom(p) ==
  /\ At(p, "steal_loadbottom")
  /\ b' = [b EXCEPT ![p] = bottom]
  /\ Goto(p, IF t[p] < bottom THEN "steal_get" ELSE "idle")
  /\ UNCHANGED <<shared, t, item, fresh, taken>>

(* Mutation: the thief takes the youngest item instead of the oldest. *)
StealGetYoungest(p) ==
  /\ At(p, "steal_get")
  /\ item' = [item EXCEPT ![p] = items[Slot(b[p] - 1)]]
  /\ Goto(p, "steal_cas")
  /\ UNCHANGED <<shared, b, t, fresh, taken>>

StealGet(p) ==
  /\ At(p, "steal_get")
  /\ item' = [item EXCEPT ![p] = items[Slot(t[p])]]
  /\ Goto(p, "steal_cas")
  /\ UNCHANGED <<shared, b, t, fresh, taken>>

StealCas(p) ==
  /\ At(p, "steal_cas")
  /\ \/ /\ top = t[p]
        /\ top' = t[p] + 1
        /\ Take(item[p])
     \/ /\ top # t[p]
        /\ UNCHANGED <<top, taken>>
  /\ Goto(p, "idle")
  /\ UNCHANGED <<bottom, items, b, t, item, fresh>>

-----------------------------------------------------------------------------
OwnerStep(p) ==
  \/ \E x \in Items : PushLoadBottom(p, x)
  \/ PushLoadTop(p)
  \/ PushPut(p)
  \/ PushPublish(p)
  \/ PopLoadBottom(p)
  \/ PopStoreBottom(p)
  \/ PopLoadTop(p)
  \/ PopCas(p)
  \/ PopRestore(p)

ThiefStep(p) ==
  \/ StealLoadTop(p)
  \/ StealLoadBottom(p)
  \/ StealGet(p)
  \/ StealCas(p)

Next ==
  \/ \E p \in Owners : OwnerStep(p)
  \/ \E p \in Thieves : ThiefStep(p)

Spec == Init /\ [][Next]_vars

-----------------------------------------------------------------------------
Labels == {"idle", "push_loadtop", "push_put", "push_publish",
           "pop_storebottom", "pop_loadtop", "pop_cas", "pop_restore",
           "steal_loadbottom", "steal_get", "steal_cas"}

(* Type invariant of the deque and of the threads' local variables. *)
TypeOK ==
  /\ top \in Nat
  /\ bottom \in Nat \cup {-1}
  /\ items \in [0 .. Capacity - 1 -> Items \cup {Null}]
  /\ pc \in [Threads -> Labels]
  /\ b \in [Threads -> Int]
  /\ t \in [Threads -> Nat]
  /\ item \in [Threads -> Items \cup {Null}]
  /\ fresh \in SUBSET Items
  /\ taken \in [Items -> Nat]

Pushing(p) == pc[p] \in {"push_loadtop", "push_put", "push_publish"}
Popping(p) == pc[p] \in {"pop_loadtop", "pop_cas", "pop_restore"}

(* bottom with the decrement of an undecided deque_pop taken back. *)
LogicalBottom ==
  IF \E p \in Owners : Popping(p) THEN bottom + 1 ELSE bottom

(* The items in the deque, oldest first. *)
Contents ==
  [k \in 1 .. LogicalBottom - top |-> items[Slot(top + k - 1)]]

Queued == {items[Slot(i)] : i \in top .. LogicalBottom - 1}
InFlight == {item[p] : p \in {q \in Owners : Pushing(q)}}

(* No item is handed out twice: a pop and a steal (or two steals) racing   *)
(* for one item cannot both return it, or the task would run twice and be  *)
(* freed twice.                                                            *)
NoDoubleTake == \A x \in Items : taken[x] <= 1

(* No item is lost: an item that was pushed and not yet returned is in the *)
(* array between top and bottom, whatever pop or steal is half done.       *)
NoLostItem ==
  \A x \in Items : x \in fresh \cup InFlight \cup Queued \/ taken[x] > 0

-----------------------------------------------------------------------------
(* The inductive invariant behind the two properties above. *)

(* lockfree_deque.h: owner operations are single-threaded. *)
SingleOwner == \A p, q \in Owners : p = q

WindowInv ==
  /\ top <= LogicalBottom
  /\ LogicalBottom <= top + Capacity

(* What the owner remembers agrees with memory at every step of its calls. *)
OwnerInv ==
  \A p \in Owners :
    /\ Pushing(p) => b[p] = bottom
    /\ pc[p] \in {"push_put", "push_publish"} => bottom - top < Capacity
    /\ At(p, "push_publish") => items[Slot(bottom)] = item[p]
    /\ At(p, "pop_storebottom") => b[p] = bottom - 1
    /\ Popping(p) => b[p] = bottom
    /\ At(p, "pop_cas") => /\ t[p] = bottom /\ bottom <= top
                           /\ item[p] = items[Slot(bottom)]
    /\ At(p, "pop_restore") => top = bottom + 1

(* A thief whose exchange can still succeed holds the oldest item. *)
ThiefInv ==
  \A p \in Threads :
    /\ pc[p] \in {"steal_loadbottom", "steal_get", "steal_cas"} => t[p] <= top
    /\ pc[p] \in {"steal_get", "steal_cas"} /\ t[p] = top => top < LogicalBottom
    /\ At(p, "steal_cas") /\ t[p] = top => item[p] = items[Slot(top)]

(* An item is in one place only: with a caller, in a push, in the array or *)
(* handed out.                                                             *)
ItemInv ==
  /\ \A i \in top .. LogicalBottom - 1 :
        /\ items[Slot(i)] \in Items
        /\ items[Slot(i)] \notin fresh
        /\ taken[items[Slot(i)]] = 0
        /\ \A p \in Owners : Pushing(p) => item[p] # items[Slot(i)]
  /\ \A i, j \in top .. LogicalBottom - 1 :
        items[Slot(i)] = items[Slot(j)] => i = j
  /\ \A p \in Owners : Pushing(p) =>
        item[p] \in Items /\ item[p] \notin fresh /\ taken[item[p]] = 0
  /\ \A x \in fresh : taken[x] = 0

(* The inductive invariant: the deque's window, the locals of a half-done  *)
(* push, pop or steal, and the place of each item fit together.            *)
DequeInv ==
  /\ TypeOK
  /\ WindowInv
  /\ OwnerInv
  /\ ThiefInv
  /\ ItemInv
  /\ NoDoubleTake
  /\ NoLostItem

(* Every behaviour of the deque is one of the abstract work-stealing deque *)
(* of lockfree_deque.h: an item is published by the store to bottom and    *)
(* handed out by the load or the exchange of top that decides the call.    *)
Abstract == INSTANCE WorkStealingDeque
              WITH queue <- Contents, fresh <- fresh \cup InFlight
ImplementsAbstract == Abstract!Spec
=============================================================================
