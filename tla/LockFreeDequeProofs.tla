------------------------- MODULE LockFreeDequeProofs -------------------------
(***************************************************************************)
(* For every capacity, every set of items and every set of thieves, the    *)
(* deque with one owner hands each pushed item out at most once and loses  *)
(* none: DequeInv is inductive.                                            *)
(***************************************************************************)
EXTENDS LockFreeDeque, SequenceTheorems, TLAPS

(* Quotient and remainder by a positive number. *)
LEMMA DivModFacts ==
  ASSUME NEW n \in Nat \ {0}, NEW i \in Int
  PROVE  /\ i % n \in 0 .. n - 1
         /\ i \div n \in Int
         /\ i = n * (i \div n) + (i % n)
OBVIOUS

(* Indices less than Capacity apart lie in different slots of the array. *)
LEMMA SlotInjective ==
  ASSUME NEW i \in Int, NEW j \in Int, i < j, j - i < Capacity
  PROVE  Slot(i) # Slot(j)
<1> USE DequeAssumption
<1>1. SUFFICES ASSUME i % Capacity = j % Capacity PROVE FALSE
  BY DEF Slot
<1> DEFINE q == i \div Capacity
           r == j \div Capacity
           m == i % Capacity
<1>2. /\ q \in Int /\ r \in Int /\ m \in Int
      /\ i = Capacity * q + m
      /\ j = Capacity * r + m
  BY <1>1, DivModFacts
<1> HIDE DEF q, r, m
<1>3. j - i = Capacity * r - Capacity * q
  BY <1>2
<1>4. Capacity * r - Capacity * q = Capacity * (r - q)
  BY <1>2
<1>5. CASE r - q <= 0
  <2>1. Capacity * (r - q) <= 0
    BY <1>2, <1>5
  <2> QED BY <2>1, <1>3, <1>4
<1>6. CASE r - q >= 1
  <2>1. Capacity * (r - q) >= Capacity
    BY <1>2, <1>6
  <2> QED BY <2>1, <1>3, <1>4
<1> QED BY <1>2, <1>5, <1>6

(* Every index has a slot in the array. *)
LEMMA SlotInRange ==
  ASSUME NEW i \in Int
  PROVE  Slot(i) \in 0 .. Capacity - 1
BY DequeAssumption, DivModFacts DEF Slot

-----------------------------------------------------------------------------
(* With one owner, bottom is off by one exactly while that owner pops. *)
LEMMA OwnersBottom ==
  ASSUME SingleOwner, NEW p \in Owners
  PROVE  LogicalBottom = IF Popping(p) THEN bottom + 1 ELSE bottom
BY DEF SingleOwner, LogicalBottom

(* The same after a step. *)
LEMMA OwnersBottomNext ==
  ASSUME SingleOwner, NEW p \in Owners
  PROVE  LogicalBottom' = IF Popping(p)' THEN bottom' + 1 ELSE bottom'
BY DEF SingleOwner, LogicalBottom

(* Types without the lower bound of bottom, which the window gives. *)
Typing ==
  /\ top \in Nat
  /\ bottom \in Int
  /\ items \in [0 .. Capacity - 1 -> Items \cup {Null}]
  /\ pc \in [Threads -> Labels]
  /\ b \in [Threads -> Int]
  /\ t \in [Threads -> Nat]
  /\ item \in [Threads -> Items \cup {Null}]
  /\ fresh \in SUBSET Items
  /\ taken \in [Items -> Nat]

(* Counting a returned item keeps the counts natural numbers. *)
LEMMA TakeType ==
  ASSUME taken \in [Items -> Nat], NEW x, Take(x)
  PROVE  taken' \in [Items -> Nat]
<1>1. taken' = [y \in Items |-> IF y = x THEN taken[y] + 1 ELSE taken[y]]
  BY DEF Take
<1> QED BY <1>1

(* Every step keeps the types: bottom moves by whole slots, top only grows. *)
LEMMA TypingStep ==
  ASSUME TypeOK, ItemInv, OwnerInv, Next
  PROVE  Typing'
<1> USE DEF TypeOK, Typing, Threads, Labels, Goto, At, shared
<1>1. ASSUME NEW p \in Owners, NEW x \in Items, PushLoadBottom(p, x)
      PROVE  Typing'
  BY <1>1 DEF PushLoadBottom
<1>2. ASSUME NEW p \in Owners, PushLoadTop(p)
      PROVE  Typing'
  <2>1. item[p] \in Items
    BY <1>2 DEF PushLoadTop, ItemInv, Pushing
  <2> QED BY <1>2, <2>1 DEF PushLoadTop
<1>3. ASSUME NEW p \in Owners, PushPut(p)
      PROVE  Typing'
  <2>1. items' \in [0 .. Capacity - 1 -> Items \cup {Null}]
    BY <1>3 DEF PushPut
  <2> QED BY <1>3, <2>1 DEF PushPut
<1>4. ASSUME NEW p \in Owners, PushPublish(p)
      PROVE  Typing'
  BY <1>4 DEF PushPublish
<1>5. ASSUME NEW p \in Owners, PopLoadBottom(p)
      PROVE  Typing'
  BY <1>5 DEF PopLoadBottom
<1>6. ASSUME NEW p \in Owners, PopStoreBottom(p)
      PROVE  Typing'
  BY <1>6 DEF PopStoreBottom
<1>7. ASSUME NEW p \in Owners, PopLoadTop(p)
      PROVE  Typing'
  <2>1. items[Slot(b[p])] \in Items \cup {Null}
    BY SlotInRange
  <2>2. taken' \in [Items -> Nat]
    BY <1>7, TakeType DEF PopLoadTop
  <2>3. item' \in [Threads -> Items \cup {Null}]
    BY <1>7, <2>1 DEF PopLoadTop
  <2>4. pc' \in [Threads -> Labels]
    BY <1>7 DEF PopLoadTop
  <2> QED BY <1>7, <2>2, <2>3, <2>4 DEF PopLoadTop
<1>8. ASSUME NEW p \in Owners, PopCas(p)
      PROVE  Typing'
  <2>1. taken' \in [Items -> Nat]
    BY <1>8, TakeType DEF PopCas
  <2> QED BY <1>8, <2>1 DEF PopCas
<1>9. ASSUME NEW p \in Owners, PopRestore(p)
      PROVE  Typing'
  BY <1>9 DEF PopRestore
<1>10. ASSUME NEW p \in Thieves, StealLoadTop(p)
       PROVE  Typing'
  BY <1>10 DEF StealLoadTop
<1>11. ASSUME NEW p \in Thieves, StealLoadBottom(p)
       PROVE  Typing'
  BY <1>11 DEF StealLoadBottom
<1>12. ASSUME NEW p \in Thieves, StealGet(p)
       PROVE  Typing'
  <2>1. items[Slot(t[p])] \in Items \cup {Null}
    BY SlotInRange
  <2> QED BY <1>12, <2>1 DEF StealGet
<1>13. ASSUME NEW p \in Thieves, StealCas(p)
       PROVE  Typing'
  <2>1. taken' \in [Items -> Nat]
    BY <1>13, TakeType DEF StealCas
  <2> QED BY <1>13, <2>1 DEF StealCas
<1> QED
  BY <1>1, <1>2, <1>3, <1>4, <1>5, <1>6, <1>7, <1>8, <1>9, <1>10, <1>11,
     <1>12, <1>13 DEF Next, OwnerStep, ThiefStep

-----------------------------------------------------------------------------
(* The part of the inductive invariant beyond types. *)
Core ==
  /\ WindowInv
  /\ OwnerInv
  /\ ThiefInv
  /\ ItemInv
  /\ NoDoubleTake
  /\ NoLostItem

(* A deque_push that has only loaded bottom leaves the deque as it was; its *)
(* item moves from the caller into the call.                                *)
LEMMA PushLoadBottomStep ==
  ASSUME TypeOK, Core, SingleOwner,
         NEW p \in Owners, NEW x \in Items, PushLoadBottom(p, x)
  PROVE  Core'
<1> USE DEF At, Goto, shared, PushLoadBottom, TypeOK, Threads
<1>1. \A q \in Owners : q = p
  BY DEF SingleOwner
<1>2. LogicalBottom = bottom /\ LogicalBottom' = bottom
  BY OwnersBottom, OwnersBottomNext DEF Popping
<1>3. Pushing(p)' /\ ~Pushing(p) /\ ~Popping(p)' /\ item'[p] = x
  BY DEF Pushing, Popping
<1>4. WindowInv'
  BY <1>2 DEF Core, WindowInv
<1>5. OwnerInv'
  BY <1>1 DEF Core, OwnerInv, Pushing, Popping
<1>6. ThiefInv'
  BY <1>2 DEF Core, ThiefInv
<1>7. ItemInv'
  BY <1>1, <1>2, <1>3 DEF Core, ItemInv
<1>8. NoDoubleTake'
  BY DEF Core, NoDoubleTake
<1>9. NoLostItem'
  BY <1>1, <1>2, <1>3 DEF Core, NoLostItem, InFlight, Queued
<1> QED BY <1>4, <1>5, <1>6, <1>7, <1>8, <1>9 DEF Core

(* The full check: the load of top bounds the window from now on, because   *)
(* top only grows and nobody else moves bottom.                             *)
LEMMA PushLoadTopStep ==
  ASSUME TypeOK, Core, SingleOwner, NEW p \in Owners, PushLoadTop(p)
  PROVE  Core'
<1> USE DEF At, Goto, shared, PushLoadTop, TypeOK, Threads
<1>1. \A q \in Owners : q = p
  BY DEF SingleOwner
<1>2. LogicalBottom = bottom /\ LogicalBottom' = bottom
  BY OwnersBottom, OwnersBottomNext DEF Popping
<1>3. Pushing(p) /\ ~Popping(p)' /\ item' = item /\ b[p] = bottom
  BY DEF Pushing, Popping, Core, OwnerInv
<1>4. WindowInv'
  BY <1>2 DEF Core, WindowInv
<1>5. OwnerInv'
  <2>1. pc'[p] = "idle" \/ (pc'[p] = "push_put" /\ bottom - top < Capacity)
    BY <1>3, DequeAssumption
  <2>2. b' = b /\ bottom' = bottom /\ top' = top
    OBVIOUS
  <2> QED BY <1>1, <1>3, <2>1, <2>2 DEF OwnerInv, Pushing, Popping
<1>6. ThiefInv'
  BY <1>2 DEF Core, ThiefInv
<1>7. CASE Pushing(p)' /\ fresh' = fresh
  BY <1>1, <1>2, <1>3, <1>4, <1>5, <1>6, <1>7
     DEF Core, ItemInv, NoDoubleTake, NoLostItem, InFlight, Queued
<1>8. CASE ~Pushing(p)' /\ fresh' = fresh \cup {item[p]}
  BY <1>1, <1>2, <1>3, <1>4, <1>5, <1>6, <1>8
     DEF Core, ItemInv, NoDoubleTake, NoLostItem, InFlight, Queued
<1> QED BY <1>7, <1>8 DEF Pushing

(* The write to the slot of bottom misses every slot of the window. *)
LEMMA PushPutStep ==
  ASSUME TypeOK, Core, SingleOwner, NEW p \in Owners, PushPut(p)
  PROVE  Core'
<1> USE DEF At, Goto, PushPut, TypeOK, Threads
<1>1. \A q \in Owners : q = p
  BY DEF SingleOwner
<1>2. LogicalBottom = bottom /\ LogicalBottom' = bottom
  BY OwnersBottom, OwnersBottomNext DEF Popping
<1>3. /\ Pushing(p) /\ Pushing(p)' /\ ~Popping(p)'
      /\ b[p] = bottom /\ bottom - top < Capacity
  BY DEF Pushing, Popping, Core, OwnerInv
<1>4. ASSUME NEW i \in top .. bottom - 1
      PROVE  items'[Slot(i)] = items[Slot(i)]
  <2>1. Slot(i) # Slot(bottom)
    BY <1>3, SlotInjective, DequeAssumption
  <2> QED BY <2>1, <1>3, SlotInRange
<1>5. items'[Slot(bottom)] = item[p]
  BY <1>3, SlotInRange
<1>6. WindowInv'
  BY <1>2 DEF Core, WindowInv
<1>7. OwnerInv'
  BY <1>1, <1>3, <1>5 DEF Core, OwnerInv, Pushing, Popping
<1>8. ThiefInv'
  <2>1. top < bottom => items'[Slot(top)] = items[Slot(top)]
    BY <1>4
  <2> QED BY <1>2, <2>1 DEF Core, ThiefInv
<1>9. ItemInv'
  BY <1>1, <1>2, <1>3, <1>4 DEF Core, ItemInv
<1>10. NoDoubleTake'
  BY DEF Core, NoDoubleTake
<1>11. NoLostItem'
  <2>1. InFlight' = InFlight
    BY <1>1, <1>3 DEF InFlight
  <2>2. Queued' = Queued
    BY <1>2, <1>4 DEF Queued
  <2> QED BY <2>1, <2>2 DEF Core, NoLostItem
<1> QED BY <1>6, <1>7, <1>8, <1>9, <1>10, <1>11 DEF Core

(* The store to bottom makes the item the youngest of the window. *)
LEMMA PushPublishStep ==
  ASSUME TypeOK, Core, SingleOwner, NEW p \in Owners, PushPublish(p)
  PROVE  Core'
<1> USE DEF At, Goto, PushPublish, TypeOK, Threads
<1>1. \A q \in Owners : q = p
  BY DEF SingleOwner
<1>2. LogicalBottom = bottom /\ LogicalBottom' = bottom + 1
  BY OwnersBottom, OwnersBottomNext DEF Popping, Core, OwnerInv, Pushing
<1>3. /\ Pushing(p) /\ ~Pushing(p)' /\ ~Popping(p)'
      /\ b[p] = bottom /\ bottom - top < Capacity
      /\ items[Slot(bottom)] = item[p]
  BY DEF Pushing, Popping, Core, OwnerInv
<1>4. item[p] \in Items /\ item[p] \notin fresh /\ taken[item[p]] = 0
  BY <1>3 DEF Core, ItemInv
<1>5. WindowInv'
  BY <1>2, <1>3, DequeAssumption DEF Core, WindowInv
<1>6. OwnerInv'
  BY <1>1, <1>3 DEF OwnerInv, Pushing, Popping
<1>7. ThiefInv'
  BY <1>2 DEF Core, ThiefInv
<1>8. ItemInv'
  <2>1. ASSUME NEW i \in top .. bottom
        PROVE  i \in top .. LogicalBottom - 1 \/ i = bottom
    BY <1>2
  <2>2. ASSUME NEW i \in top .. bottom, NEW j \in top .. bottom,
               items[Slot(i)] = items[Slot(j)]
        PROVE  i = j
    BY <2>1, <2>2, <1>3 DEF Core, ItemInv
  <2> QED BY <2>1, <2>2, <1>1, <1>2, <1>3, <1>4 DEF Core, ItemInv
<1>9. NoDoubleTake'
  BY DEF Core, NoDoubleTake
<1>10. NoLostItem'
  <2>1. bottom \in top .. LogicalBottom' - 1
    BY <1>2 DEF Core, WindowInv
  <2> QED BY <2>1, <1>1, <1>2, <1>3 DEF Core, NoLostItem, InFlight, Queued
<1> QED BY <1>5, <1>6, <1>7, <1>8, <1>9, <1>10 DEF Core

(* A deque_pop that has only loaded bottom changes nothing shared. *)
LEMMA PopLoadBottomStep ==
  ASSUME TypeOK, Core, SingleOwner, NEW p \in Owners, PopLoadBottom(p)
  PROVE  Core'
<1> USE DEF At, Goto, shared, PopLoadBottom, TypeOK, Threads
<1>1. \A q \in Owners : q = p
  BY DEF SingleOwner
<1>2. LogicalBottom = bottom /\ LogicalBottom' = bottom
  BY OwnersBottom, OwnersBottomNext DEF Popping
<1>3. /\ ~Pushing(p) /\ ~Pushing(p)' /\ ~Popping(p)'
      /\ b'[p] = bottom - 1 /\ pc'[p] = "pop_storebottom"
  BY DEF Pushing, Popping
<1>4. OwnerInv'
  BY <1>1, <1>3 DEF OwnerInv, Pushing, Popping
<1>5. ThiefInv'
  BY <1>2 DEF Core, ThiefInv
<1>6. WindowInv' /\ ItemInv' /\ NoDoubleTake' /\ NoLostItem'
  BY <1>1, <1>2, <1>3
     DEF Core, WindowInv, ItemInv, NoDoubleTake, NoLostItem, InFlight, Queued
<1> QED BY <1>4, <1>5, <1>6 DEF Core

(* The decrement of bottom hides the youngest item from the thieves, but it *)
(* stays in the deque until the call is decided.                            *)
LEMMA PopStoreBottomStep ==
  ASSUME TypeOK, Core, SingleOwner, NEW p \in Owners, PopStoreBottom(p)
  PROVE  Core'
<1> USE DEF At, Goto, PopStoreBottom, TypeOK, Threads
<1>1. \A q \in Owners : q = p
  BY DEF SingleOwner
<1>2. /\ ~Pushing(p) /\ ~Pushing(p)' /\ ~Popping(p) /\ Popping(p)'
      /\ bottom' = bottom - 1 /\ b[p] = bottom - 1 /\ pc'[p] = "pop_loadtop"
  BY DEF Pushing, Popping, Core, OwnerInv
<1>3. LogicalBottom = bottom /\ LogicalBottom' = bottom
  BY <1>2, OwnersBottom, OwnersBottomNext
<1>4. OwnerInv'
  BY <1>1, <1>2 DEF OwnerInv, Pushing, Popping
<1>5. ThiefInv'
  BY <1>3 DEF Core, ThiefInv
<1>6. WindowInv' /\ ItemInv' /\ NoDoubleTake' /\ NoLostItem'
  BY SMTT(30), <1>1, <1>2, <1>3
     DEF Core, WindowInv, ItemInv, NoDoubleTake, NoLostItem, InFlight, Queued
<1> QED BY <1>4, <1>5, <1>6 DEF Core

(* Handing out one item of the window, and only that one, keeps the item    *)
(* invariants: the window shrinks by the index of the item.                 *)
LEMMA TakeCounts ==
  ASSUME TypeOK, NEW x \in Items, taken[x] = 0, Take(x), NoDoubleTake
  PROVE  /\ NoDoubleTake'
         /\ taken'[x] = 1
         /\ \A y \in Items : y # x => taken'[y] = taken[y]
<1>1. taken' = [y \in Items |-> IF y = x THEN taken[y] + 1 ELSE taken[y]]
  BY DEF Take, TypeOK
<1> QED BY <1>1 DEF NoDoubleTake, TypeOK

(* The load of top decides a pop of one item among several: no thief can    *)
(* reach the index bottom any more, because thieves read bottom again after *)
(* top and the two are apart.                                               *)
LEMMA PopLoadTopStep ==
  ASSUME TypeOK, Core, SingleOwner, NEW p \in Owners, PopLoadTop(p)
  PROVE  Core'
<1> USE DEF At, Goto, shared, PopLoadTop, TypeOK, Threads
<1>1. \A q \in Owners : q = p
  BY DEF SingleOwner
<1>2. /\ ~Pushing(p) /\ ~Pushing(p)' /\ Popping(p) /\ b[p] = bottom
  BY DEF Pushing, Popping, Core, OwnerInv
<1>3. LogicalBottom = bottom + 1
  BY <1>2, OwnersBottom
<1>4. top <= bottom + 1 /\ bottom + 1 <= top + Capacity
  BY <1>3 DEF Core, WindowInv
<1>5. InFlight = {} /\ InFlight' = {}
  BY <1>1, <1>2 DEF InFlight
<1>6. CASE top < bottom
  <2> DEFINE x == items[Slot(bottom)]
  <2>1. bottom \in top .. LogicalBottom - 1
    BY <1>3, <1>6
  <2>2. x \in Items /\ x \notin fresh /\ taken[x] = 0
    BY <2>1 DEF Core, ItemInv
  <2>3. Take(x) /\ pc'[p] = "idle"
    BY <1>2, <1>6
  <2>4. NoDoubleTake' /\ taken'[x] = 1 /\ \A y \in Items : y # x => taken'[y] = taken[y]
    BY <2>2, <2>3, TakeCounts DEF Core
  <2>5. LogicalBottom' = bottom
    BY <2>3, OwnersBottomNext DEF Popping
  <2> HIDE DEF x
  <2>6. ASSUME NEW i \in top .. bottom - 1
        PROVE  /\ i \in top .. LogicalBottom - 1
               /\ items[Slot(i)] # x
    BY <1>3, <1>6, <2>1 DEF Core, ItemInv, x
  <2>7. WindowInv'
    BY <1>4, <1>6, <2>5, DequeAssumption DEF WindowInv
  <2>8. OwnerInv'
    BY <1>1, <2>3 DEF OwnerInv, Pushing, Popping
  <2>9. ThiefInv'
    <3>1. \A q \in Threads : q # p => pc'[q] = pc[q] /\ t'[q] = t[q] /\ item'[q] = item[q]
      OBVIOUS
    <3>2. top' = top /\ items' = items
      OBVIOUS
    <3> QED BY <1>3, <1>6, <2>3, <2>5, <3>1, <3>2 DEF Core, ThiefInv
  <2>10. ItemInv'
    <3>1. \A i \in top .. bottom - 1 :
             /\ items[Slot(i)] \in Items /\ items[Slot(i)] \notin fresh
             /\ taken'[items[Slot(i)]] = 0
      BY <2>4, <2>6 DEF Core, ItemInv
    <3>2. \A i, j \in top .. bottom - 1 : items[Slot(i)] = items[Slot(j)] => i = j
      BY <2>6 DEF Core, ItemInv
    <3>3. \A y \in fresh : taken'[y] = 0
      BY <2>2, <2>4 DEF Core, ItemInv
    <3> QED BY <1>1, <1>2, <2>5, <3>1, <3>2, <3>3 DEF ItemInv
  <2>11. NoLostItem'
    <3>1. SUFFICES ASSUME NEW y \in Items, y # x
                   PROVE  y \in fresh \cup Queued' \/ taken'[y] > 0
      BY <1>5, <2>4 DEF NoLostItem
    <3>2. y \in fresh \/ y \in Queued \/ taken[y] > 0
      BY <1>5 DEF Core, NoLostItem
    <3>3. CASE y \in Queued
      <4>1. PICK i \in top .. bottom : y = items[Slot(i)]
        BY <1>3, <3>3 DEF Queued
      <4>2. i \in top .. bottom - 1
        BY <3>1, <4>1 DEF x
      <4> QED BY <2>5, <4>1, <4>2 DEF Queued
    <3> QED BY <2>4, <3>1, <3>2, <3>3
  <2> QED BY <2>4, <2>7, <2>8, <2>9, <2>10, <2>11 DEF Core
<1>7. CASE top >= bottom
  <2>1. /\ taken' = taken
        /\ pc'[p] = IF top = bottom THEN "pop_cas" ELSE "pop_restore"
        /\ top = bottom => item'[p] = items[Slot(bottom)]
        /\ t'[p] = top
    BY <1>2, <1>7
  <2>2. Popping(p)' /\ LogicalBottom' = bottom + 1
    BY <2>1, OwnersBottomNext DEF Popping
  <2>3. OwnerInv'
    BY <1>1, <1>2, <1>4, <1>7, <2>1 DEF OwnerInv, Pushing, Popping
  <2>4. ThiefInv'
    BY <1>3, <2>1, <2>2 DEF Core, ThiefInv
  <2>5. WindowInv' /\ ItemInv' /\ NoDoubleTake' /\ NoLostItem'
    BY <1>1, <1>2, <1>3, <1>5, <2>1, <2>2
       DEF Core, WindowInv, ItemInv, NoDoubleTake, NoLostItem, Queued
  <2> QED BY <2>3, <2>4, <2>5 DEF Core
<1> QED BY <1>6, <1>7

-----------------------------------------------------------------------------
(* The exchange that moves top hands out the oldest item: shared by         *)
(* deque_pop on the last item and by deque_steal.                           *)
LEMMA AdvanceTop ==
  ASSUME TypeOK, Core, SingleOwner, top < LogicalBottom,
         Take(items[Slot(top)]), top' = top + 1,
         LogicalBottom' = LogicalBottom,
         UNCHANGED <<bottom, items, item, fresh>>,
         \A p \in Owners : Pushing(p)' = Pushing(p)
  PROVE  WindowInv' /\ ItemInv' /\ NoDoubleTake' /\ NoLostItem'
<1> USE DEF TypeOK
<1> DEFINE x == items[Slot(top)]
<1>1. LogicalBottom \in Int
  BY DEF LogicalBottom
<1>2. top \in top .. LogicalBottom - 1
  BY <1>1
<1>3. x \in Items /\ x \notin fresh /\ taken[x] = 0
  BY <1>2 DEF Core, ItemInv
<1>4. /\ NoDoubleTake' /\ taken'[x] = 1
      /\ \A y \in Items : y # x => taken'[y] = taken[y]
  BY <1>3, TakeCounts DEF Core
<1>5. \A p \in Owners : Pushing(p) => item[p] # x
  BY <1>2 DEF Core, ItemInv
<1> HIDE DEF x
<1>6. ASSUME NEW i \in top + 1 .. LogicalBottom - 1
      PROVE  i \in top .. LogicalBottom - 1 /\ items[Slot(i)] # x
  <2>1. i \in top .. LogicalBottom - 1 /\ i # top
    BY <1>1
  <2> QED BY <1>2, <2>1 DEF Core, ItemInv, x
<1>7. WindowInv'
  BY <1>1, DequeAssumption DEF Core, WindowInv
<1>8. ItemInv'
  <2>1. ASSUME NEW i \in top + 1 .. LogicalBottom - 1
        PROVE  /\ items[Slot(i)] \in Items /\ items[Slot(i)] \notin fresh
               /\ taken'[items[Slot(i)]] = 0
               /\ \A p \in Owners : Pushing(p) => item[p] # items[Slot(i)]
    BY <1>4, <1>6 DEF Core, ItemInv
  <2>2. \A i, j \in top + 1 .. LogicalBottom - 1 :
           items[Slot(i)] = items[Slot(j)] => i = j
    BY <1>6 DEF Core, ItemInv
  <2>3. \A y \in fresh : taken'[y] = 0
    BY <1>3, <1>4 DEF Core, ItemInv
  <2>4. \A p \in Owners : Pushing(p) =>
           item[p] \in Items /\ item[p] \notin fresh /\ taken'[item[p]] = 0
    BY <1>4, <1>5 DEF Core, ItemInv
  <2> QED BY <2>1, <2>2, <2>3, <2>4 DEF ItemInv
<1>9. NoLostItem'
  <2>1. SUFFICES ASSUME NEW y \in Items, y # x
                 PROVE  y \in fresh \cup InFlight' \cup Queued' \/ taken'[y] > 0
    BY <1>4 DEF NoLostItem
  <2>2. InFlight' = InFlight
    BY DEF InFlight
  <2>3. CASE y \in Queued
    <3>1. PICK i \in top .. LogicalBottom - 1 : y = items[Slot(i)]
      BY <2>3 DEF Queued
    <3>2. i \in top + 1 .. LogicalBottom - 1
      BY <1>1, <2>1, <3>1 DEF x
    <3> QED BY <3>1, <3>2 DEF Queued
  <2> QED BY <1>4, <2>1, <2>2, <2>3 DEF Core, NoLostItem
<1> QED BY <1>4, <1>7, <1>8, <1>9

(* The last item goes to the owner if no thief has moved top. *)
LEMMA PopCasStep ==
  ASSUME TypeOK, Core, SingleOwner, NEW p \in Owners, PopCas(p)
  PROVE  Core'
<1> USE DEF At, Goto, PopCas, TypeOK, Threads
<1>1. \A q \in Owners : q = p
  BY DEF SingleOwner
<1>2. /\ ~Pushing(p) /\ ~Pushing(p)' /\ Popping(p) /\ Popping(p)'
      /\ b[p] = bottom /\ t[p] = bottom /\ item[p] = items[Slot(bottom)]
      /\ pc'[p] = "pop_restore"
  BY DEF Pushing, Popping, Core, OwnerInv
<1>3. LogicalBottom = bottom + 1 /\ LogicalBottom' = bottom + 1
  BY <1>2, OwnersBottom, OwnersBottomNext
<1>4. top <= bottom + 1
  BY <1>3 DEF Core, WindowInv
<1>5. CASE top = t[p]
  <2>1. /\ top' = top + 1 /\ Take(items[Slot(top)]) /\ top = bottom
    BY <1>2, <1>5
  <2>2. WindowInv' /\ ItemInv' /\ NoDoubleTake' /\ NoLostItem'
    <3>1. \A q \in Owners : Pushing(q)' = Pushing(q)
      BY <1>1, <1>2 DEF Pushing
    <3>2. top < LogicalBottom /\ LogicalBottom' = LogicalBottom
      BY <1>3, <2>1
    <3>3. UNCHANGED <<bottom, items, item, fresh>>
      BY <1>5
    <3> QED BY <2>1, <3>1, <3>2, <3>3, AdvanceTop
  <2>3. OwnerInv'
    BY <1>1, <1>2, <2>1 DEF OwnerInv, Pushing, Popping
  <2>4. ThiefInv'
    BY <1>2, <1>3, <2>1 DEF Core, ThiefInv
  <2> QED BY <2>2, <2>3, <2>4 DEF Core
<1>6. CASE top # t[p]
  <2>1. top' = top /\ taken' = taken /\ top # bottom
    BY <1>2, <1>6
  <2>2. top = bottom + 1
    <3>1. top >= bottom
      BY DEF Core, OwnerInv
    <3> QED BY <1>4, <2>1, <3>1
  <2>3. OwnerInv'
    BY <1>1, <1>2, <2>1, <2>2 DEF OwnerInv, Pushing, Popping
  <2>4. ThiefInv'
    BY <1>2, <1>3, <2>1 DEF Core, ThiefInv
  <2>5. WindowInv' /\ ItemInv' /\ NoDoubleTake'
    BY <1>1, <1>2, <1>3, <2>1 DEF Core, WindowInv, ItemInv, NoDoubleTake
  <2>6. NoLostItem'
    <3>1. InFlight = {} /\ InFlight' = {}
      BY <1>1, <1>2 DEF InFlight
    <3>2. Queued' = Queued
      BY <1>3, <2>1 DEF Queued
    <3> QED BY <2>1, <3>1, <3>2 DEF Core, NoLostItem
  <2> QED BY <2>3, <2>4, <2>5, <2>6 DEF Core
<1> QED BY <1>5, <1>6

(* The empty deque gets its bottom back. *)
LEMMA PopRestoreStep ==
  ASSUME TypeOK, Core, SingleOwner, NEW p \in Owners, PopRestore(p)
  PROVE  Core'
<1> USE DEF At, Goto, PopRestore, TypeOK, Threads
<1>1. \A q \in Owners : q = p
  BY DEF SingleOwner
<1>2. /\ ~Pushing(p) /\ ~Pushing(p)' /\ Popping(p) /\ ~Popping(p)'
      /\ b[p] = bottom /\ pc'[p] = "idle" /\ bottom' = bottom + 1
  BY DEF Pushing, Popping, Core, OwnerInv
<1>3. LogicalBottom = bottom + 1 /\ LogicalBottom' = bottom + 1
  BY <1>2, OwnersBottom, OwnersBottomNext
<1>4. OwnerInv'
  BY <1>1, <1>2 DEF OwnerInv, Pushing, Popping
<1>5. ThiefInv'
  BY <1>2, <1>3 DEF Core, ThiefInv
<1>6. WindowInv' /\ ItemInv' /\ NoDoubleTake'
  BY <1>1, <1>2, <1>3 DEF Core, WindowInv, ItemInv, NoDoubleTake
<1>7. NoLostItem'
  <2>1. InFlight = {} /\ InFlight' = {}
    BY <1>1, <1>2 DEF InFlight
  <2>2. Queued' = Queued
    BY <1>3 DEF Queued
  <2> QED BY <2>1, <2>2 DEF Core, NoLostItem
<1> QED BY <1>4, <1>5, <1>6, <1>7 DEF Core

-----------------------------------------------------------------------------
(* The steps of deque_steal before the exchange change nothing shared. *)
LEMMA StealReadsStep ==
  ASSUME TypeOK, Core, NEW p \in Thieves,
         StealLoadTop(p) \/ StealLoadBottom(p) \/ StealGet(p)
  PROVE  Core'
<1> USE DEF At, Goto, shared, StealLoadTop, StealLoadBottom, StealGet, TypeOK,
            Threads
<1>1. \A q \in Threads : q # p =>
         /\ pc'[q] = pc[q] /\ b'[q] = b[q] /\ t'[q] = t[q] /\ item'[q] = item[q]
  OBVIOUS
<1>2. pc[p] \in {"idle", "steal_loadbottom", "steal_get"}
  OBVIOUS
<1>3. pc'[p] \in {"idle", "steal_loadbottom", "steal_get", "steal_cas"}
  OBVIOUS
<1>4. \A q \in Owners : /\ Pushing(q)' = Pushing(q)
                        /\ Popping(q)' = Popping(q)
                        /\ Pushing(q) => item'[q] = item[q]
  BY <1>1, <1>2, <1>3 DEF Pushing, Popping
<1>5. UNCHANGED <<top, bottom, items, fresh, taken>>
  OBVIOUS
<1>6. LogicalBottom' = LogicalBottom
  BY <1>4, <1>5 DEF LogicalBottom
<1>7. InFlight' = InFlight /\ Queued' = Queued
  BY <1>4, <1>5, <1>6 DEF InFlight, Queued
<1>8. WindowInv' /\ NoDoubleTake' /\ NoLostItem'
  BY <1>5, <1>6, <1>7 DEF Core, WindowInv, NoDoubleTake, NoLostItem
<1>9. ItemInv'
  BY <1>4, <1>5, <1>6 DEF Core, ItemInv
<1>10. OwnerInv'
  <2>1. SUFFICES ASSUME NEW q \in Owners, q # p
                 PROVE  /\ Pushing(q) => b[q] = bottom
                        /\ pc[q] \in {"push_put", "push_publish"} => bottom - top < Capacity
                        /\ At(q, "push_publish") => items[Slot(bottom)] = item[q]
                        /\ At(q, "pop_storebottom") => b[q] = bottom - 1
                        /\ Popping(q) => b[q] = bottom
                        /\ At(q, "pop_cas") => /\ t[q] = bottom /\ bottom <= top
                                               /\ item[q] = items[Slot(bottom)]
                        /\ At(q, "pop_restore") => top = bottom + 1
    BY <1>1, <1>3, <1>4, <1>5 DEF OwnerInv, Pushing, Popping
  <2> QED BY DEF Core, OwnerInv
<1>11. ThiefInv'
  <2>1. LogicalBottom >= bottom /\ LogicalBottom \in Int
    BY DEF LogicalBottom
  <2>2. /\ pc'[p] \in {"steal_loadbottom", "steal_get", "steal_cas"} => t'[p] <= top
        /\ pc'[p] \in {"steal_get", "steal_cas"} /\ t'[p] = top => top < LogicalBottom
        /\ pc'[p] = "steal_cas" /\ t'[p] = top => item'[p] = items[Slot(top)]
    <3>1. CASE StealLoadTop(p)
      BY <3>1
    <3>2. CASE StealLoadBottom(p)
      BY <3>2, <2>1 DEF Core, ThiefInv
    <3>3. CASE StealGet(p)
      BY <3>3 DEF Core, ThiefInv
    <3> QED BY <3>1, <3>2, <3>3
  <2> QED BY <1>1, <1>5, <1>6, <2>2 DEF Core, ThiefInv
<1> QED BY <1>8, <1>9, <1>10, <1>11 DEF Core

(* An exchange that succeeds takes the oldest item, whatever the owner is   *)
(* doing; one that fails changes nothing.                                   *)
LEMMA StealCasStep ==
  ASSUME TypeOK, Core, SingleOwner, NEW p \in Thieves, StealCas(p)
  PROVE  Core'
<1> USE DEF At, Goto, StealCas, TypeOK, Threads
<1>1. \A q \in Threads : q # p => pc'[q] = pc[q]
  OBVIOUS
<1>2. pc[p] = "steal_cas" /\ pc'[p] = "idle"
  OBVIOUS
<1>3. \A q \in Owners : Pushing(q)' = Pushing(q) /\ Popping(q)' = Popping(q)
  BY <1>1, <1>2 DEF Pushing, Popping
<1>4. UNCHANGED <<bottom, items, b, t, item, fresh>>
  OBVIOUS
<1>5. LogicalBottom' = LogicalBottom /\ LogicalBottom \in Int
  BY <1>3, <1>4 DEF LogicalBottom
<1>6. CASE top = t[p]
  <2>1. top < LogicalBottom /\ item[p] = items[Slot(top)] /\ top' = top + 1
    BY <1>2, <1>6 DEF Core, ThiefInv
  <2>2. Take(items[Slot(top)])
    BY <1>6, <2>1
  <2>3. WindowInv' /\ ItemInv' /\ NoDoubleTake' /\ NoLostItem'
    BY <1>3, <1>4, <1>5, <2>1, <2>2, AdvanceTop
  <2>4. OwnerInv'
    <3>1. ASSUME NEW q \in Owners
          PROVE  /\ pc'[q] = pc[q] \/ (pc'[q] = "idle" /\ q = p)
                 /\ At(q, "pop_restore") => FALSE
                 /\ At(q, "pop_cas") => bottom <= top + 1
      BY <1>1, <1>2, <2>1, OwnersBottom DEF Core, OwnerInv, Popping
    <3>2. SUFFICES ASSUME NEW q \in Owners, pc'[q] = pc[q]
                   PROVE  /\ Pushing(q) => b[q] = bottom
                          /\ pc[q] \in {"push_put", "push_publish"} =>
                                bottom - (top + 1) < Capacity
                          /\ At(q, "push_publish") => items[Slot(bottom)] = item[q]
                          /\ At(q, "pop_storebottom") => b[q] = bottom - 1
                          /\ Popping(q) => b[q] = bottom
                          /\ At(q, "pop_cas") => /\ t[q] = bottom /\ bottom <= top + 1
                                                 /\ item[q] = items[Slot(bottom)]
                          /\ ~At(q, "pop_restore")
      BY <1>2, <1>4, <2>1, <3>1 DEF OwnerInv, Pushing, Popping
    <3> QED BY <3>1, DequeAssumption DEF Core, OwnerInv
  <2>5. ThiefInv'
    BY <1>1, <1>2, <1>4, <1>5, <2>1 DEF Core, ThiefInv
  <2> QED BY <2>3, <2>4, <2>5 DEF Core
<1>7. CASE top # t[p]
  <2>1. top' = top /\ taken' = taken
    BY <1>7
  <2>2. InFlight' = InFlight /\ Queued' = Queued
    BY <1>3, <1>4, <1>5, <2>1 DEF InFlight, Queued
  <2>3. WindowInv' /\ NoDoubleTake' /\ NoLostItem'
    BY <1>4, <1>5, <2>1, <2>2 DEF Core, WindowInv, NoDoubleTake, NoLostItem
  <2>4. ItemInv'
    BY <1>3, <1>4, <1>5, <2>1 DEF Core, ItemInv
  <2>5. OwnerInv'
    BY <1>1, <1>2, <1>3, <1>4, <2>1 DEF Core, OwnerInv, Pushing, Popping
  <2>6. ThiefInv'
    BY <1>1, <1>2, <1>4, <1>5, <2>1 DEF Core, ThiefInv
  <2> QED BY <2>3, <2>4, <2>5, <2>6 DEF Core
<1> QED BY <1>6, <1>7

-----------------------------------------------------------------------------
(* deque_create establishes the invariant. *)
LEMMA InitInv ==
  ASSUME Init
  PROVE  DequeInv
<1> USE DEF Init
<1>1. TypeOK
  BY DEF TypeOK, Labels
<1>2. /\ \A p \in Owners : ~Pushing(p) /\ ~Popping(p)
      /\ \A p \in Threads : pc[p] = "idle"
  BY DEF Pushing, Popping, Threads
<1>3. LogicalBottom = 0
  BY <1>2 DEF LogicalBottom
<1>4. WindowInv
  BY <1>3, DequeAssumption DEF WindowInv
<1>5. OwnerInv /\ ThiefInv
  BY <1>2 DEF OwnerInv, ThiefInv, Pushing, Popping, At, Threads
<1>6. ItemInv /\ NoDoubleTake /\ NoLostItem
  BY <1>2, <1>3 DEF ItemInv, NoDoubleTake, NoLostItem
<1> QED BY <1>1, <1>4, <1>5, <1>6 DEF DequeInv

(* Every step of an owner or of a thief keeps the invariant. *)
LEMMA StepInv ==
  ASSUME SingleOwner, DequeInv, [Next]_vars
  PROVE  DequeInv'
<1>1. TypeOK /\ Core
  BY DEF DequeInv, Core
<1>2. CASE Next
  <2>1. Core'
    <3>1. ASSUME NEW p \in Owners, OwnerStep(p) PROVE Core'
      BY <1>1, <3>1, PushLoadBottomStep, PushLoadTopStep, PushPutStep,
         PushPublishStep, PopLoadBottomStep, PopStoreBottomStep,
         PopLoadTopStep, PopCasStep, PopRestoreStep DEF OwnerStep
    <3>2. ASSUME NEW p \in Thieves, ThiefStep(p) PROVE Core'
      BY <1>1, <3>2, StealReadsStep, StealCasStep DEF ThiefStep
    <3> QED BY <1>2, <3>1, <3>2 DEF Next
  <2>2. Typing'
    BY <1>1, <1>2, TypingStep DEF Core
  <2>3. LogicalBottom' = bottom' + 1 \/ LogicalBottom' = bottom'
    BY DEF LogicalBottom
  <2>4. bottom' \in Nat \cup {-1}
    BY <2>1, <2>2, <2>3 DEF Core, WindowInv, Typing
  <2>5. TypeOK'
    BY <2>2, <2>4 DEF Typing, TypeOK
  <2> QED BY <2>1, <2>5 DEF DequeInv, Core
<1>3. CASE UNCHANGED vars
  BY <1>3 DEF DequeInv, vars, TypeOK, WindowInv, OwnerInv, ThiefInv, ItemInv,
     NoDoubleTake, NoLostItem, LogicalBottom, Pushing, Popping, InFlight,
     Queued, At
<1> QED BY <1>2, <1>3

(* With one owner, as lockfree_deque.h requires, the inductive invariant    *)
(* holds in every state, for every capacity and any number of thieves.      *)
THEOREM DequeInvariant ==
  ASSUME SingleOwner
  PROVE  Spec => []DequeInv
<1>1. Init => DequeInv
  BY InitInv
<1>2. DequeInv /\ [Next]_vars => DequeInv'
  BY StepInv
<1> QED BY <1>1, <1>2, PTL DEF Spec

(* deque_pop and deque_steal never return one item twice. *)
THEOREM DequeNoDoubleTake ==
  ASSUME SingleOwner
  PROVE  Spec => []NoDoubleTake
<1>1. DequeInv => NoDoubleTake
  BY DEF DequeInv
<1> QED BY <1>1, DequeInvariant, PTL

(* No item whose push returned true is lost. *)
THEOREM DequeNoLostItem ==
  ASSUME SingleOwner
  PROVE  Spec => []NoLostItem
<1>1. DequeInv => NoLostItem
  BY DEF DequeInv
<1> QED BY <1>1, DequeInvariant, PTL

(* Type correctness, with bottom never below -1. *)
THEOREM DequeTypeOK ==
  ASSUME SingleOwner
  PROVE  Spec => []TypeOK
<1>1. DequeInv => TypeOK
  BY DEF DequeInv
<1> QED BY <1>1, DequeInvariant, PTL

-----------------------------------------------------------------------------
(* Refinement: what each step does to the contents.                        *)

(* A function on 1 .. n is a sequence of length n. *)
LEMMA FunctionIsSeq ==
  ASSUME NEW S, NEW n \in Nat, NEW f \in [1 .. n -> S]
  PROVE  f \in Seq(S) /\ Len(f) = n
<1>1. f \in Seq(S)
  BY SeqDef
<1>2. DOMAIN f = 1 .. n /\ DOMAIN f = 1 .. Len(f) /\ Len(f) \in Nat
  BY <1>1, LenProperties
<1> QED BY <1>1, <1>2

(* The contents are the items of the window, in its order. *)
LEMMA ContentsSeq ==
  ASSUME TypeOK, WindowInv, ItemInv
  PROVE  /\ LogicalBottom \in Int
         /\ Contents \in Seq(Items)
         /\ Len(Contents) = LogicalBottom - top
         /\ \A k \in 1 .. LogicalBottom - top : Contents[k] = items[Slot(top + k - 1)]
<1>1. LogicalBottom \in Int /\ LogicalBottom - top \in Nat
  BY DEF TypeOK, WindowInv, LogicalBottom
<1>2. ASSUME NEW k \in 1 .. LogicalBottom - top
      PROVE  items[Slot(top + k - 1)] \in Items
  <2>1. top + k - 1 \in top .. LogicalBottom - 1
    BY <1>1 DEF TypeOK
  <2> QED BY <2>1 DEF ItemInv
<1>3. Contents \in [1 .. LogicalBottom - top -> Items]
  BY <1>2 DEF Contents
<1> QED BY <1>1, <1>3, FunctionIsSeq DEF Contents

(* The same after a step. *)
LEMMA ContentsSeqNext ==
  ASSUME TypeOK', WindowInv', ItemInv'
  PROVE  /\ LogicalBottom' \in Int
         /\ Contents' \in Seq(Items)
         /\ Len(Contents') = LogicalBottom' - top'
         /\ \A k \in 1 .. LogicalBottom' - top' : Contents'[k] = items'[Slot(top' + k - 1)]
<1> DEFINE n == top'
           m == LogicalBottom'
<1>1. n \in Nat /\ m \in Int /\ m - n \in Nat
  <2>1. top' \in Nat /\ bottom' \in Int
    BY DEF TypeOK
  <2>2. LogicalBottom' = bottom' + 1 \/ LogicalBottom' = bottom'
    BY DEF LogicalBottom
  <2>3. top' <= LogicalBottom'
    BY DEF WindowInv
  <2> QED BY <2>1, <2>2, <2>3
<1>2. \A i \in n .. m - 1 : items'[Slot(i)] \in Items
  BY DEF ItemInv
<1>3. Contents' = [k \in 1 .. m - n |-> items'[Slot(n + k - 1)]]
  BY DEF Contents
<1> HIDE DEF n, m
<1>4. \A k \in 1 .. m - n : n + k - 1 \in n .. m - 1
  BY <1>1
<1>5. Contents' \in [1 .. m - n -> Items]
  BY <1>2, <1>3, <1>4
<1>6. Contents' \in Seq(Items) /\ Len(Contents') = m - n
  BY <1>1, <1>5, FunctionIsSeq
<1> QED BY <1>1, <1>3, <1>6 DEF n, m

(* A step that leaves the window and its slots alone. *)
LEMMA SameContents ==
  ASSUME DequeInv, DequeInv', top' = top, LogicalBottom' = LogicalBottom,
         \A i \in top .. LogicalBottom - 1 : items'[Slot(i)] = items[Slot(i)]
  PROVE  Contents' = Contents
<1>1. ASSUME NEW k \in 1 .. LogicalBottom - top
      PROVE  Contents'[k] = Contents[k]
  <2>1. top + k - 1 \in top .. LogicalBottom - 1
    BY ContentsSeq DEF DequeInv, TypeOK
  <2> QED BY <2>1, ContentsSeq, ContentsSeqNext DEF DequeInv
<1> QED BY <1>1, ContentsSeq, ContentsSeqNext, SeqEqual DEF DequeInv

(* The store to bottom of deque_push: one item more at the young end. *)
LEMMA LongerContents ==
  ASSUME DequeInv, DequeInv', top' = top, items' = items,
         LogicalBottom' = LogicalBottom + 1
  PROVE  Contents' = Append(Contents, items[Slot(LogicalBottom)])
<1> DEFINE x == items[Slot(LogicalBottom)]
           n == LogicalBottom - top
<1>1. /\ LogicalBottom \in Int /\ top \in Nat /\ n \in Nat
      /\ Contents \in Seq(Items) /\ Len(Contents) = n
      /\ \A k \in 1 .. n : Contents[k] = items[Slot(top + k - 1)]
  BY ContentsSeq DEF DequeInv, TypeOK, WindowInv
<1>2. /\ Contents' \in Seq(Items) /\ Len(Contents') = n + 1
      /\ \A k \in 1 .. n + 1 : Contents'[k] = items[Slot(top + k - 1)]
  <2>1. LogicalBottom' - top' = n + 1
    BY <1>1
  <2> QED BY <2>1, ContentsSeqNext DEF DequeInv
<1>3. Contents'[n + 1] = x
  <2>1. top + (n + 1) - 1 = LogicalBottom /\ n + 1 \in 1 .. n + 1
    BY SMTT(30), <1>1
  <2> QED BY <1>2, <2>1
<1> HIDE DEF x, n
<1>4. x \in Items
  <2>1. Contents'[n + 1] \in Items
    BY <1>1, <1>2, ElementOfSeq
  <2> QED BY <1>3, <2>1
<1>5. /\ Append(Contents, x) \in Seq(Items)
      /\ Len(Append(Contents, x)) = n + 1
      /\ \A k \in 1 .. n : Append(Contents, x)[k] = Contents[k]
      /\ Append(Contents, x)[n + 1] = x
  BY <1>1, <1>4, AppendProperties
<1>6. ASSUME NEW k \in 1 .. n + 1
      PROVE  Contents'[k] = Append(Contents, x)[k]
  <2>1. k \in 1 .. n \/ k = n + 1
    BY <1>1
  <2>2. k \in 1 .. n => Contents'[k] = Contents[k]
    BY <1>1, <1>2
  <2> QED BY <1>3, <1>5, <2>1, <2>2
<1>7. Contents' = Append(Contents, x)
  BY <1>2, <1>5, <1>6, SeqEqual
<1> QED BY <1>7 DEF x

(* The load of top that decides deque_pop: one less at the young end. *)
LEMMA ShorterContents ==
  ASSUME DequeInv, DequeInv', top' = top, items' = items,
         LogicalBottom' = LogicalBottom - 1
  PROVE  /\ Contents # << >>
         /\ Contents' = SubSeq(Contents, 1, Len(Contents) - 1)
         /\ Contents[Len(Contents)] = items[Slot(LogicalBottom - 1)]
<1> DEFINE n == LogicalBottom - top
<1>1. /\ LogicalBottom \in Int /\ top \in Nat /\ n \in Nat
      /\ Contents \in Seq(Items) /\ Len(Contents) = n
      /\ \A k \in 1 .. n : Contents[k] = items[Slot(top + k - 1)]
  BY ContentsSeq DEF DequeInv, TypeOK, WindowInv
<1>2. /\ n - 1 \in Nat
      /\ Contents' \in Seq(Items) /\ Len(Contents') = n - 1
      /\ \A k \in 1 .. n - 1 : Contents'[k] = items[Slot(top + k - 1)]
  <2>1. LogicalBottom' - top' = n - 1 /\ n - 1 >= 0
    BY <1>1 DEF DequeInv, WindowInv
  <2> QED BY <1>1, <2>1, ContentsSeqNext DEF DequeInv
<1>3. Contents[n] = items[Slot(LogicalBottom - 1)]
  <2>1. top + n - 1 = LogicalBottom - 1 /\ n \in 1 .. n
    BY <1>1, <1>2
  <2> QED BY <1>1, <2>1
<1> HIDE DEF n
<1>4. Contents # << >>
  BY <1>1, <1>2, EmptySeq
<1>5. /\ SubSeq(Contents, 1, n - 1) \in Seq(Items)
      /\ Len(SubSeq(Contents, 1, n - 1)) = n - 1
      /\ \A k \in 1 .. n - 1 : SubSeq(Contents, 1, n - 1)[k] = Contents[k]
  BY <1>1, <1>2
<1>6. Contents' = SubSeq(Contents, 1, n - 1)
  BY SMTT(30), <1>1, <1>2, <1>5, SeqEqual
<1> QED BY <1>1, <1>3, <1>4, <1>6

(* An exchange that moves top: one less at the old end. *)
LEMMA TailContents ==
  ASSUME DequeInv, DequeInv', top' = top + 1, items' = items,
         LogicalBottom' = LogicalBottom
  PROVE  /\ Contents # << >>
         /\ Contents' = Tail(Contents)
         /\ Head(Contents) = items[Slot(top)]
<1> DEFINE n == LogicalBottom - top
<1>1. /\ LogicalBottom \in Int /\ top \in Nat /\ n \in Nat
      /\ Contents \in Seq(Items) /\ Len(Contents) = n
      /\ \A k \in 1 .. n : Contents[k] = items[Slot(top + k - 1)]
  BY ContentsSeq DEF DequeInv, TypeOK, WindowInv
<1>2. /\ n - 1 \in Nat
      /\ Contents' \in Seq(Items) /\ Len(Contents') = n - 1
      /\ \A k \in 1 .. n - 1 : Contents'[k] = items[Slot((top + 1) + k - 1)]
  <2>1. LogicalBottom' - top' = n - 1 /\ n - 1 >= 0
    BY <1>1 DEF DequeInv, WindowInv
  <2> QED BY <1>1, <2>1, ContentsSeqNext DEF DequeInv
<1>3. Contents[1] = items[Slot(top)]
  <2>1. top + 1 - 1 = top /\ 1 \in 1 .. n
    BY <1>1, <1>2
  <2> QED BY <1>1, <2>1
<1> HIDE DEF n
<1>4. Contents # << >>
  BY <1>1, <1>2, EmptySeq
<1>5. /\ Tail(Contents) \in Seq(Items) /\ Len(Tail(Contents)) = n - 1
      /\ \A k \in 1 .. n - 1 : Tail(Contents)[k] = Contents[k + 1]
      /\ Head(Contents) = Contents[1]
  BY <1>1, <1>4, HeadTailProperties
<1>6. ASSUME NEW k \in 1 .. n - 1
      PROVE  Contents'[k] = Tail(Contents)[k]
  <2>1. (top + 1) + k - 1 = top + (k + 1) - 1 /\ k + 1 \in 1 .. n
    BY <1>1, <1>2
  <2> QED BY <1>1, <1>2, <1>5, <2>1
<1>7. Contents' = Tail(Contents)
  BY <1>2, <1>5, <1>6, SeqEqual
<1> QED BY <1>3, <1>4, <1>5, <1>7

(* What a caller of deque_push holds, or its push does, of the one owner. *)
LEMMA OwnersInFlight ==
  ASSUME SingleOwner, NEW p \in Owners
  PROVE  /\ InFlight = IF Pushing(p) THEN {item[p]} ELSE {}
         /\ InFlight' = IF Pushing(p)' THEN {item'[p]} ELSE {}
BY DEF SingleOwner, InFlight

(* The items that the abstract deque has not seen yet. *)
Unseen == fresh \cup InFlight

(* The abstract deque does not see this step. *)
Invisible == Contents' = Contents /\ Unseen' = Unseen /\ taken' = taken

(* The steps of deque_push before the store to bottom are invisible: an    *)
(* item the array has no room for goes back to the caller.                 *)
LEMMA PushReadsInvisible ==
  ASSUME SingleOwner, DequeInv, DequeInv', NEW p \in Owners,
         (\E x \in Items : PushLoadBottom(p, x)) \/ PushLoadTop(p) \/ PushPut(p)
  PROVE  Invisible
<1> USE DEF At, Goto, shared, PushLoadBottom, PushLoadTop, PushPut
<1>1. pc \in [Threads -> Labels] /\ item \in [Threads -> Items \cup {Null}]
  BY DEF DequeInv, TypeOK
<1>2. ~Popping(p) /\ ~Popping(p)' /\ UNCHANGED <<top, bottom, taken>>
  BY <1>1 DEF Popping, Threads
<1>3. LogicalBottom = bottom /\ LogicalBottom' = bottom
  BY <1>2, OwnersBottom, OwnersBottomNext
<1>4. \A i \in top .. LogicalBottom - 1 : items'[Slot(i)] = items[Slot(i)]
  <2>1. CASE PushPut(p)
    <3>1. /\ b[p] = bottom /\ bottom - top < Capacity
          /\ bottom \in Int /\ top \in Nat
          /\ items \in [0 .. Capacity - 1 -> Items \cup {Null}]
      BY <2>1 DEF DequeInv, OwnerInv, TypeOK, Pushing
    <3>2. ASSUME NEW i \in top .. LogicalBottom - 1
          PROVE  items'[Slot(i)] = items[Slot(i)]
      <4>1. i \in Int /\ i < bottom /\ bottom - i < Capacity
        BY <1>3, <3>1, DequeAssumption
      <4>2. Slot(i) # Slot(bottom)
        BY <3>1, <4>1, SlotInjective
      <4> QED BY <2>1, <3>1, <4>1, <4>2, SlotInRange
    <3> QED BY <3>2
  <2> QED BY <2>1
<1>5. Contents' = Contents
  BY <1>2, <1>3, <1>4, SameContents
<1>6. Unseen' = Unseen
  <2>1. CASE \E x \in Items : PushLoadBottom(p, x)
    <3>1. PICK x \in Items : PushLoadBottom(p, x)
      BY <2>1
    <3>2. ~Pushing(p) /\ Pushing(p)' /\ item'[p] = x
      BY <1>1, <3>1 DEF Pushing, Threads
    <3> QED BY <3>1, <3>2, OwnersInFlight DEF Unseen
  <2>2. CASE PushLoadTop(p)
    <3>1. Pushing(p) /\ item' = item
      BY <1>1, <2>2 DEF Pushing, Threads
    <3>2. CASE Pushing(p)'
      <4>1. fresh' = fresh
        BY <1>1, <2>2, <3>2 DEF Pushing, Threads
      <4> QED BY <3>1, <3>2, <4>1, OwnersInFlight DEF Unseen
    <3>3. CASE ~Pushing(p)'
      <4>1. fresh' = fresh \cup {item[p]}
        BY <1>1, <2>2, <3>3 DEF Pushing, Threads
      <4> QED BY <3>1, <3>3, <4>1, OwnersInFlight DEF Unseen
    <3> QED BY <3>2, <3>3
  <2>3. CASE PushPut(p)
    <3>1. Pushing(p) /\ Pushing(p)' /\ UNCHANGED <<item, fresh>>
      BY <1>1, <2>3 DEF Pushing, Threads
    <3> QED BY <3>1, OwnersInFlight DEF Unseen
  <2> QED BY <2>1, <2>2, <2>3
<1> QED BY <1>2, <1>5, <1>6 DEF Invisible

(* The store to bottom of deque_push is the abstract push. *)
LEMMA PushPublishIsPush ==
  ASSUME SingleOwner, DequeInv, DequeInv', NEW p \in Owners, PushPublish(p)
  PROVE  Abstract!Push(item[p]) /\ item[p] \in Items
<1> USE DEF At, Goto, PushPublish
<1>1. pc \in [Threads -> Labels] /\ bottom \in Int /\ top \in Nat
  BY DEF DequeInv, TypeOK
<1>2. /\ Pushing(p) /\ ~Pushing(p)' /\ ~Popping(p) /\ ~Popping(p)'
      /\ UNCHANGED <<top, items, item, fresh, taken>>
  BY <1>1 DEF Pushing, Popping, Threads
<1>3. /\ bottom - top < Capacity /\ items[Slot(bottom)] = item[p]
      /\ b[p] = bottom /\ bottom' = bottom + 1
  BY <1>2 DEF DequeInv, OwnerInv
<1>4. LogicalBottom = bottom /\ LogicalBottom' = bottom + 1
  BY <1>2, <1>3, OwnersBottom, OwnersBottomNext
<1>5. Contents' = Append(Contents, item[p])
  BY <1>2, <1>3, <1>4, LongerContents
<1>6. Len(Contents) < Capacity
  BY <1>3, <1>4, ContentsSeq DEF DequeInv
<1>7. item[p] \in Items /\ item[p] \notin fresh
  BY <1>2 DEF DequeInv, ItemInv
<1>8. /\ item[p] \in fresh \cup InFlight
      /\ (fresh \cup InFlight)' = (fresh \cup InFlight) \ {item[p]}
  BY <1>2, <1>7, OwnersInFlight
<1> QED BY <1>2, <1>5, <1>6, <1>7, <1>8 DEF Abstract!Push

(* The steps of deque_pop that decide nothing are invisible: bottom goes    *)
(* down and up again, and the contents stay what they were.                 *)
LEMMA PopStoresInvisible ==
  ASSUME SingleOwner, DequeInv, DequeInv', NEW p \in Owners,
         PopLoadBottom(p) \/ PopStoreBottom(p) \/ PopRestore(p)
  PROVE  Invisible
<1> USE DEF At, Goto, shared, PopLoadBottom, PopStoreBottom, PopRestore
<1>1. pc \in [Threads -> Labels] /\ bottom \in Int
  BY DEF DequeInv, TypeOK
<1>2. ~Pushing(p) /\ ~Pushing(p)' /\ UNCHANGED <<top, items, fresh, taken>>
  BY <1>1 DEF Pushing, Threads
<1>3. LogicalBottom' = LogicalBottom
  <2>1. CASE PopLoadBottom(p)
    <3>1. ~Popping(p) /\ ~Popping(p)' /\ bottom' = bottom
      BY <1>1, <2>1 DEF Popping, Threads
    <3> QED BY <3>1, OwnersBottom, OwnersBottomNext
  <2>2. CASE PopStoreBottom(p)
    <3>1. ~Popping(p) /\ Popping(p)' /\ bottom' = bottom - 1
      BY <1>1, <2>2 DEF Popping, Threads, DequeInv, OwnerInv
    <3> QED BY <1>1, <3>1, OwnersBottom, OwnersBottomNext
  <2>3. CASE PopRestore(p)
    <3>1. Popping(p) /\ ~Popping(p)' /\ bottom' = bottom + 1
      BY <1>1, <2>3 DEF Popping, Threads, DequeInv, OwnerInv
    <3> QED BY <1>1, <3>1, OwnersBottom, OwnersBottomNext
  <2> QED BY <2>1, <2>2, <2>3
<1>4. Contents' = Contents
  BY <1>2, <1>3, SameContents
<1>5. Unseen' = Unseen
  BY <1>2, OwnersInFlight DEF Unseen
<1> QED BY <1>2, <1>4, <1>5 DEF Invisible

(* The load of top in deque_pop takes the youngest item when it finds more  *)
(* than one, and decides nothing otherwise.                                 *)
LEMMA PopLoadTopIsPop ==
  ASSUME SingleOwner, DequeInv, DequeInv', NEW p \in Owners, PopLoadTop(p)
  PROVE  Abstract!Pop \/ Invisible
<1> USE DEF At, Goto, shared, PopLoadTop
<1>1. pc \in [Threads -> Labels] /\ bottom \in Int
  BY DEF DequeInv, TypeOK
<1>2. /\ ~Pushing(p) /\ ~Pushing(p)' /\ Popping(p)
      /\ UNCHANGED <<top, bottom, items, fresh>>
  BY <1>1 DEF Pushing, Popping, Threads
<1>3. b[p] = bottom
  BY <1>2 DEF DequeInv, OwnerInv
<1>4. LogicalBottom = bottom + 1
  BY <1>2, OwnersBottom
<1>5. Unseen' = Unseen
  BY <1>2, OwnersInFlight DEF Unseen
<1>6. CASE Popping(p)'
  <2>1. taken' = taken
    BY <1>1, <1>6 DEF Popping, Threads
  <2>2. LogicalBottom' = LogicalBottom
    BY <1>2, <1>4, <1>6, OwnersBottomNext
  <2>3. Contents' = Contents
    BY <1>2, <2>2, SameContents
  <2> QED BY <1>5, <2>1, <2>3 DEF Invisible
<1>7. CASE ~Popping(p)'
  <2>1. taken' = [taken EXCEPT ![items[Slot(bottom)]] = @ + 1]
    BY <1>1, <1>3, <1>7 DEF Popping, Threads, Take
  <2>2. LogicalBottom' = LogicalBottom - 1 /\ LogicalBottom - 1 = bottom
    BY <1>1, <1>2, <1>4, <1>7, OwnersBottomNext
  <2>3. /\ Contents # << >>
        /\ Contents' = SubSeq(Contents, 1, Len(Contents) - 1)
        /\ Contents[Len(Contents)] = items[Slot(bottom)]
    BY <1>2, <2>2, ShorterContents
  <2> QED BY <1>5, <2>1, <2>3 DEF Abstract!Pop, Unseen
<1> QED BY <1>6, <1>7

(* The exchange of deque_pop takes the last item, which is also the oldest, *)
(* or finds that a thief has it.                                            *)
LEMMA PopCasIsSteal ==
  ASSUME SingleOwner, DequeInv, DequeInv', NEW p \in Owners, PopCas(p)
  PROVE  Abstract!Steal \/ Invisible
<1> USE DEF At, Goto, PopCas
<1>1. pc \in [Threads -> Labels]
  BY DEF DequeInv, TypeOK
<1>2. /\ ~Pushing(p) /\ ~Pushing(p)' /\ Popping(p) /\ Popping(p)'
      /\ UNCHANGED <<bottom, items, fresh>>
  BY <1>1 DEF Pushing, Popping, Threads
<1>3. t[p] = bottom /\ item[p] = items[Slot(bottom)]
  BY DEF DequeInv, OwnerInv
<1>4. LogicalBottom' = LogicalBottom
  BY <1>2, OwnersBottom, OwnersBottomNext
<1>5. Unseen' = Unseen
  BY <1>2, OwnersInFlight DEF Unseen
<1>6. CASE top = t[p]
  <2>1. top' = top + 1 /\ taken' = [taken EXCEPT ![items[Slot(top)]] = @ + 1]
    BY <1>3, <1>6 DEF Take
  <2>2. /\ Contents # << >> /\ Contents' = Tail(Contents)
        /\ Head(Contents) = items[Slot(top)]
    BY <1>2, <1>4, <2>1, TailContents
  <2> QED BY <1>5, <2>1, <2>2 DEF Abstract!Steal, Unseen
<1>7. CASE top # t[p]
  <2>1. top' = top /\ taken' = taken
    BY <1>7
  <2>2. Contents' = Contents
    BY <1>2, <1>4, <2>1, SameContents
  <2> QED BY <1>5, <2>1, <2>2 DEF Invisible
<1> QED BY <1>6, <1>7

(* A thief takes the oldest item with its exchange; nothing else it does    *)
(* can be seen.                                                             *)
LEMMA ThiefIsSteal ==
  ASSUME DequeInv, DequeInv', NEW p \in Thieves, ThiefStep(p)
  PROVE  Abstract!Steal \/ Invisible
<1> USE DEF At, Goto, shared, ThiefStep, StealLoadTop, StealLoadBottom, StealGet,
            StealCas
<1>1. pc \in [Threads -> Labels] /\ item \in [Threads -> Items \cup {Null}]
  BY DEF DequeInv, TypeOK
<1>2. \A q \in Threads : q # p => pc'[q] = pc[q] /\ item'[q] = item[q]
  BY <1>1
<1>3. /\ pc[p] \in {"idle", "steal_loadbottom", "steal_get", "steal_cas"}
      /\ pc'[p] \in {"idle", "steal_loadbottom", "steal_get", "steal_cas"}
  BY <1>1 DEF Threads
<1>4. \A q \in Owners : /\ Pushing(q)' = Pushing(q)
                        /\ Popping(q)' = Popping(q)
                        /\ Pushing(q) => item'[q] = item[q]
  BY <1>2, <1>3 DEF Pushing, Popping, Threads
<1>5. UNCHANGED <<bottom, items, fresh>>
  OBVIOUS
<1>6. LogicalBottom' = LogicalBottom
  BY <1>4, <1>5 DEF LogicalBottom
<1>7. Unseen' = Unseen
  BY <1>4, <1>5 DEF Unseen, InFlight
<1>8. CASE StealCas(p) /\ top = t[p]
  <2>1. /\ top' = top + 1 /\ item[p] = items[Slot(top)]
        /\ taken' = [taken EXCEPT ![items[Slot(top)]] = @ + 1]
    BY <1>8 DEF Take, DequeInv, ThiefInv, Threads
  <2>2. /\ Contents # << >> /\ Contents' = Tail(Contents)
        /\ Head(Contents) = items[Slot(top)]
    BY <1>5, <1>6, <2>1, TailContents
  <2> QED BY <1>7, <2>1, <2>2 DEF Abstract!Steal, Unseen
<1>9. CASE ~(StealCas(p) /\ top = t[p])
  <2>1. top' = top /\ taken' = taken
    BY <1>9
  <2>2. Contents' = Contents
    BY <1>5, <1>6, <2>1, SameContents
  <2> QED BY <1>7, <2>1, <2>2 DEF Invisible
<1> QED BY <1>8, <1>9

(* With one owner the deque implements the work-stealing deque that         *)
(* lockfree_deque.h promises, for every capacity and any number of thieves: *)
(* pushes and pops at the young end, steals at the old end, every item in   *)
(* order and once.                                                          *)
THEOREM DequeRefinement ==
  ASSUME SingleOwner
  PROVE  Spec => ImplementsAbstract
<1>1. Init => Abstract!Init
  <2> SUFFICES ASSUME Init PROVE Abstract!Init
    OBVIOUS
  <2>1. \A p \in Owners : ~Pushing(p) /\ ~Popping(p)
    BY DEF Init, Pushing, Popping, Threads
  <2>2. LogicalBottom = 0 /\ InFlight = {}
    BY <2>1 DEF LogicalBottom, InFlight, Init
  <2>3. Contents = << >>
    <3>1. Contents \in Seq(Items) /\ Len(Contents) = 0
      BY <2>2, InitInv, ContentsSeq DEF DequeInv, Init
    <3> QED BY <3>1, EmptySeq
  <2> QED BY <2>2, <2>3 DEF Init, Abstract!Init
<1>2. DequeInv /\ DequeInv' /\ [Next]_vars => [Abstract!Next]_(Abstract!vars)
  <2> SUFFICES ASSUME DequeInv, DequeInv', [Next]_vars
               PROVE  [Abstract!Next]_(Abstract!vars)
    OBVIOUS
  <2>1. Invisible => UNCHANGED Abstract!vars
    BY DEF Invisible, Unseen, Abstract!vars
  <2>2. ASSUME NEW p \in Owners, OwnerStep(p)
        PROVE  Abstract!Next \/ Invisible
    BY <2>2, PushReadsInvisible, PushPublishIsPush, PopStoresInvisible,
       PopLoadTopIsPop, PopCasIsSteal DEF OwnerStep, Abstract!Next
  <2>3. ASSUME NEW p \in Thieves, ThiefStep(p)
        PROVE  Abstract!Next \/ Invisible
    BY <2>3, ThiefIsSteal DEF Abstract!Next
  <2>4. CASE UNCHANGED vars
    <3>1. InFlight' = InFlight /\ LogicalBottom' = LogicalBottom
      BY <2>4 DEF vars, InFlight, LogicalBottom, Pushing, Popping
    <3>2. Contents' = Contents
      BY <2>4, <3>1, SameContents DEF vars
    <3> QED BY <2>1, <2>4, <3>1, <3>2 DEF vars, Invisible, Unseen
  <2> QED BY <2>1, <2>2, <2>3, <2>4 DEF Next
<1> QED BY <1>1, <1>2, DequeInvariant, PTL DEF Spec, ImplementsAbstract, Abstract!Spec
=============================================================================
