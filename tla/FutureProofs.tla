---------------------------- MODULE FutureProofs ----------------------------
(***************************************************************************)
(* For any number of threads that complete, fail, cancel, wait on and add  *)
(* callbacks to one future: a callback of a completed future is called     *)
(* once, and a wait returns after the future is settled, with a result.    *)
(***************************************************************************)
EXTENDS Future, FiniteSetTheorems, TLAPS

(* Where a thread can be. *)
Labels == {"start", "settle", "cancel_broadcast", "wait_lock", "wait_sleep",
           "asleep", "wait_return", "done"}

(* The sets of threads do not overlap where the proofs need it. *)
LEMMA ThreadKinds ==
  /\ \A p \in Settlers : p \in Threads /\ p \notin Waiters /\ p \notin Callbacks
  /\ \A w \in Waiters : w \in Threads /\ w \notin Settlers /\ w \notin Callbacks
  /\ \A c \in Callbacks : c \in Threads /\ c \notin Settlers /\ c \notin Waiters
  /\ \A p \in Completers : p \in Settlers /\ p \notin Failers /\ p \notin Cancellers
  /\ \A p \in Failers \cup Cancellers : p \in Settlers /\ p \notin Completers
BY FutureAssumption DEF Settlers, Threads

(* What a broadcast does to the program counters: the sleepers are awake.  *)
LEMMA BroadcastPcs ==
  ASSUME TypeOK, NEW p \in Settlers, BroadcastAndGoto(p, "done")
  PROVE  /\ pc' \in [Threads -> Labels]
         /\ pc'[p] = "done"
         /\ \A w \in Waiters : pc'[w] = IF At(w, "asleep") THEN "wait_lock" ELSE pc[w]
         /\ \A q \in Threads \ Waiters : q # p => pc'[q] = pc[q]
         /\ sleeping' = {w \in Waiters : pc'[w] = "asleep"}
<1>1. /\ pc \in [Threads -> Labels]
      /\ sleeping = {w \in Waiters : pc[w] = "asleep"}
  BY DEF TypeOK, Labels, At
<1>2. /\ sleeping' = {}
      /\ pc' = [q \in Threads |-> IF q = p THEN "done"
                                  ELSE IF q \in sleeping THEN "wait_lock" ELSE pc[q]]
  BY DEF BroadcastAndGoto
<1>3. p \in Threads /\ p \notin Waiters
  BY ThreadKinds
<1>4. \A w \in Waiters : w \in Threads /\ w # p
  BY <1>3, ThreadKinds
<1>5. pc' \in [Threads -> Labels]
  BY <1>1, <1>2 DEF Labels
<1>6. pc'[p] = "done"
  BY <1>2, <1>3
<1>7. \A w \in Waiters : pc'[w] = IF pc[w] = "asleep" THEN "wait_lock" ELSE pc[w]
  BY <1>1, <1>2, <1>4
<1>8. \A q \in Threads \ Waiters : q # p => pc'[q] = pc[q]
  BY <1>1, <1>2
<1>9. \A w \in Waiters : pc'[w] # "asleep"
  BY <1>7
<1> QED BY <1>2, <1>5, <1>6, <1>7, <1>8, <1>9 DEF At

(* What a step of one thread does to the program counters. *)
LEMMA GotoPcs ==
  ASSUME TypeOK, NEW p \in Threads, NEW l \in Labels, Goto(p, l)
  PROVE  /\ pc' \in [Threads -> Labels]
         /\ pc'[p] = l
         /\ \A q \in Threads : q # p => pc'[q] = pc[q]
BY DEF TypeOK, Goto, Labels

(* One more settler, for the counting of completions. *)
LEMMA OneMoreSettler ==
  ASSUME IsFiniteSet(settlers), NEW p, p \notin settlers
  PROVE  LET S == settlers \cap Completers
             T == (settlers \cup {p}) \cap Completers
         IN  /\ IsFiniteSet(settlers \cup {p})
             /\ Cardinality(S) \in Nat
             /\ p \in Completers => Cardinality(T) = Cardinality(S) + 1
             /\ p \notin Completers => T = S
<1> DEFINE S == settlers \cap Completers
           T == (settlers \cup {p}) \cap Completers
<1>1. IsFiniteSet(settlers \cup {p})
  BY FS_AddElement
<1>2. IsFiniteSet(S)
  BY FS_Subset
<1>3. Cardinality(S) \in Nat
  BY <1>2, FS_CardinalityType
<1>4. ASSUME p \in Completers PROVE Cardinality(T) = Cardinality(S) + 1
  <2>1. T = S \cup {p} /\ p \notin S
    BY <1>4
  <2> QED BY <1>2, <2>1, FS_AddElement
<1>5. p \notin Completers => T = S
  OBVIOUS
<1> QED BY <1>1, <1>3, <1>4, <1>5

-----------------------------------------------------------------------------
(* The test of the state changes nothing that the invariant speaks of. *)
LEMMA SettleCheckStep ==
  ASSUME FutureInv, NEW p \in Settlers, SettleCheck(p)
  PROVE  FutureInv'
<1>1. /\ pc[p] = "start"
      /\ UNCHANGED <<state, result, callbacks, owner, sleeping, called, got, settlers>>
      /\ \E l \in {"settle", "done"} : Goto(p, l)
  BY DEF SettleCheck, At
<1>2. p \in Threads /\ p \notin Waiters /\ p \notin Callbacks
  BY ThreadKinds
<1>3. /\ pc' \in [Threads -> Labels]
      /\ pc'[p] \in {"settle", "done"}
      /\ \A q \in Threads : q # p => pc'[q] = pc[q]
  BY <1>1, <1>2, GotoPcs DEF FutureInv, Labels
<1>4. /\ \A w \in Waiters : pc'[w] = pc[w]
      /\ \A c \in Callbacks : pc'[c] = pc[c]
  BY <1>2, <1>3, ThreadKinds
<1>5. TypeOK'
  BY <1>1, <1>3, <1>4 DEF FutureInv, TypeOK, At, Labels
<1>6. p \notin settlers /\ settlers \subseteq Threads
  BY <1>1, ThreadKinds DEF FutureInv, SettlerInv, TypeOK
<1>7. SettlerInv'
  BY <1>1, <1>3, <1>6 DEF FutureInv, SettlerInv, Settled
<1>8. WaiterInv' /\ WaitGetsResult'
  BY <1>1, <1>4 DEF FutureInv, WaiterInv, WaitGetsResult, At
<1>9. CallbackInv'
  BY <1>1, <1>4 DEF FutureInv, CallbackInv, At
<1> QED BY <1>5, <1>7, <1>8, <1>9 DEF FutureInv

(* Under the mutex future_complete calls every callback that was kept: the *)
(* number of its calls stays the number of the completions.                *)
LEMMA CompleteStep ==
  ASSUME FutureInv, NEW p \in Completers, Complete(p)
  PROVE  FutureInv'
<1>1. /\ pc[p] = "settle" /\ state' = "completed" /\ result' = p
      /\ called' = [c \in Callbacks |-> IF c \in callbacks THEN called[c] + 1
                                                           ELSE called[c]]
      /\ settlers' = settlers \cup {p}
      /\ UNCHANGED <<callbacks, owner, got>>
      /\ BroadcastAndGoto(p, "done")
  BY DEF Complete, At
<1>2. p \in Settlers /\ p \in Threads /\ p \notin Waiters /\ p \notin Callbacks
  BY ThreadKinds
<1>3. /\ pc' \in [Threads -> Labels] /\ pc'[p] = "done"
      /\ \A w \in Waiters : pc'[w] = IF pc[w] = "asleep" THEN "wait_lock" ELSE pc[w]
      /\ \A q \in Threads \ Waiters : q # p => pc'[q] = pc[q]
      /\ sleeping' = {w \in Waiters : pc'[w] = "asleep"}
  BY <1>1, <1>2, BroadcastPcs DEF FutureInv, At
<1>4. \A c \in Callbacks : pc'[c] = pc[c]
  BY <1>2, <1>3, ThreadKinds
<1>5. called' \in [Callbacks -> Nat]
  BY <1>1 DEF FutureInv, TypeOK
<1>6. TypeOK'
  BY <1>1, <1>2, <1>3, <1>5 DEF FutureInv, TypeOK, At, Labels
<1>7. p \notin settlers /\ settlers \subseteq Settlers
  BY <1>1 DEF FutureInv, SettlerInv, TypeOK
<1>8. SettlerInv'
  <2>1. IsFiniteSet(settlers')
    BY <1>1, <1>7, OneMoreSettler DEF FutureInv, SettlerInv
  <2>2. ASSUME NEW q \in settlers' PROVE pc'[q] \in {"cancel_broadcast", "done"}
    BY <1>1, <1>3, <1>7, <2>2, ThreadKinds DEF FutureInv, SettlerInv
  <2> QED BY <1>1, <2>1, <2>2 DEF SettlerInv, Settled
<1>9. WaiterInv'
  BY <1>1 DEF WaiterInv
<1>10. WaitGetsResult'
  BY <1>1, <1>3 DEF FutureInv, WaitGetsResult, At
<1>11. CallbackInv'
  <2>1. /\ Cardinality(settlers \cap Completers) \in Nat
        /\ Cardinality(settlers' \cap Completers) =
             Cardinality(settlers \cap Completers) + 1
    BY <1>1, <1>7, OneMoreSettler DEF FutureInv, SettlerInv
  <2>2. ASSUME NEW c \in Callbacks
        PROVE  /\ called[c] \in Nat
               /\ called'[c] = IF c \in callbacks THEN called[c] + 1 ELSE called[c]
    BY <1>1 DEF FutureInv, TypeOK
  <2> QED BY <1>1, <1>4, <2>1, <2>2 DEF FutureInv, CallbackInv, At
<1> QED BY <1>6, <1>8, <1>9, <1>10, <1>11 DEF FutureInv

(* future_fail and the store of future_cancel settle the future without a  *)
(* result: no callback is called, and a wait is promised nothing more.     *)
LEMMA SettleWithoutResult ==
  ASSUME FutureInv, NEW p \in Failers \cup Cancellers,
         pc[p] = "settle", settlers' = settlers \cup {p},
         state' \in {"failed", "cancelled"},
         UNCHANGED <<result, callbacks, called, got>>,
         pc'[p] \in {"cancel_broadcast", "done"},
         \A w \in Waiters : pc'[w] = "done" => pc[w] = "done",
         \A q \in Threads \ Waiters : q # p => pc'[q] = pc[q]
  PROVE  SettlerInv' /\ WaiterInv' /\ CallbackInv' /\ WaitGetsResult'
<1>1. p \in Settlers /\ p \in Threads /\ p \notin Completers
  BY ThreadKinds
<1>2. p \notin settlers /\ settlers \subseteq Settlers
  BY DEF FutureInv, SettlerInv, TypeOK
<1>3. /\ IsFiniteSet(settlers')
      /\ settlers' \cap Completers = settlers \cap Completers
  BY <1>1, <1>2, OneMoreSettler DEF FutureInv, SettlerInv
<1>4. SettlerInv'
  <2>1. ASSUME NEW q \in settlers' PROVE pc'[q] \in {"cancel_broadcast", "done"}
    BY <1>2, <2>1, ThreadKinds DEF FutureInv, SettlerInv
  <2> QED BY <1>3, <2>1 DEF FutureInv, SettlerInv, Settled
<1>5. WaiterInv'
  BY DEF WaiterInv
<1>6. WaitGetsResult'
  BY <1>1 DEF FutureInv, WaitGetsResult, At
<1>7. CallbackInv'
  <2>1. \A c \in Callbacks : pc'[c] = pc[c]
    BY <1>1, ThreadKinds
  <2> QED BY <1>3, <2>1 DEF FutureInv, CallbackInv, At
<1> QED BY <1>4, <1>5, <1>6, <1>7

(* future_fail wakes the waiters under the mutex. *)
LEMMA FailStep ==
  ASSUME FutureInv, NEW p \in Failers, Fail(p)
  PROVE  FutureInv'
<1>1. /\ pc[p] = "settle" /\ state' = "failed"
      /\ settlers' = settlers \cup {p}
      /\ UNCHANGED <<result, callbacks, owner, called, got>>
      /\ BroadcastAndGoto(p, "done")
  BY DEF Fail, At
<1>2. p \in Settlers
  BY ThreadKinds
<1>3. /\ pc' \in [Threads -> Labels] /\ pc'[p] = "done"
      /\ \A w \in Waiters : pc'[w] = IF pc[w] = "asleep" THEN "wait_lock" ELSE pc[w]
      /\ \A q \in Threads \ Waiters : q # p => pc'[q] = pc[q]
      /\ sleeping' = {w \in Waiters : pc'[w] = "asleep"}
  BY <1>1, <1>2, BroadcastPcs DEF FutureInv, At
<1>4. TypeOK'
  BY <1>1, <1>2, <1>3 DEF FutureInv, TypeOK, At, Labels
<1>5. SettlerInv' /\ WaiterInv' /\ CallbackInv' /\ WaitGetsResult'
  BY <1>1, <1>3, SettleWithoutResult
<1> QED BY <1>4, <1>5 DEF FutureInv

(* future_cancel stores the state, and wakes the waiters later. *)
LEMMA CancelStoreStep ==
  ASSUME FutureInv, NEW p \in Cancellers, CancelStore(p)
  PROVE  FutureInv'
<1>1. /\ pc[p] = "settle" /\ state' = "cancelled"
      /\ settlers' = settlers \cup {p}
      /\ UNCHANGED <<result, callbacks, owner, sleeping, called, got>>
      /\ Goto(p, "cancel_broadcast")
  BY DEF CancelStore, At
<1>2. p \in Settlers /\ p \in Threads /\ p \notin Waiters
  BY ThreadKinds
<1>3. /\ pc' \in [Threads -> Labels] /\ pc'[p] = "cancel_broadcast"
      /\ \A q \in Threads : q # p => pc'[q] = pc[q]
  BY <1>1, <1>2, GotoPcs DEF FutureInv, Labels
<1>4. \A w \in Waiters : pc'[w] = pc[w]
  BY <1>2, <1>3, ThreadKinds
<1>5. TypeOK'
  BY <1>1, <1>2, <1>3, <1>4 DEF FutureInv, TypeOK, At, Labels
<1>6. SettlerInv' /\ WaiterInv' /\ CallbackInv' /\ WaitGetsResult'
  BY <1>1, <1>3, <1>4, SettleWithoutResult
<1> QED BY <1>5, <1>6 DEF FutureInv

(* The late broadcast of future_cancel. *)
LEMMA CancelBroadcastStep ==
  ASSUME FutureInv, NEW p \in Cancellers, CancelBroadcast(p)
  PROVE  FutureInv'
<1>1. /\ UNCHANGED <<state, result, callbacks, owner, called, got, settlers>>
      /\ BroadcastAndGoto(p, "done")
  BY DEF CancelBroadcast
<1>2. p \in Settlers /\ p \notin Callbacks
  BY ThreadKinds
<1>3. /\ pc' \in [Threads -> Labels] /\ pc'[p] = "done"
      /\ \A w \in Waiters : pc'[w] = IF pc[w] = "asleep" THEN "wait_lock" ELSE pc[w]
      /\ \A q \in Threads \ Waiters : q # p => pc'[q] = pc[q]
      /\ sleeping' = {w \in Waiters : pc'[w] = "asleep"}
  BY <1>1, <1>2, BroadcastPcs DEF FutureInv, At
<1>4. \A c \in Callbacks : pc'[c] = pc[c]
  BY <1>2, <1>3, ThreadKinds
<1>5. TypeOK'
  BY <1>1, <1>3 DEF FutureInv, TypeOK, At, Labels
<1>6. SettlerInv'
  <2>1. settlers \subseteq Settlers
    BY DEF FutureInv, TypeOK
  <2>2. ASSUME NEW q \in settlers PROVE pc'[q] \in {"cancel_broadcast", "done"}
    BY <1>3, <2>1, ThreadKinds DEF FutureInv, SettlerInv
  <2> QED BY <1>1, <2>2 DEF FutureInv, SettlerInv, Settled
<1>7. WaiterInv' /\ WaitGetsResult'
  BY <1>1, <1>3 DEF FutureInv, WaiterInv, WaitGetsResult, At
<1>8. CallbackInv'
  BY <1>1, <1>4 DEF FutureInv, CallbackInv, At
<1> QED BY <1>5, <1>6, <1>7, <1>8 DEF FutureInv

(* future_then calls its callback now or leaves it to future_complete. *)
LEMMA ThenStep ==
  ASSUME FutureInv, NEW c \in Callbacks, Then(c)
  PROVE  FutureInv'
<1>1. /\ pc[c] = "start"
      /\ UNCHANGED <<state, result, owner, sleeping, got, settlers>>
      /\ Goto(c, "done")
      /\ \/ /\ state = "completed"
            /\ called' = [called EXCEPT ![c] = @ + 1]
            /\ callbacks' = callbacks
         \/ /\ state # "completed"
            /\ callbacks' = callbacks \cup {c}
            /\ called' = called
  BY DEF Then, At
<1>2. c \in Threads /\ c \notin Waiters /\ c \notin Settlers
  BY ThreadKinds
<1>3. /\ pc' \in [Threads -> Labels] /\ pc'[c] = "done"
      /\ \A q \in Threads : q # c => pc'[q] = pc[q]
  BY <1>1, <1>2, GotoPcs DEF FutureInv, Labels
<1>4. /\ \A w \in Waiters : pc'[w] = pc[w]
      /\ \A p \in Settlers : pc'[p] = pc[p]
  BY <1>2, <1>3, ThreadKinds
<1>5. called' \in [Callbacks -> Nat] /\ called \in [Callbacks -> Nat]
  BY <1>1 DEF FutureInv, TypeOK
<1>6. TypeOK'
  BY <1>1, <1>3, <1>4, <1>5 DEF FutureInv, TypeOK, At, Labels
<1>7. SettlerInv'
  <2>1. settlers \subseteq Settlers
    BY DEF FutureInv, TypeOK
  <2> QED BY <1>1, <1>4, <2>1 DEF FutureInv, SettlerInv, Settled
<1>8. WaiterInv' /\ WaitGetsResult'
  BY <1>1, <1>4 DEF FutureInv, WaiterInv, WaitGetsResult, At
<1>9. CallbackInv'
  <2>1. /\ called[c] = 0 /\ c \notin callbacks
        /\ Cardinality(settlers \cap Completers) \in Nat
    <3>1. IsFiniteSet(settlers \cap Completers)
      BY FS_Subset DEF FutureInv, SettlerInv
    <3> QED BY <1>1, <3>1, FS_CardinalityType DEF FutureInv, CallbackInv, At
  <2>2. ASSUME NEW d \in Callbacks, d # c
        PROVE  /\ pc'[d] = pc[d] /\ called'[d] = called[d]
               /\ d \in callbacks' <=> d \in callbacks
    BY <1>1, <1>3, <1>5, <2>2 DEF Threads
  <2>3. /\ pc[c] = "start" => pc'[c] = "done"
        /\ c \notin callbacks' => called'[c] = 1
        /\ c \in callbacks' => called'[c] = 0 /\ state # "completed"
    BY <1>1, <1>3, <1>5, <2>1
  <2>4. SUFFICES ASSUME NEW d \in Callbacks
                 PROVE  /\ pc'[d] \in {"start", "done"}
                        /\ pc'[d] = "start" => d \notin callbacks' /\ called'[d] = 0
                        /\ pc'[d] = "done" /\ d \notin callbacks' => called'[d] = 1
                        /\ d \in callbacks' =>
                             /\ called'[d] <= Cardinality(settlers \cap Completers)
                             /\ state = "completed" => called'[d] >= 1
    BY <1>1 DEF CallbackInv, At
  <2>5. CASE d = c
    BY <1>3, <2>1, <2>3, <2>5
  <2>6. CASE d # c
    BY <2>2, <2>6 DEF FutureInv, CallbackInv, At
  <2> QED BY <2>5, <2>6
<1> QED BY <1>6, <1>7, <1>8, <1>9 DEF FutureInv

(* A step of future_wait before its last: the loop leaves only when the    *)
(* state is not pending any more.                                          *)
LEMMA WaitLoopStep ==
  ASSUME FutureInv, NEW w \in Waiters,
         WaitTest(w) \/ WaitSleep(w) \/ WaitSpurious(w)
  PROVE  FutureInv'
<1>1. UNCHANGED <<state, result, callbacks, called, got, settlers>>
  BY DEF WaitTest, WaitSleep, WaitSpurious
<1>2. /\ owner' = owner \/ owner' = {} \/ owner' = {w}
      /\ \E l \in {"wait_lock", "wait_sleep", "asleep", "wait_return"} :
            /\ Goto(w, l)
            /\ l = "wait_return" => state # "pending"
            /\ l = "asleep" => sleeping' = sleeping \cup {w}
            /\ l # "asleep" => sleeping' = sleeping \ {w}
  <2>1. sleeping = {v \in Waiters : pc[v] = "asleep"}
    BY DEF FutureInv, TypeOK, At
  <2>2. CASE WaitTest(w)
    <3>1. w \notin sleeping /\ sleeping' = sleeping
      BY <2>1, <2>2 DEF WaitTest
    <3> QED BY <2>2, <3>1 DEF WaitTest
  <2>3. CASE WaitSleep(w)
    BY <2>3 DEF WaitSleep, NoOwner
  <2>4. CASE WaitSpurious(w)
    BY <2>4 DEF WaitSpurious
  <2> QED BY <2>2, <2>3, <2>4
<1>3. w \in Threads /\ w \notin Settlers /\ w \notin Callbacks
  BY ThreadKinds
<1>4. PICK l \in {"wait_lock", "wait_sleep", "asleep", "wait_return"} :
         /\ Goto(w, l)
         /\ l = "wait_return" => state # "pending"
         /\ l = "asleep" => sleeping' = sleeping \cup {w}
         /\ l # "asleep" => sleeping' = sleeping \ {w}
  BY <1>2
<1>5. /\ pc' \in [Threads -> Labels] /\ pc'[w] = l
      /\ \A q \in Threads : q # w => pc'[q] = pc[q]
  BY <1>3, <1>4, GotoPcs DEF FutureInv, Labels
<1>6. /\ \A c \in Callbacks : pc'[c] = pc[c]
      /\ \A p \in Settlers : pc'[p] = pc[p]
      /\ \A v \in Waiters : v # w => pc'[v] = pc[v]
  BY <1>3, <1>5, ThreadKinds
<1>7. TypeOK'
  <2>1. sleeping' = {v \in Waiters : pc'[v] = "asleep"}
    <3>1. sleeping = {v \in Waiters : pc[v] = "asleep"}
      BY DEF FutureInv, TypeOK, At
    <3> QED BY <1>4, <1>5, <1>6, <3>1
  <2>2. owner' \in SUBSET Waiters /\ Cardinality(owner') <= 1
    <3>1. Cardinality({}) = 0 /\ Cardinality({w}) = 1
      BY FS_EmptySet, FS_Singleton
    <3>2. owner \in SUBSET Waiters /\ Cardinality(owner) <= 1
      BY DEF FutureInv, TypeOK
    <3>3. CASE owner' = owner
      BY <3>2, <3>3
    <3>4. CASE owner' = {}
      BY <3>1, <3>4
    <3>5. CASE owner' = {w}
      BY <3>1, <3>5
    <3> QED BY <1>2, <3>3, <3>4, <3>5
  <2> QED BY <1>1, <1>5, <2>1, <2>2 DEF FutureInv, TypeOK, At, Labels
<1>8. SettlerInv'
  <2>1. settlers \subseteq Settlers
    BY DEF FutureInv, TypeOK
  <2> QED BY <1>1, <1>6, <2>1 DEF FutureInv, SettlerInv, Settled
<1>9. WaiterInv'
  BY <1>1, <1>4, <1>5, <1>6 DEF FutureInv, WaiterInv, SettlerInv, Settled
<1>10. WaitGetsResult'
  BY <1>1, <1>5, <1>6 DEF FutureInv, WaitGetsResult, At
<1>11. CallbackInv'
  BY <1>1, <1>6 DEF FutureInv, CallbackInv, At
<1> QED BY <1>7, <1>8, <1>9, <1>10, <1>11 DEF FutureInv

(* future_wait reads the result after it has given up the mutex. *)
LEMMA WaitReturnStep ==
  ASSUME FutureInv, NEW w \in Waiters, WaitReturn(w)
  PROVE  FutureInv'
<1>1. /\ pc[w] = "wait_return" /\ got' = [got EXCEPT ![w] = result]
      /\ Goto(w, "done")
      /\ UNCHANGED <<state, result, callbacks, owner, sleeping, called, settlers>>
  BY DEF WaitReturn, At
<1>2. w \in Threads /\ w \notin Settlers /\ w \notin Callbacks
  BY ThreadKinds
<1>3. /\ pc' \in [Threads -> Labels] /\ pc'[w] = "done"
      /\ \A q \in Threads : q # w => pc'[q] = pc[q]
  BY <1>1, <1>2, GotoPcs DEF FutureInv, Labels
<1>4. /\ \A c \in Callbacks : pc'[c] = pc[c]
      /\ \A p \in Settlers : pc'[p] = pc[p]
      /\ \A v \in Waiters : v # w => pc'[v] = pc[v]
  BY <1>2, <1>3, ThreadKinds
<1>5. /\ got' \in [Waiters -> Completers \cup {Null}] /\ got'[w] = result
      /\ \A v \in Waiters : v # w => got'[v] = got[v]
  BY <1>1 DEF FutureInv, TypeOK
<1>6. TypeOK'
  BY <1>1, <1>3, <1>4, <1>5 DEF FutureInv, TypeOK, At, Labels
<1>7. SettlerInv'
  <2>1. settlers \subseteq Settlers
    BY DEF FutureInv, TypeOK
  <2> QED BY <1>1, <1>4, <2>1 DEF FutureInv, SettlerInv, Settled
<1>8. WaiterInv'
  BY <1>1, <1>3, <1>4 DEF FutureInv, WaiterInv
<1>9. WaitGetsResult'
  <2>1. settlers # {} /\ (settlers \subseteq Completers => result \in settlers)
    BY <1>1 DEF FutureInv, WaiterInv, SettlerInv
  <2> QED BY <1>1, <1>3, <1>4, <1>5, <2>1 DEF FutureInv, WaitGetsResult, At
<1>10. CallbackInv'
  BY <1>1, <1>4 DEF FutureInv, CallbackInv, At
<1> QED BY <1>6, <1>7, <1>8, <1>9, <1>10 DEF FutureInv

-----------------------------------------------------------------------------
(* future_create establishes the invariant. *)
LEMMA InitInv ==
  ASSUME Init
  PROVE  FutureInv
<1> USE DEF Init
<1>1. Cardinality({}) = 0 /\ IsFiniteSet({})
  BY FS_EmptySet
<1>2. \A p \in Threads : pc[p] = "start"
  OBVIOUS
<1>3. TypeOK
  BY <1>1, <1>2, ThreadKinds DEF TypeOK, NoOwner, At
<1>4. SettlerInv /\ WaiterInv /\ CallbackInv /\ WaitGetsResult
  BY <1>1, <1>2, ThreadKinds DEF SettlerInv, WaiterInv, CallbackInv,
     WaitGetsResult, Settled, At
<1> QED BY <1>3, <1>4 DEF FutureInv

(* Every step of every thread keeps the invariant. *)
LEMMA StepInv ==
  ASSUME FutureInv, [Next]_vars
  PROVE  FutureInv'
<1>1. ASSUME NEW p \in Threads, Step(p) PROVE FutureInv'
  BY <1>1, SettleCheckStep, CompleteStep, FailStep, CancelStoreStep,
     CancelBroadcastStep, ThenStep, WaitLoopStep, WaitReturnStep DEF Step
<1>2. ASSUME NEW w \in Waiters, WaitSpurious(w) PROVE FutureInv'
  BY <1>2, WaitLoopStep
<1>3. CASE UNCHANGED vars
  BY <1>3 DEF vars, FutureInv, TypeOK, SettlerInv, WaiterInv, CallbackInv,
     WaitGetsResult, Settled, At
<1> QED BY <1>1, <1>2, <1>3 DEF Next

(* The inductive invariant holds in every state, for any threads. *)
THEOREM FutureInvariant == Spec => []FutureInv
<1>1. Init => FutureInv
  BY InitInv
<1>2. FutureInv /\ [Next]_vars => FutureInv'
  BY StepInv
<1> QED BY <1>1, <1>2, PTL DEF Spec

(* Every callback of a completed future is called, and called once unless   *)
(* two completions passed the test of the state together.                   *)
THEOREM FutureCallbacksExact == Spec => []CallbacksExact
<1>1. FutureInv => CallbacksExact
  <2> SUFFICES ASSUME FutureInv PROVE CallbacksExact
    OBVIOUS
  <2>1. Cardinality(settlers \cap Completers) \in Nat
    <3>1. IsFiniteSet(settlers \cap Completers)
      BY FS_Subset DEF FutureInv, SettlerInv
    <3> QED BY <3>1, FS_CardinalityType
  <2>2. \A c \in Callbacks : called[c] \in Nat
    BY DEF FutureInv, TypeOK
  <2>3. CallbackOnce
    BY <2>1, <2>2 DEF FutureInv, CallbackInv, CallbackOnce, At
  <2>4. CallbacksCalled
    BY <2>2 DEF FutureInv, CallbackInv, CallbacksCalled, At
  <2> QED BY <2>3, <2>4 DEF FutureInv, CallbacksExact
<1> QED BY <1>1, FutureInvariant, PTL

(* future_wait returns only when the future is settled, and with a result   *)
(* of a completion if nothing but completions settled it.                   *)
THEOREM FutureWaitGetsResult == Spec => []WaitGetsResult
<1>1. FutureInv => WaitGetsResult
  BY DEF FutureInv
<1> QED BY <1>1, FutureInvariant, PTL
=============================================================================
